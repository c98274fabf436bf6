SPECIFICATION Spec
CONSTANTS
  N = 2
  r1 = r1
  r2 = r2
  r3 = r3
  s1 = s1
  s2 = s2
  Requests = {r1, r2, r3}
  Sessions = {s1, s2}
  SessionOf <- OneConversation
  NoReq = NoReq
  Lost = Lost
INVARIANTS TypeOK MutualExclusion SlotIntegrity SingleProbe
PROPERTIES ProbesOnlyBroken ImplementsExclusiveUse
SYMMETRY AnyRequest
