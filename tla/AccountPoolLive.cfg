SPECIFICATION FairSpec
CONSTANTS
  N = 1
  r1 = r1
  r2 = r2
  r3 = r3
  s1 = s1
  s2 = s2
  Requests = {r1, r2, r3}
  Sessions = {s1}
  SessionOf <- OneConversation
  NoReq = NoReq
  Lost = Lost
PROPERTY Answered
