SPECIFICATION Spec
CONSTANTS
  a1 = a1
  a2 = a2
  r1 = r1
  r2 = r2
  Accounts = {a1, a2}
  Requests = {r1, r2}
  Conv = Conv
  NoKey = NoKey
  NoReq = NoReq
  MaxTurns = 2
  MaxChats = 3
  MAX_RETRIES = 1
  MAX_CONTINUE_ROUNDS = 2
  Variants = 1
INVARIANTS TypeOK DeltaGoesToKnownChat StaleChatIsLeft OnePromptAtATime
PROPERTIES BranchGrows EveryStepIsProgress
SYMMETRY Sym
