SPECIFICATION Spec
CONSTANTS
  Responses = {r1, r2}
  Callers = {c1, c2}
INVARIANTS TypeOK AnswerIsStored StreamLeavesNoProgress
PROPERTY TerminalStays
CHECK_DEADLOCK FALSE
