SPECIFICATION Spec
CONSTANTS
  Responses = {r1}
  Callers = {c1}
INVARIANT CancelStays
CHECK_DEADLOCK FALSE
