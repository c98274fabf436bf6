SPECIFICATION Spec
CONSTANT Inputs <- MCInputs
INVARIANT MatchesDirectStrip
CHECK_DEADLOCK FALSE
