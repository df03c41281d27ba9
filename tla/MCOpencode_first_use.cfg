CONSTANTS
  Callers = {c1, c2}
  None = none
  Configured = configured
  MaxLives = 1
  MaxCalls = 2
  MaxUpsets = 0
SPECIFICATION Spec
INVARIANTS ServerIsUsable
CHECK_DEADLOCK FALSE
