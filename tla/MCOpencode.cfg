CONSTANTS
  Callers = {c1, c2}
  None = none
  Configured = configured
  MaxLives = 2
  MaxCalls = 2
  MaxUpsets = 1
SPECIFICATION Spec
INVARIANTS TypeOK PasswordFits CachedSessionLives
PROPERTIES CallEnds
CHECK_DEADLOCK FALSE
