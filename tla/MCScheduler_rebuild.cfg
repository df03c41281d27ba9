CONSTANTS
  Ids = {j1, j2}
  Exprs = {daily}
  Malformed = malformed
  None = none
  MaxJobs = 2
  MaxRuns = 1
  MaxUpsets = 1
SPECIFICATION Spec
INVARIANTS RebuiltOnStartup
CHECK_DEADLOCK FALSE
