CONSTANTS
  Ids = {j1, j2}
  Exprs = {daily, hourly}
  Malformed = malformed
  None = none
  MaxJobs = 2
  MaxRuns = 2
  MaxUpsets = 2
SPECIFICATION Spec
INVARIANTS TypeOK SchedulerAgreesWithFile RunsRecorded
PROPERTIES RemovedNeverRuns RunEnds
CHECK_DEADLOCK FALSE
