CONSTANTS
  Threads = {main}
  Turns = {t1}
  Kinds = {"timer"}
  Decisions <- OneDecides
  MaxSteps = 2
  MaxProgress = 0
  MaxFaults = 0
  Window = 3
  SummaryWindow = 3
SPECIFICATION Spec
INVARIANTS InstructionReachesModel
CHECK_DEADLOCK FALSE
