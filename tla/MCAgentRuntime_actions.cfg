CONSTANTS
  Threads = {main}
  Turns = {t1, t2}
  Kinds = {"stream"}
  Decisions <- OneDecides
  MaxSteps = 2
  MaxProgress = 1
  MaxFaults = 1
  Window = 3
  SummaryWindow = 9
SPECIFICATION Spec
INVARIANTS TypeOK CallsAnswered ReplyOnFile
PROPERTIES TurnEnds
CHECK_DEADLOCK FALSE
