CONSTANTS
  Threads = {main}
  Turns = {t1, t2}
  Kinds = {"stream"}
  Decisions <- CallOrRespond
  MaxSteps = 2
  MaxProgress = 0
  MaxFaults = 1
  Window = 3
  SummaryWindow = 3
SPECIFICATION Spec
SYMMETRY TurnSymmetry
INVARIANTS Causality OwnWritesShown ContextIsPaired 
CHECK_DEADLOCK FALSE
