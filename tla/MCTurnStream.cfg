CONSTANTS
  Indices = {1, 2}
  Blocks <- Mixed
  MaxSteps = 2
  MaxInputs = 3
  MaxFaults = 1
SPECIFICATION Spec
INVARIANTS TypeOK CallsAreFollowed DeltasAddUp ReplyWasStreamed ClientAgreesWithFile AnswerIsFinal
CHECK_DEADLOCK FALSE
