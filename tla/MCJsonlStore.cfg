CONSTANTS
  Paths = {p1, p2}
  Writers = {w1, w2, w3}
  MaxAppends = 3
  MaxFaults = 2
SPECIFICATION Spec
INVARIANTS TypeOK CallOrder LossBound
PROPERTIES AppendReturns ImplementsEventLog
CHECK_DEADLOCK FALSE
