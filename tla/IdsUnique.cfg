SPECIFICATION Spec
CONSTANTS
  Nodes = {0, 1}
  NodeSpan = 2
  SeqSpan = 2
  TimestampMax = 3
  MaxClock = 4
  MayStepBack = FALSE
INVARIANTS
  Unique
  Ascending
CHECK_DEADLOCK FALSE
