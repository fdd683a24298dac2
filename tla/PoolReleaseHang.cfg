SPECIFICATION FairSpec
CONSTANTS
  Submitters = {s1, s2}
  Workers = {w1, w2}
  InitCap = 1
  MaxCap = 1
  TuneSizes = {}
  MaxCalls = 2
  Releasable = TRUE
  Stoppable = FALSE
  Nil = Nil
  None = None
PROPERTIES
  ReleaseWakesWaiters
CHECK_DEADLOCK FALSE
