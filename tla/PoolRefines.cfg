SPECIFICATION FairSpec
CONSTANTS
  Submitters = {s1, s2}
  Workers = {w1, w2, w3}
  InitCap = 2
  MaxCap = 2
  TuneSizes = {1}
  MaxCalls = 1
  Releasable = TRUE
  Stoppable = FALSE
  Nil = Nil
  None = None
PROPERTIES
  ImplementsFair
  ReleaseDrains
  InvokeReturns
  OvershootHeals
CHECK_DEADLOCK FALSE
