SPECIFICATION Spec
CONSTANTS
  Submitters = {s1, s2}
  Workers = {w1, w2, w3}
  InitCap = 2
  MaxCap = 2
  TuneSizes = {1}
  MaxCalls = 1
  Releasable = TRUE
  Stoppable = TRUE
  Nil = Nil
  None = None
  MaxReboots = 1
SYMMETRY Symmetry
INVARIANTS
  TypeOK
  OwnersUnlessEarly
  RestSurvives
CHECK_DEADLOCK FALSE
