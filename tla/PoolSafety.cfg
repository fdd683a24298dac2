SPECIFICATION Spec
CONSTANTS
  Submitters = {s1, s2}
  Workers = {w1, w2, w3}
  InitCap = 1
  MaxCap = 2
  TuneSizes = {1, 2}
  MaxCalls = 2
  Releasable = TRUE
  Stoppable = TRUE
  Nil = Nil
  None = None
SYMMETRY Symmetry
INVARIANTS
  TypeOK
  OneOwner
  NotStranded
  CountersExact
  BoundedOvershoot
  IdleNotWasted
  NoIdleAfterReset
CHECK_DEADLOCK FALSE
