SPECIFICATION FairSpec
CONSTANTS
  Conns = {c1, c2, c3}
  None = None
  Loops = {l1, l2}
  Upgraders = {u1}
  EventLoops = {e1, e2}
  MaxConn = 1
  IdsRunOut = TRUE
  Stopper = Stopper
INVARIANTS
  MaxConnOvershoot
  OpenIsKnown
  UnlistedIsClosed
PROPERTY ClearEnds
CHECK_DEADLOCK FALSE
