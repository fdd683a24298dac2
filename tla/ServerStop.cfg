SPECIFICATION FairSpec
CONSTANTS
  Conns = {c1, c2}
  None = None
  Loops = {l1}
  Upgraders = {}
  EventLoops = {}
  MaxConn = 2
  IdsRunOut = FALSE
  Stopper = Stopper
PROPERTY StopReturns
CHECK_DEADLOCK FALSE
