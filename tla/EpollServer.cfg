SPECIFICATION FairSpec
CONSTANTS
  Conns = {c1, c2}
  None = None
  Callers = {app}
  Stopper = stopper
  MaxConn = 2
  HeadPieces = 2
  BodyPieces = 1
  MaxFrames = 1
  WorkerPoolSize = 1
INVARIANTS
  ListedNeverClosed
PROPERTIES
  ExitMeansNoneRemoved
  NilOnlyInGap
  
CHECK_DEADLOCK FALSE
