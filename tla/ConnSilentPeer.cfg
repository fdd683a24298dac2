SPECIFICATION FairSpec
CONSTANTS
  Conns = {c1}
  None = None
  Kinds = {"tcp"}
  Buffer = 1
  Workers = {w1}
  Apps = {}
PROPERTY SilentPeerStopped
CHECK_DEADLOCK FALSE
