SPECIFICATION FairSpec
CONSTANTS
  Conns = {c1}
  None = None
  Kinds = {"ws", "quic"}
  Buffer = 1
  Workers = {w1}
  Apps = {}
CHECK_DEADLOCK FALSE
PROPERTIES
  WriterEnds
  WsStopGetsLock
  SendWaitsForWriter
  QuicReaped
