SPECIFICATION FairSpec
CONSTANTS
  Kinds = {"tcp", "epoll", "kcp", "quic", "ws"}
  Ids = {1, 2}
  Cells = {0, 1}
  MaxLen = 3
  MaxFrames = 2
  MaxPacketSize = 2
INVARIANTS
  InStep
  WsInStep
  QuicTakesNoData
  KcpKeepsUp
PROPERTY AllTaken
CHECK_DEADLOCK FALSE
