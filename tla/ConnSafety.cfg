SPECIFICATION Spec
CONSTANTS
  Conns = {c1}
  None = None
  Kinds = {"tcp", "ws", "quic", "gnet", "epoll"}
  Buffer = 1
  Workers = {w1}
  Apps = {a1}
INVARIANTS
  TypeOK
  HookOnce
  ClosedIsClean
  CancelLast
  OpenIsCounted
  WsReadsOpen
  NoBeatOnClosed
CHECK_DEADLOCK FALSE
