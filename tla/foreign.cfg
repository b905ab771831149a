SPECIFICATION Spec
CONSTANTS
  DEFAULT_CREDIT = 2
  U32_MAX = 15
  MaxConnWindow = 3
  MaxNumStreams = 1
  MAX_ID = 3
  NumIds = 3
  MAX_ACK_BACKLOG = 1
  ChanCap = 1
  SockCap = 1
  SplitSendSize = 2
  ReadAfterClose = TRUE
  Endpoints <- OnlyServer
  MaxPings <- NoPings
  MaxBytes <- Bytes20
  MaxCloses = 1
  MaxOpen <- NoneOpen
  SocketFaults = FALSE
  MayClose = {}
  ForeignFrames <- AnyFrames
  MaxForeign = 3
  MayDrop <- BothPeers
INVARIANTS
  TypeOK
  BufferBounded
  StreamLimits
  AccExact
CHECK_DEADLOCK FALSE
