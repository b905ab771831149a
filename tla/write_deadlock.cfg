SPECIFICATION Spec
CONSTANTS
  DEFAULT_CREDIT = 2
  U32_MAX = 15
  MaxConnWindow = 4
  MaxNumStreams = 2
  MAX_ID = 4
  NumIds = 2
  MAX_ACK_BACKLOG = 1
  ChanCap = 1
  SockCap = 2
  SplitSendSize = 2
  ReadAfterClose = TRUE
  Endpoints <- BothPeers
  MaxPings <- OnePingEach
  MaxBytes <- Bytes22
  MaxCloses = 0
  MaxOpen <- EachOpensOne
  SocketFaults = FALSE
  MayClose = {}
  ForeignFrames = {}
  MaxForeign = 0
  MayDrop = {}
INVARIANTS
  SomeoneReads
CHECK_DEADLOCK FALSE
