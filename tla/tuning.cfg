SPECIFICATION Spec
CONSTANTS
  DEFAULT_CREDIT = 2
  U32_MAX = 15
  MaxConnWindow = 5
  MaxNumStreams = 1
  MAX_ID = 3
  NumIds = 1
  MAX_ACK_BACKLOG = 1
  ChanCap = 1
  SockCap = 1
  SplitSendSize = 2
  ReadAfterClose = TRUE
  Endpoints <- BothPeers
  MaxPings <- BothPing
  MaxBytes <- Bytes40
  MaxCloses = 0
  MaxOpen <- ClientOpensTwo
  SocketFaults = FALSE
  MayClose = {}
  ForeignFrames = {}
  MaxForeign = 0
  MayDrop <- BothPeers
INVARIANTS
  NoProtocolError
PROPERTIES
  StreamsAreCreditLoops
CHECK_DEADLOCK FALSE
