SPECIFICATION Spec
CONSTANTS
  DEFAULT_CREDIT = 2
  U32_MAX = 15
  MaxConnWindow = 4
  MaxNumStreams = 2
  MAX_ID = 3
  NumIds = 1
  MAX_ACK_BACKLOG = 1
  ChanCap = 1
  SockCap = 2
  SplitSendSize = 1
  ReadAfterClose = FALSE
  Endpoints <- BothPeers
  MaxPings <- NoPings
  MaxBytes <- Bytes20
  MaxCloses = 1
  MaxOpen <- ClientOpensOne
  SocketFaults = TRUE
  MayClose <- BothPeers
  ForeignFrames = {}
  MaxForeign = 0
  MayDrop <- BothPeers
INVARIANTS
  BytesIntact
PROPERTIES
  CleanupWakesAll
CHECK_DEADLOCK FALSE
