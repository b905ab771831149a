SPECIFICATION Spec
CONSTANTS
  DEFAULT_CREDIT = 2
  U32_MAX = 15
  MaxConnWindow = 4
  MaxNumStreams = 2
  MAX_ID = 3
  NumIds = 1
  MAX_ACK_BACKLOG = 1
  ChanCap = 1
  SockCap = 2
  SplitSendSize = 2
  ReadAfterClose = TRUE
  Endpoints <- BothPeers
  MaxPings <- NoPings
  MaxBytes <- Bytes11
  MaxCloses = 1
  MaxOpen <- ClientOpensOne
  SocketFaults = FALSE
  MayClose <- BothPeers
  ForeignFrames = {}
  MaxForeign = 0
  MayDrop <- BothPeers
INVARIANTS
  BufferedDataReadable
CHECK_DEADLOCK FALSE
