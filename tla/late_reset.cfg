SPECIFICATION FairSpec
CONSTANTS
  DEFAULT_CREDIT = 2
  U32_MAX = 15
  MaxConnWindow = 4
  MaxNumStreams = 2
  MAX_ID = 3
  NumIds = 1
  MAX_ACK_BACKLOG = 1
  ChanCap = 1
  SockCap = 2
  SplitSendSize = 2
  ReadAfterClose = TRUE
  Endpoints <- BothPeers
  MaxPings <- NoPings
  MaxBytes <- Bytes31
  MaxCloses = 1
  MaxOpen <- ClientOpensOne
  SocketFaults = FALSE
  MayClose = {}
  ForeignFrames = {}
  MaxForeign = 0
  MayDrop <- OnlyServer
PROPERTIES
  DropUnblocksWriter
CHECK_DEADLOCK FALSE
