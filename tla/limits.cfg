SPECIFICATION Spec
CONSTANTS
  DEFAULT_CREDIT = 2
  U32_MAX = 15
  MaxConnWindow = 5
  MaxNumStreams = 2
  MAX_ID = 5
  NumIds = 3
  MAX_ACK_BACKLOG = 1
  ChanCap = 1
  SockCap = 1
  SplitSendSize = 2
  ReadAfterClose = TRUE
  Endpoints <- BothPeers
  MaxPings <- NoPings
  MaxBytes <- Bytes11
  MaxCloses = 0
  MaxOpen <- ClientTwoServerOne
  SocketFaults = FALSE
  MayClose = {}
  ForeignFrames = {}
  MaxForeign = 0
  MayDrop = {}
INVARIANTS
  StreamLimits
  ConnWindowBounded
  OpenerWaits
PROPERTIES
  StreamsShareBudget
CHECK_DEADLOCK FALSE
