SPECIFICATION FairSpec
CONSTANTS
  MAX_FRAME_BODY_LEN = 2
  PipeCap = 5
  Overcount = FALSE
  MaxFrames = 3
  SocketFaults = TRUE
  Frames <- SomeFrames
  ForeignHeaders <- MalformedHeaders
INVARIANTS
  FramesIntact
  CleanEndIsComplete
  BytesInOrder
  BufferLenExact
PROPERTIES
  FramesArrive
CHECK_DEADLOCK FALSE
