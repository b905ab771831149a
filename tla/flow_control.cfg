SPECIFICATION FlowSpec
CONSTANTS
  DEFAULT_CREDIT = 2
  U32_MAX = 7
  MaxConnWindow = 9
  MaxNumStreams = 2
  NumSlots = 3
INVARIANTS
  LoopInv
  NeverBroken
  TotalIsSum
  NoUnderflow
  MemoryAccounted
