SPECIFICATION FairSpec
CONSTANTS
  Buffer = 1
  MaxCommands = 5
INVARIANTS
  SleeperHasWaker
  QueueBounded
  ClosingTakesAccepted
PROPERTIES
  HalvesFinish
CHECK_DEADLOCK FALSE
