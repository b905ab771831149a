SPECIFICATION Spec
CONSTANTS
  Buffer = 1
  MaxCommands = 2
INVARIANTS
  NoMoreFrames
CHECK_DEADLOCK FALSE
