CONSTANTS
  Images <- SomeImages
  Machines <- SomeMachines
  Strings <- Lines
  Typed <- Keyboard
  LineSize = 4
  MaxCalls = 1
  RAM_END = 16
  HighBase = 4
  LowBase = 1
  Extra = 1
  MB = 4
  VMLINUX_SIZE = 16
  RecBlocks = 1
  Guess = 128
  Page = 2
  Header = 2
SPECIFICATION Spec
INVARIANTS
  HandsOverWhole
  RunsOnIntact
  LineOfImage
  GivesUpForReason
CHECK_DEADLOCK FALSE
