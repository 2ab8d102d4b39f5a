CONSTANTS
  Disks <- SomeDisks
  Paths <- SomePaths
  Positions <- SomePositions
  Sizes <- SomeSizes
  Failures = 2
  MaxCalls = 3
  Slots = 2
  Half = 2
  Patience = 17
  Tables = {"marker"}
SPECIFICATION Spec
INVARIANTS
  FindsRight
  ReadsRight
  CacheTrue
CHECK_DEADLOCK FALSE
