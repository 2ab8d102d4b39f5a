CONSTANTS
  BlockSize = 2
  MaxRange = 2
  Direct = 2
  Group = 2
  Files <- Layouts
  Positions <- SomePositions
  Sizes <- SomeSizes
  Failures = TRUE
  ShortReads = FALSE
  MaxCalls = 3
SPECIFICATION Spec
INVARIANTS
  ReadsRight
  WholeRead
  InBuffer
CHECK_DEADLOCK FALSE
