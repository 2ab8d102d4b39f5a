CONSTANTS
  Bottom = 8
  ArenaSize = 26
  Sizes = {0, 3, 5, 8}
  MaxMarks = 2
SPECIFICATION Spec
INVARIANTS
  HeapSafe
PROPERTIES
  KeepsContract
