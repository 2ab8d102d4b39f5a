SPECIFICATION Spec
CONSTANTS
  MaxDepth = 6
  Boots <- MCBoots
  MemTop = 352
  HeapBase = 70
  HeapSize = 280
  Grain = 8
  MaxAllocs = 6
  MaxFind = 4
  Chosen = 20
  Memory = 30
  NodeNames = {53}
  AddressCells = 101
  SizeCells = 102
  Reg = 103
  DeviceType = 104
  BootArgs = 105
  InitrdStart = 106
  InitrdEnd = 107
  PropNames = {104, 107}
  RmSize = 99
  Garbage = 98
  MemoryType = 88
  Values <- MCValues
  Searches <- MCSearches
  LateParents = FALSE
  MaxCalls = 3
INVARIANTS KernelSeesTree BlockHeld KernelToldAll
PROPERTY KeepsPromise
CHECK_DEADLOCK FALSE
