CONSTANTS
  MemSize = 14
  ClaimMax = 12
  FirmwareMaps <- Maps
  LoaderSteps <- Loader
  HeapSize = 1
  NetSize = 3
  Room = 1
  ChunkSize = 1
  Slack = 1
  RamdiskBase32 = 4
  Cpus <- Bits
  Kernels <- DiskKernels
  Ramdisks <- DiskRamdisks
  NoRamdisk = NoRamdisk
  MaxTries = 2
SPECIFICATION FairSpec
INVARIANTS
  KernelMemoryHeld
  RamdiskClear
  WholeRamdisk
  RetryFindsMemory
PROPERTIES
  AttemptEnds
