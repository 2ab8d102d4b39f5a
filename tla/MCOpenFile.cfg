CONSTANTS
  Disks <- SomeDisks
  PerBlock = 3
  FirstVol = 16
  LastVol = 18
  RdbMax = 3
  NoBlock <- Nowhere
  ConfigNames <- TwoNames
  Names = {"image", "nofile"}
  Parts <- SomeParts
  AnyPart <- Every
  Devices = {"block", "net", "other"}
  MaxLoads = 2
SPECIFICATION Spec
INVARIANTS
  ListedRight
  NothingLeftOpen
  FindsFile
PROPERTY
  OpenReturns
CHECK_DEADLOCK FALSE
