CONSTANTS
  Configs <- SomeConfigs
  Labels <- TwoLabels
  Custom = "custom"
  Args <- OneArg
  ZeroPages <- Blanks
  Macs = {TRUE, FALSE}
  Lines <- SomeLines
  HeapMayFail = TRUE
  MaxStarts = 3
SPECIFICATION FairSpec
INVARIANTS
  NoUnauthorisedBoot
  OnceUsedOnce
PROPERTIES
  
  UnattendedBoot
CHECK_DEADLOCK FALSE
