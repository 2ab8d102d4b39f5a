CONSTANTS
  Machines <- SomeMachines
  NoPath <- Lost
  MaxRuns = 2
  Others <- SomeOthers
  MaxInstalls = 2
SPECIFICATION Spec
INVARIANTS
  CloneSurvives
  SuccessInstalls
  OffersWhatIsAsked
PROPERTIES
  BootDeviceLast
CHECK_DEADLOCK FALSE
