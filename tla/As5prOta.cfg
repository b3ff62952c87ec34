SPECIFICATION FairSpec
CONSTANTS
  DriverBlocks = 1
  AppBlocks = 2
  SeqMod = 2
  MaxRuns = 2
  MaxFaults = 2
  MaxBus = 2
  MaxRx = 2
  Targets = {"AS5PR", "Other"}
INVARIANTS
  TypeOK
  CommittedVerdicts
  IdentityBeforeProgramming
  OtherEcuIsOnlyProbed
  UndisturbedRunCompletes
PROPERTIES
  DamageIsDeclared
  CancelStopsRequests
  KeepsPromise
  RunEnds
CHECK_DEADLOCK FALSE
