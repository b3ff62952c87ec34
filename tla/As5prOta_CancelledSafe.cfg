SPECIFICATION Spec
CONSTANTS
  DriverBlocks = 1
  AppBlocks = 2
  SeqMod = 2
  MaxRuns = 1
  MaxFaults = 0
  MaxBus = 2
  MaxRx = 2
  Targets = {"AS5PR"}
INVARIANT
  CancelledSafeLeavesApp
CHECK_DEADLOCK FALSE
