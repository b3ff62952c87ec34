SPECIFICATION Spec
CONSTANTS
  Cfs = {0, 2}
  BlockSizes = {0, 1}
  SeqMod = 2
  Attempts = 2
  MaxWaits = 1
  IgnoreInvalid = TRUE
  KeepsBatch = FALSE
  MaxCalls = 2
  MaxFaults = 0
  MaxRx = 1
INVARIANT
  NeverWaitsInVain
CHECK_DEADLOCK FALSE
