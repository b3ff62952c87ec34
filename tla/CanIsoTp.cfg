SPECIFICATION FairSpec
CONSTANTS
  Cfs = {0, 2}
  BlockSizes = {0, 1}
  SeqMod = 2
  Attempts = 2
  MaxWaits = 1
  IgnoreInvalid = TRUE
  KeepsBatch = TRUE
  MaxCalls = 2
  MaxFaults = 1
  MaxRx = 1
INVARIANTS
  AnswersWhole
  UndisturbedCallReturns
  NeverWaitsInVain
  GrantsRespected
PROPERTIES
  KeepsChannel
  CallEnds
CHECK_DEADLOCK FALSE
