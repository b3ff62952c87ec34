SPECIFICATION FairSpec
CONSTANTS
  w1 = w1
  w2 = w2
  Slots = {w1, w2}
  MaxStarts = 6
  MaxSessions = 2
  MaxCloses = 1
  MaxFaults = 1
INVARIANTS
  OwnerIsAtWork
  SessionInUseIsOpen
  GoneIsQuiet
  IdleIsUsable
PROPERTIES
  ThreadsEnd
CHECK_DEADLOCK FALSE
