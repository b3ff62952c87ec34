SPECIFICATION Spec
CONSTANTS
  w1 = w1
  w2 = w2
  Slots = {w1, w2}
  MaxStarts = 6
  MaxSessions = 2
  MaxCloses = 1
  MaxFaults = 0
INVARIANT
  OneRequestPerChannel
CHECK_DEADLOCK FALSE
