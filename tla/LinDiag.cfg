SPECIFICATION Spec
CONSTANTS
    Cfs = {0, 3}
    SnModulus = 2
    MaxCalls = 3
    MaxFaults = 2
INVARIANTS UndisturbedCallReturns
PROPERTY KeepsChannel
CHECK_DEADLOCK FALSE
