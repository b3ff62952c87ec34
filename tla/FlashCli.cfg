SPECIFICATION FairSpec
CONSTANTS
    Programs = {"e68", "as5pr", "fake", "sim", "window", "release", "loopback", "probe", "scan", "usb release", "usb scan"}
    Channels = 2
    Devices = 2
    Blocks <- MCBlocks
    Modulus = 2
    MaxFaults = 2
    MaxRuns = 2
INVARIANTS SuccessMeansNewApp UndisturbedFlashSucceeds TakenIsGivenBack
PROPERTY ProgramEnds
CHECK_DEADLOCK FALSE
