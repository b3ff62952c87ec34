SPECIFICATION FairSpec
CONSTANTS
  Window = "window"
  Other = "other"
  Downloaders = {"window", "other"}
  Size = 1
  MaxTasks = 2
  MaxChecks = 2
  MaxOthers = 1
INVARIANTS
  WindowOutlivesItsWork
  NothingAfterHandOver
  LaunchedIsVerified
  InstallerSparesTools
PROPERTIES
  NoSilentEnd
  ThreadEnds
CHECK_DEADLOCK FALSE
