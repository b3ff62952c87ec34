SPECIFICATION Spec
CONSTANTS
  Window = "window"
  Other = "other"
  Downloaders = {"window", "other"}
  Size = 1
  MaxTasks = 0
  MaxChecks = 2
  MaxOthers = 1
PROPERTIES
  GoodInstallerKept
CHECK_DEADLOCK FALSE
