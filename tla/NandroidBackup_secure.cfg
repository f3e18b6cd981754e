CONSTANTS
  Steps <- MCSteps
  MaxLines = 2
  MaxPresses = 3
  QueueMax = 2
  DefaultFormat = "tar"
  ForcedFormat = FALSE
  PreferTar = FALSE
  DataMedia = TRUE
  ToolFail = 256
  WindowMayExpireFirst = FALSE
SPECIFICATION Spec
INVARIANT BackupSucceedsUnlessToolFails
CHECK_DEADLOCK FALSE
