CONSTANTS
  Steps <- MCSteps
  MaxLines = 2
  MaxPresses = 3
  QueueMax = 2
  DefaultFormat = "tar"
  ForcedFormat = FALSE
  PreferTar = FALSE
  DataMedia = TRUE
  ToolFail = 256
  WindowMayExpireFirst = TRUE
SPECIFICATION Spec
INVARIANT CancelNeedsConfirmation
CHECK_DEADLOCK FALSE
