CONSTANTS
  Steps <- MCSteps
  MaxLines = 2
  MaxPresses = 3
  QueueMax = 2
  DefaultFormat = "tar"
  ForcedFormat = FALSE
  PreferTar = FALSE
  DataMedia = TRUE
  ToolFail = 256
  WindowMayExpireFirst = FALSE
SPECIFICATION Spec
INVARIANT TypeOK
INVARIANT BackupResultTruthful
INVARIANT CancelNeedsConfirmation
PROPERTY JobTerminates
PROPERTY JobRefinement
CHECK_DEADLOCK FALSE
