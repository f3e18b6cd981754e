CONSTANTS
  Vols <- ChainVols
  Data = "data"
  SdExt = "sdext"
  Fstab <- ChainFstab
  DiskInit <- ChainDiskInit
  SdExtPresent = TRUE
  Encrypted = FALSE
  UseF2fs = TRUE
  MountHelpers = {"exfat"}
  Primary = "sdcard"
  Steps <- SdExtSteps
  Dirs <- SdExtDirs
  ProbeOrder <- MCProbeOrder
  PreferTar = FALSE
  MaxLines = 2
  ToolFail = 256
SPECIFICATION Spec
CHECK_DEADLOCK FALSE
INVARIANT RestoreResultTruthful
