CONSTANTS
  Vols <- MediaVols
  Data = "data"
  SdExt = "sdext"
  Fstab <- MediaFstab
  DiskInit <- MediaDiskInit
  SdExtPresent = TRUE
  Encrypted = FALSE
  UseF2fs = TRUE
  MountHelpers = {"exfat"}
  Primary = "sdcard"
  Steps <- MediaSteps
  Dirs <- MediaDirsShards
  ProbeOrder <- MCProbeOrder
  PreferTar = FALSE
  MaxLines = 2
  ToolFail = 256
SPECIFICATION Spec
CHECK_DEADLOCK FALSE
INVARIANT RestoreResultTruthful
