CONSTANTS
  Vols <- MCVols
  Data = "data"
  SdExt = "sdext"
  System = "system"
  Cache = "cache"
  Primary = "sdcard"
  Fstab <- MCFstab
  DiskInit <- MCDiskInit
  SdExtPresent = FALSE
  Encrypted = FALSE
  UseF2fs = TRUE
  MountHelpers = {}
  Procs <- MCProcs
  MaxOps = 3
  MaxCrashes = 1
SPECIFICATION Spec
CHECK_DEADLOCK FALSE
PROPERTY WipeDataReachesData
