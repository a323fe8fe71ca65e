SPECIFICATION Spec
CONSTANTS
  RamPages = 2
  KernelPages = 1
  TopPage = 4
  MapPage = 2
  RomPage = 4
  VidPages <- MCVidPages
  InstallStatus <- AnyStatus
INVARIANTS TypeOK StatusExact UserConfined NmiOncePerClear
PROPERTIES RefusedHasNoEffect LatchedPageRefuses
CHECK_DEADLOCK FALSE
