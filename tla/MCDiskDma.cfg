SPECIFICATION FairSpec
CONSTANTS
  RamPages = 2
  KernelPages = 0
  TopPage = 2
  VidPages = {}
  PageWords = 2
  LowWords = 2
  CountFull = 4
  SliceMax = 1
  Selections <- MCSelections
  MaxCommands = 2
  MaxEvictions = 1
  DmaMayStop = TRUE
  GuestMiscounts = FALSE
INVARIANTS HandlerNotReentered
PROPERTIES ImplementsDmaChannel TransferEnds
