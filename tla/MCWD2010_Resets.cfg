SPECIFICATION Spec
CONSTANTS
  Drives = {0}
  SecWords = 1
  Tracks = 1
  Heads = 1
  Spt = 2
  Words <- MCWords
  MemoryWords <- MCMemoryWords
  TaskValues <- OneTrack
  Commands <- Polite
  MaxCommands = 3
  Blank <- BlankDrives
  DmaMayStop = TRUE
  GuestPolls = TRUE
  GuestResets = TRUE
  GuestCountsZero = TRUE
INVARIANTS IdleMeansNoDrq
PROPERTIES ImplementsBlockDevice
