SPECIFICATION Spec
CONSTANTS
  Drives = {0}
  SecWords = 1
  Tracks = 1
  Heads = 1
  Spt = 2
  Words <- MCWords
  MemoryWords <- MCMemoryWords
  TaskValues <- OneTrack
  Commands <- WithScanId
  MaxCommands = 3
  Blank <- BlankDrives
  DmaMayStop = FALSE
  GuestPolls = FALSE
  GuestResets = FALSE
  GuestCountsZero = FALSE
INVARIANTS SeekHasTimer
