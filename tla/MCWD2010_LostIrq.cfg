SPECIFICATION FairSpec
CONSTANTS
  Drives = {0}
  SecWords = 1
  Tracks = 1
  Heads = 1
  Spt = 2
  Words <- MCWords
  MemoryWords <- MCMemoryWords
  TaskValues <- OneTrack
  Commands <- SeekOnly
  MaxCommands = 2
  Blank <- BlankDrives
  DmaMayStop = FALSE
  GuestPolls = TRUE
  GuestResets = FALSE
  GuestCountsZero = FALSE
INVARIANTS SeekThrowsIrq
