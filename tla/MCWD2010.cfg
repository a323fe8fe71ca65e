SPECIFICATION FairSpec
CONSTANTS
  Drives = {0, 1}
  SecWords = 2
  Tracks = 2
  Heads = 2
  Spt = 2
  Words <- MCWords
  MemoryWords <- MCMemoryWords
  TaskValues <- AllRegisters
  Commands <- Polite
  MaxCommands = 2
  Blank <- BlankDrives
  DmaMayStop = TRUE
  GuestPolls = FALSE
  GuestResets = FALSE
  GuestCountsZero = FALSE
INVARIANTS IrqMeansDone TaskFileFollows
PROPERTIES ImplementsBlockDevice EveryCommandAnswered
