SPECIFICATION Spec
CONSTANTS
  Drives = {0, 1, 2}
  Protected = {2}
  SecWords = 2
  Words <- MCWords
  Tracks = 2
  Heads = 2
  Spt = 2
  MemoryWords <- MCMemoryWords
  Commands <- AllCommands
  MaxCommands = 2
  Blank <- Discs
  GuestLeavesFormats = TRUE
INVARIANTS FormattingIsFormat
