SPECIFICATION Spec
CONSTANTS
  RamPages = 2
  KernelPages = 1
  TopPage = 2
  VidPages = {}
  BankFrames = 1
  PageBytes = 2
  Bytes <- MCBytes
  EmptyByte = 255
  RamSizes <- MCSizes
  Entries <- MCEntries
INVARIANTS HoldsLastWritten
PROPERTIES ChangedPageIsDirty
