SPECIFICATION FairSpec
CONSTANTS
  BufferSize = 6
  Keymap <- OneKey
  Moves = {}
  MaxEvents = 2
  GuestReadsEmpty = FALSE
  GuestResetsMouse = FALSE
  MaxRaises = 1
  MaxTicks = 3
  LongHandlers = TRUE
PROPERTIES OneClockPerTick TickServed DevicesServed KeysReachGuest
