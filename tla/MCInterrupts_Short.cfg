SPECIFICATION Spec
CONSTANTS
  BufferSize = 6
  Keymap <- OneKey
  Moves = {}
  MaxEvents = 2
  GuestReadsEmpty = FALSE
  GuestResetsMouse = FALSE
  MaxRaises = 1
  MaxTicks = 3
  LongHandlers = FALSE
PROPERTIES OneClockPerTick
