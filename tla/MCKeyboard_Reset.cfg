SPECIFICATION Spec
CONSTANTS
  BufferSize = 6
  Keymap <- TwoKeys
  Moves <- TwoMoves
  MaxEvents = 4
  GuestReadsEmpty = FALSE
  GuestResetsMouse = TRUE
INVARIANTS BegkbdAfterMouse
