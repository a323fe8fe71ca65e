----------------------------- MODULE MCKeyboard -----------------------------
(* A keymap of two keys, one of them with an extended entry before its      *)
(* standard one as Escape has, and two mouse events: one whose last byte    *)
(* is 0xDF and is doubled.                                                  *)
EXTENDS Keyboard

Entry(k, extended, code) == [key |-> k, extended |-> extended, scancode |-> code]
TwoKeys == <<Entry("escape", TRUE, 4), Entry("escape", FALSE, 27), Entry("up", FALSE, 1)>>
TwoMoves == {[dx |-> 3, dy |-> -95, db |-> 0], [dx |-> -200, dy |-> 7, db |-> 4]}
=============================================================================
