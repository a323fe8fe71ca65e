---------------------------- MODULE MCInterrupts ----------------------------
(* One key, whose presses and releases make a list each.                    *)
EXTENDS Interrupts

OneKey == <<[key |-> "up", extended |-> FALSE, scancode |-> 1]>>
=============================================================================
