------------------------------ MODULE MCI8274 ------------------------------
(* The serial controller with a FIFO of two bytes.                          *)
EXTENDS I8274
=============================================================================
