----------------------------- MODULE MCDiskDma -----------------------------
(* The DMA engine with two pages of two words.                              *)
EXTENDS DiskDma

\* The hard disc alone, then the floppy drive beside it.
MCSelections == {{"HD0"}, {"FD", "HD0"}}
=============================================================================
