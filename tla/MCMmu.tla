------------------------------- MODULE MCMmu -------------------------------
(* The MMU on a handful of pages: a kernel page, a user page, the map RAM,  *)
(* one page of video RAM and one standing for ROM and the I/O registers.    *)
EXTENDS Mmu

MCVidPages == {RamPages + 1}
AnyStatus == PageStatus
=============================================================================
