------------------------------ MODULE PageMap ------------------------------
(***************************************************************************)
(* The page map of the 3B1 as memory.c keeps it: one entry per virtual     *)
(* page of the 4 MB RAM zone, holding two page status bits and a write     *)
(* enable bit, and the two functions every bus cycle goes through,         *)
(* checkMemoryAccess and mapAddr.  The module is pure: the CPU side (Mmu)  *)
(* and the DMA engine (DiskDma) both apply these operators.                *)
(*                                                                         *)
(* An address is abstracted to the number of its 4 KB page.  Pages below   *)
(* RamPages are the RAM zone (address < 0x400000), pages below KernelPages *)
(* the kernel's part of it (address < 0x080000).                           *)
(***************************************************************************)
EXTENDS Naturals

CONSTANTS RamPages,     \* number of pages below 0x400000 (1024 in the code)
          KernelPages,  \* number of pages below 0x080000 (128 in the code)
          TopPage,      \* the highest page number of the address space
          VidPages      \* the pages user code may reach above the RAM zone:
                        \* 0x420000..0x427FFF with the VIDPAL option, none without

ASSUME PageMapAssumption ==
  /\ RamPages \in Nat /\ KernelPages \in Nat /\ TopPage \in Nat
  /\ 0 < RamPages /\ KernelPages <= RamPages /\ RamPages <= TopPage
  /\ VidPages \subseteq RamPages..TopPage

RamZone == 0..(RamPages - 1)
AddressPages == 0..TopPage

\* The page status bits (map[page*2] >> 5) & 3.
Absent == 0     \* page not present
Present == 1    \* present, not accessed since it was installed
Accessed == 2   \* read from
Dirty == 3      \* written to
PageStatus == Absent..Dirty

Entry == [st : PageStatus, we : BOOLEAN]
Maps == [RamZone -> Entry]

\* MEM_STATUS, memory.h.
Faults == {"MEM_PAGEFAULT", "MEM_PAGE_NO_WE", "MEM_KERNEL", "MEM_UIE"}

\* Mutant of CheckMemoryAccess: the kernel's pages are left to write enable.
CheckMemoryAccessWeOnly(map, p, writing, any) ==
  CASE p < RamPages /\ map[p].st = Absent -> "MEM_PAGEFAULT"
    [] any /\ ~(p < RamPages /\ map[p].st = Absent) -> "MEM_ALLOWED"
    [] ~any /\ p >= RamPages -> IF p \in VidPages THEN "MEM_ALLOWED" ELSE "MEM_UIE"
    [] ~any /\ p < RamPages /\ map[p].st # Absent ->
         IF writing /\ ~map[p].we THEN "MEM_PAGE_NO_WE" ELSE "MEM_ALLOWED"

(***************************************************************************)
(* checkMemoryAccess: the verdict on one bus cycle in page p.  "any" says  *)
(* the master may do as it likes once the page is there: the CPU in        *)
(* supervisor mode, or the DMA engine.                                     *)
(***************************************************************************)
CheckMemoryAccess(map, p, writing, any) ==
  CASE p < RamPages /\ map[p].st = Absent                  -> "MEM_PAGEFAULT"
    [] any /\ ~(p < RamPages /\ map[p].st = Absent)        -> "MEM_ALLOWED"
    [] ~any /\ p >= RamPages                               ->
         IF p \in VidPages THEN "MEM_ALLOWED" ELSE "MEM_UIE"
    [] ~any /\ p < KernelPages /\ map[p].st # Absent       -> "MEM_KERNEL"
    [] ~any /\ p \in KernelPages..(RamPages - 1) /\ map[p].st # Absent ->
         IF writing /\ ~map[p].we THEN "MEM_PAGE_NO_WE" ELSE "MEM_ALLOWED"

\* Mutants of Touched: a first write after a read that leaves the page clean,
\* and the status field incremented in place of having its bits set.
TouchedForgetsWrite(st, writing) ==
  CASE st = Present /\ writing  -> Dirty
    [] st = Present /\ ~writing -> Accessed
    [] st # Present             -> st
TouchedIncrements(st, writing) ==
  IF st = Absent \/ (~writing /\ st # Present) THEN st ELSE st + 1

(***************************************************************************)
(* mapAddr: the page status bits after a cycle in page p.  A page that is  *)
(* not present is only logged.                                             *)
(***************************************************************************)
Touched(st, writing) ==
  CASE st = Absent              -> Absent
    [] st = Dirty               -> Dirty
    [] st = Present /\ ~writing -> Accessed
    [] st = Accessed /\ ~writing -> Accessed
    [] st \in {Present, Accessed} /\ writing -> Dirty

MapAddr(map, p, writing) ==
  [map EXCEPT ![p].st = Touched(@, writing)]

\* Both words of a 32-bit access: mapAddr(address), then mapAddr(address + 2).
MapPair(map, p, q, writing) == MapAddr(MapAddr(map, p, writing), q, writing)
=============================================================================
