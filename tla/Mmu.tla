-------------------------------- MODULE Mmu --------------------------------
(***************************************************************************)
(* The memory management unit of memory.c: the page map, the access check  *)
(* in front of every CPU cycle (the m68k_read and m68k_write functions)    *)
(* and every DMA cycle (access_check_dma), the status registers a refused  *)
(* cycle latches (GSR, BSR0, BSR1), the Clear Status Register, and the     *)
(* latched non-maskable interrupt of a refused DMA cycle.                  *)
(*                                                                         *)
(* A CPU access is a pair of pages <<a, b>>: a is the page of its first    *)
(* word, b the page of its second, a + 1 for a 32-bit access whose second  *)
(* word lies in the next page and a for every other access.                *)
(*                                                                         *)
(* The ghost variable hist records, for each page, the status the guest    *)
(* last installed and the strongest access completed since; userUse the    *)
(* user-mode accesses completed since.  No action reads either.            *)
(***************************************************************************)
EXTENDS PageMap

CONSTANTS MapPage,        \* the page of the map RAM, 0x400000
          RomPage,        \* where every access lands until ROMLMAP is set
          InstallStatus   \* the status values the guest installs in an entry

ASSUME MmuAssumption ==
  /\ MapPage \in RamPages..TopPage /\ RomPage \in RamPages..TopPage
  /\ MapPage # RomPage /\ MapPage \notin VidPages /\ RomPage \notin VidPages
  /\ InstallStatus \subseteq PageStatus

VARIABLES map,        \* state.map
          romlmap,    \* state.romlmap
          ee,         \* state.ee, error enable
          genstat,    \* state.genstat, the bits a fault or CSR changes
          bsr,        \* state.bsr0 and state.bsr1
          nmi_latch,  \* state.nmi_latch
          trap,       \* what this step raised in the CPU core
          aborted,    \* assert(addr < 0x400000) of mapAddr has failed
          hist,       \* ghost: installed status and strongest access since
          userUse,    \* ghost: user-mode reads and writes since the install
          nmis        \* ghost: NMIs raised since CSR was last accessed

registers == <<romlmap, ee>>
latches == <<genstat, bsr, nmi_latch, nmis>>
ghosts == <<hist, userUse>>
vars == <<map, registers, latches, trap, aborted, ghosts>>

GenStat == [pf_n : BOOLEAN, uie_n : BOOLEAN, rd : BOOLEAN, dma : BOOLEAN]
Bsr == [mmu_n : BOOLEAN, cpu : BOOLEAN, page : AddressPages]
Hist == [inst : PageStatus, used : {Absent, Accessed, Dirty}]

TypeOK ==
  /\ map \in Maps
  /\ romlmap \in BOOLEAN /\ ee \in BOOLEAN
  /\ genstat \in GenStat
  /\ bsr \in Bsr
  /\ nmi_latch \in BOOLEAN
  /\ trap \in {"none", "bus_error", "nmi"}
  /\ aborted \in BOOLEAN
  /\ hist \in [RamZone -> Hist]
  /\ userUse \in [read : SUBSET RamZone, written : SUBSET RamZone]
  /\ nmis \in Nat

\* state_init; the map RAM and the other static state start as zero.
Init ==
  /\ map = [p \in RamZone |-> [st |-> Absent, we |-> FALSE]]
  /\ romlmap = FALSE /\ ee = FALSE
  /\ genstat = [pf_n |-> FALSE, uie_n |-> FALSE, rd |-> FALSE, dma |-> FALSE]
  /\ bsr = [mmu_n |-> FALSE, cpu |-> FALSE, page |-> 0]
  /\ nmi_latch = FALSE
  /\ trap = "none"
  /\ aborted = FALSE
  /\ hist = [p \in RamZone |-> [inst |-> Absent, used |-> Absent]]
  /\ userUse = [read |-> {}, written |-> {}]
  /\ nmis = 0

-----------------------------------------------------------------------------
Verdict(p, writing, sup) == CheckMemoryAccess(map, p, writing, sup)

\* ACCESS_CHECK_RD and ACCESS_CHECK_WR: both words before either is committed.
Permitted(a, b, writing, sup) ==
  /\ Verdict(a, writing, sup) = "MEM_ALLOWED"
  /\ Verdict(b, writing, sup) = "MEM_ALLOWED"

\* Mutant of FaultPage: faultAddr stays the address of the first word.
FaultPageFirstWord(a, b, writing, sup) == a

FaultPage(a, b, writing, sup) ==
  IF Verdict(a, writing, sup) # "MEM_ALLOWED" THEN a ELSE b

\* The value the check writes to genstat: 01FF, 10FF or 11FF, with 4000 for a
\* read and 2000 for the DMA engine.  Its bits 8400 mirror PIE at all times and
\* are left out, and PIE with them.
FaultStatus(kind, reading, dma) ==
  [pf_n |-> kind # "MEM_PAGEFAULT", uie_n |-> kind # "MEM_UIE",
   rd |-> reading, dma |-> dma]

\* What a completed access to page p does to the ghosts.
Used(h, p, writing) ==
  [h EXCEPT ![p].used = IF writing \/ @ = Dirty THEN Dirty ELSE Accessed]

UserUsed(u, ps, writing) ==
  [u EXCEPT !.read = IF writing THEN @ ELSE @ \cup ps,
            !.written = IF writing THEN @ \cup ps ELSE @]

\* The words an access may touch: the address is ORed with 0x800000 until
\* ROMLMAP is set, and only a 32-bit access has its second word elsewhere.
IsAccess(a, b) ==
  /\ IF romlmap THEN a \in AddressPages ELSE a = RomPage
  /\ b \in AddressPages /\ (b = a \/ (b = a + 1 /\ a # RomPage))

\* Mutant of CpuRefused: the first word is committed before the second faults.
CpuRefusedHalfDone(a, b, writing, sup) ==
  LET p == FaultPage(a, b, writing, sup)
      kind == Verdict(p, writing, sup)
  IN /\ IsAccess(a, b)
     /\ ~Permitted(a, b, writing, sup)
     /\ genstat' = FaultStatus(kind, ~writing, FALSE)
     /\ bsr' = [mmu_n |-> kind = "MEM_UIE", cpu |-> TRUE, page |-> p]
     /\ trap' = IF ee THEN "bus_error" ELSE "none"
     /\ IF p # a /\ a \in RamZone
        THEN map' = MapAddr(map, a, writing) /\ hist' = Used(hist, a, writing)
        ELSE UNCHANGED <<map, hist>>
     /\ UNCHANGED <<registers, nmi_latch, nmis, aborted, userUse>>

CpuRefused(a, b, writing, sup) ==
  LET p == FaultPage(a, b, writing, sup)
      kind == Verdict(p, writing, sup)
  IN /\ IsAccess(a, b)
     /\ ~Permitted(a, b, writing, sup)
     /\ genstat' = FaultStatus(kind, ~writing, FALSE)
     /\ bsr' = [mmu_n |-> kind = "MEM_UIE", cpu |-> TRUE, page |-> p]
     /\ trap' = IF ee THEN "bus_error" ELSE "none"
     /\ UNCHANGED <<map, registers, nmi_latch, nmis, aborted, ghosts>>

CpuMapped(a, b, writing, sup) ==
  /\ IsAccess(a, b) /\ a \in RamZone /\ b \in RamZone
  /\ Permitted(a, b, writing, sup)
  /\ map' = MapPair(map, a, b, writing)
  /\ hist' = Used(Used(hist, a, writing), b, writing)
  /\ userUse' = IF sup THEN userUse ELSE UserUsed(userUse, {a, b}, writing)
  /\ trap' = "none"
  /\ UNCHANGED <<registers, latches, aborted>>

\* The last word of the RAM zone and the first of the map RAM: the access
\* takes the RAM branch on its first word, and mapAddr asserts on the second.
CpuOffTheEnd(a, b, writing, sup) ==
  /\ IsAccess(a, b) /\ a \in RamZone /\ b \notin RamZone
  /\ Permitted(a, b, writing, sup)
  /\ map' = MapAddr(map, a, writing)
  /\ hist' = Used(hist, a, writing)
  /\ userUse' = IF sup THEN userUse ELSE UserUsed(userUse, {a}, writing)
  /\ aborted' = TRUE
  /\ trap' = "none"
  /\ UNCHANGED <<registers, latches>>

\* ROM, video RAM and the I/O registers, which no status bit follows.
CpuElsewhere(a, b, writing, sup) ==
  /\ IsAccess(a, b) /\ a \notin RamZone /\ (a = MapPage => ~writing)
  /\ Permitted(a, b, writing, sup)
  /\ trap' = "none"
  /\ UNCHANGED <<map, registers, latches, aborted, ghosts>>

-----------------------------------------------------------------------------
\* A word or byte write to the map RAM installs one entry, a 32-bit write two;
\* beyond the last entry the map RAM is mirrored.
Installed(ps, e) ==
  /\ map' = [p \in RamZone |-> IF p \in ps THEN e[p] ELSE map[p]]
  /\ hist' = [p \in RamZone |-> IF p \in ps
                                THEN [inst |-> e[p].st, used |-> Absent]
                                ELSE hist[p]]
  /\ userUse' = [read |-> userUse.read \ ps, written |-> userUse.written \ ps]

WriteMapRam(p, wide) ==
  /\ romlmap
  /\ Verdict(MapPage, TRUE, TRUE) = "MEM_ALLOWED"
  /\ LET ps == IF wide THEN {p, (p + 1) % RamPages} ELSE {p}
     IN \E e \in [ps -> [st : InstallStatus, we : BOOLEAN]] : Installed(ps, e)
  /\ trap' = "none"
  /\ UNCHANGED <<registers, latches, aborted>>

\* CSR, read or written: clears the MMU error in BSR0, the page fault and the
\* UIE bits of GSR, and releases the latched NMI.
ClearStatus ==
  /\ romlmap
  /\ bsr' = [bsr EXCEPT !.mmu_n = TRUE]
  /\ genstat' = [genstat EXCEPT !.pf_n = TRUE, !.uie_n = TRUE]
  /\ nmi_latch' = FALSE
  /\ nmis' = 0
  /\ trap' = "none"
  /\ UNCHANGED <<map, registers, aborted, ghosts>>

WriteEE(b) ==
  /\ ee' = b
  /\ trap' = "none"
  /\ UNCHANGED <<map, romlmap, latches, aborted, ghosts>>

WriteROMLMAP(b) ==
  /\ romlmap' = b
  /\ trap' = "none"
  /\ UNCHANGED <<map, ee, latches, aborted, ghosts>>

-----------------------------------------------------------------------------
\* One word of the DMA engine: access_check_dma, then mapAddr.  The DMA
\* address register counts up to and including 0x400000.

\* Mutant of DmaRefused: the NMI is raised on every retry.
DmaRefusedRearms(p, reading) ==
  /\ Verdict(p, ~reading, TRUE) # "MEM_ALLOWED"
  /\ genstat' = FaultStatus(Verdict(p, ~reading, TRUE), reading, TRUE)
  /\ bsr' = [mmu_n |-> FALSE, cpu |-> FALSE, page |-> p]
  /\ trap' = IF ee THEN "nmi" ELSE "none"
  /\ nmi_latch' = (nmi_latch \/ ee)
  /\ nmis' = IF ee THEN nmis + 1 ELSE nmis
  /\ UNCHANGED <<map, registers, aborted, ghosts>>

DmaRefused(p, reading) ==
  /\ Verdict(p, ~reading, TRUE) # "MEM_ALLOWED"
  /\ genstat' = FaultStatus(Verdict(p, ~reading, TRUE), reading, TRUE)
  /\ bsr' = [mmu_n |-> FALSE, cpu |-> FALSE, page |-> p]
  /\ LET raise == ee /\ ~nmi_latch
     IN /\ trap' = IF raise THEN "nmi" ELSE "none"
        /\ nmi_latch' = (nmi_latch \/ raise)
        /\ nmis' = IF raise THEN nmis + 1 ELSE nmis
  /\ UNCHANGED <<map, registers, aborted, ghosts>>

DmaMapped(p, reading) ==
  /\ Verdict(p, ~reading, TRUE) = "MEM_ALLOWED"
  /\ IF p \in RamZone
     THEN /\ map' = MapAddr(map, p, ~reading)
          /\ hist' = Used(hist, p, ~reading)
          /\ UNCHANGED aborted
     ELSE /\ aborted' = TRUE
          /\ UNCHANGED <<map, hist>>
  /\ trap' = "none"
  /\ UNCHANGED <<registers, latches, userUse>>

-----------------------------------------------------------------------------
CpuAccess ==
  \E a \in AddressPages, writing, sup \in BOOLEAN : \E b \in {a, a + 1} :
    \/ CpuRefused(a, b, writing, sup)
    \/ CpuMapped(a, b, writing, sup)
    \/ CpuOffTheEnd(a, b, writing, sup)
    \/ CpuElsewhere(a, b, writing, sup)

RegisterAccess ==
  \/ \E p \in RamZone, wide \in BOOLEAN : WriteMapRam(p, wide)
  \/ ClearStatus
  \/ \E b \in BOOLEAN : WriteEE(b) \/ WriteROMLMAP(b)

DmaAccess ==
  \E p \in 0..RamPages, reading \in BOOLEAN :
    DmaRefused(p, reading) \/ DmaMapped(p, reading)

Next == ~aborted /\ (CpuAccess \/ RegisterAccess \/ DmaAccess)

Spec == Init /\ [][Next]_vars

-----------------------------------------------------------------------------
(* What the unit promises. *)

\* The page status bits are exact: a page's status is the stronger of the one
\* the guest installed and the strongest access completed since (mapAddr), and
\* no access completes in a page that is not present.  The kernel's pager
\* decides from these bits what to write back and what to evict.
StatusExact ==
  \A p \in RamZone :
    /\ map[p].st = IF hist[p].used > hist[p].inst THEN hist[p].used
                                                  ELSE hist[p].inst
    /\ hist[p].inst = Absent => hist[p].used = Absent

\* User code never completes an access in the kernel's part of the RAM zone,
\* nor a write in a page whose entry has no write enable, with either word of
\* an access (checkMemoryAccess under ACCESS_CHECK_RD and ACCESS_CHECK_WR).
UserConfined ==
  /\ \A p \in userUse.read : p >= KernelPages
  /\ \A p \in userUse.written : p >= KernelPages /\ map[p].we

\* However often the DMA engine retries a refused cycle, it raises one NMI
\* until the guest accesses CSR, and the latch says whether it has
\* (access_check_dma, the "asserted exactly once per fault" comment).
NmiOncePerClear == nmis <= 1 /\ (nmi_latch <=> nmis = 1)

\* An access that raises a bus error or an NMI is undone whole: no page status
\* bit moves, not even that of the first page of an access whose second word
\* is refused.
RefusedHasNoEffect ==
  [][trap' # "none" => UNCHANGED <<map, ghosts>>]_vars

\* GSR and BSR tell the handler the truth, also about an access of two words:
\* the page BSR names is not present when GSR says page fault, and otherwise is
\* one the map refuses to user code in the direction GSR gives (the faultAddr of
\* ACCESS_CHECK_RD and ACCESS_CHECK_WR, and access_check_dma).
LatchedPageRefuses ==
  [][trap' # "none" =>
       IF ~genstat'.pf_n
       THEN bsr'.page \in RamZone /\ map[bsr'.page].st = Absent
       ELSE CheckMemoryAccess(map, bsr'.page, ~genstat'.rd, FALSE) \in Faults]_vars
=============================================================================
