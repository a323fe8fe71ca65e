------------------------------ MODULE DiskDma ------------------------------
(***************************************************************************)
(* The disc DMA engine of main.c, run once after each slice of the CPU,    *)
(* with the registers the guest programs it through (memory.c), the page   *)
(* map its cycles go through, the two controllers it serves, and the       *)
(* latched NMI by which a refused cycle reaches the kernel.                *)
(*                                                                         *)
(* Addresses count 16-bit words and memory is indexed by virtual address:  *)
(* what the pager does with frames does not change what a page holds.  A   *)
(* controller is the run of words its command asks for: the detail of one  *)
(* is in WD2010.  The engine's loop is one action per turn, so that the    *)
(* variable num of main.c is state.                                        *)
(***************************************************************************)
EXTENDS PageMap, Integers, Sequences

CONSTANTS PageWords,    \* words in a page (2048 in the code)
          LowWords,     \* words the low half of the address selects (256)
          CountFull,    \* where the word counter ends (0x4000)
          SliceMax,     \* 1e6/TIMESLOT_FREQUENCY/NUM_CPU_TIMESLOTS (20)
          Selections,   \* the sets of drives the guest selects together
          MaxCommands,  \* bound on the commands issued
          MaxEvictions, \* bound on the pages the pager takes away
          DmaMayStop,   \* the guest may stop the engine during a transfer
          GuestMiscounts \* its commands may ask for more words than it programmed

ASSUME DiskDmaAssumption ==
  /\ PageWords \in Nat \ {0} /\ LowWords \in Nat \ {0} /\ CountFull \in Nat \ {0}
  /\ Selections \subseteq SUBSET {"FD", "HD0"}
  /\ SliceMax \in Nat /\ MaxCommands \in Nat /\ MaxEvictions \in Nat
  /\ DmaMayStop \in BOOLEAN /\ GuestMiscounts \in BOOLEAN

Devices == {"FD", "HD0"}

VARIABLES map,
          chan,      \* state.dma_address, dma_count, dmaen, dma_reading, dma_dev
          sel,       \* state.fd_selected and hd_selected: the devices selected
          dev,       \* the transfer each controller's command asks for
          mem,       \* the words of the RAM zone
          slice,     \* whose turn it is: "cpu" or "dma"
          num,       \* words moved in this slice
          ee, nmi_latch,
          nmi,       \* the NMI pending in the CPU core, as the set of the page
                     \* that BSR0 and BSR1 name; none is the empty set
          handler,   \* what the kernel's NMI handler still has to do
          spent,     \* commands issued and pages taken away
          left       \* ghost: words programmed and not yet moved

kernel == <<ee, nmi_latch, nmi, handler, spent>>
vars == <<map, chan, sel, dev, mem, slice, num, kernel, left>>

RamWords == RamPages * PageWords
Page(a) == a \div PageWords

DC == INSTANCE DmaChannel WITH memory <- mem, device <- dev, at <- chan.addr

Idle == [op |-> "none", len |-> 0, pos |-> 0, data |-> << >>]

TypeOK ==
  /\ map \in Maps
  /\ chan \in [addr : 0..RamWords, count : 0..CountFull, en : BOOLEAN,
               reading : BOOLEAN, dev : Devices \cup {"UNDEF"}]
  /\ sel \in SUBSET Devices
  /\ \A d \in Devices : dev[d].op \in {"none", "read", "write"} /\ dev[d].pos \in 0..dev[d].len
  /\ DOMAIN mem = 0..(RamWords - 1)
  /\ slice \in {"cpu", "dma"} /\ num \in 0..(SliceMax + 1)
  /\ ee \in BOOLEAN /\ nmi_latch \in BOOLEAN /\ nmi \in SUBSET RamZone
  /\ handler \in [csr : BOOLEAN, pages : SUBSET RamZone]
  /\ spent \in [commands : 0..MaxCommands, evictions : 0..MaxEvictions]
  /\ left \in Int

\* state_init, and memory whose words can be told apart.
Init ==
  /\ map = [p \in RamZone |-> [st |-> Absent, we |-> FALSE]]
  /\ chan = [addr |-> 0, count |-> 0, en |-> FALSE, reading |-> FALSE, dev |-> "UNDEF"]
  /\ sel = {}
  /\ dev = [d \in Devices |-> Idle]
  /\ mem = [a \in 0..(RamWords - 1) |-> a]
  /\ slice = "cpu" /\ num = 0
  /\ ee = FALSE /\ nmi_latch = FALSE /\ nmi = {}
  /\ handler = [csr |-> FALSE, pages |-> {}]
  /\ spent = [commands |-> 0, evictions |-> 0]
  /\ left = 0

\* wd2010_get_drq and wd2797_get_drq.
GetDrq(d) == dev[d].pos < dev[d].len
Quiet == \A d \in Devices : ~GetDrq(d)

-----------------------------------------------------------------------------
(* The guest, between two instructions.  A pending NMI is taken first.       *)

Cpu == slice = "cpu" /\ nmi = {}

\* The driver writes the count last: the other registers while nothing is left
\* to move.
Unarmed == Cpu /\ Quiet /\ left = 0 /\ spent.commands < MaxCommands

\* The Disk Control Register: "if both devices are selected, whichever one was
\* selected last should be used".
SelectDevice(ds) ==
  /\ Unarmed
  /\ sel' = ds
  /\ chan' = [chan EXCEPT !.dev =
                CASE "HD0" \in ds \ sel -> "HD0"
                  [] "FD" \in ds \ sel /\ "HD0" \notin ds \ sel -> "FD"
                  [] ds \subseteq sel /\ ds = {"HD0"} -> "HD0"
                  [] ds \subseteq sel /\ ds = {"FD"} -> "FD"
                  [] ds \subseteq sel /\ ds \in {{}, Devices} -> @]
  /\ UNCHANGED <<map, dev, mem, slice, num, kernel, left>>

\* The two halves of the DMA Address Register.  A write of either masks the
\* other, so that a carry out of the RAM zone is dropped.
SetAddressLow(v) ==
  /\ Unarmed
  /\ chan' = [chan EXCEPT !.addr = (((@ \div LowWords) * LowWords) % RamWords) + v]
  /\ UNCHANGED <<map, sel, dev, mem, slice, num, kernel, left>>

SetAddressHigh(v) ==
  /\ Unarmed
  /\ chan' = [chan EXCEPT !.addr = v * LowWords + (@ % LowWords)]
  /\ UNCHANGED <<map, sel, dev, mem, slice, num, kernel, left>>

\* The direction bit of the Miscellaneous Control Register.
SetDirection(reading) ==
  /\ Unarmed
  /\ chan' = [chan EXCEPT !.reading = reading]
  /\ UNCHANGED <<map, sel, dev, mem, slice, num, kernel, left>>

\* The DMA Count Register: the guest writes the complement of the n words it
\* wants, and the code adds one.  The driver programs a transfer before the
\* command, for a drive it has selected; it may write the register again during
\* one, to stop or to restart the engine.
SetCount(n, en) ==
  /\ Cpu
  /\ IF Quiet THEN spent.commands < MaxCommands /\ (en => chan.dev # "UNDEF")
              ELSE DmaMayStop /\ n = left
  /\ chan' = [chan EXCEPT !.count = (CountFull - 1 - n) + 1, !.en = en]
  /\ left' = n
  /\ UNCHANGED <<map, sel, dev, mem, slice, num, kernel>>

\* A command that asks for len words, to the controller the channel serves; the
\* transfer fits the RAM, and the programmed count unless the guest miscounts.
Issue(d, len) ==
  /\ Cpu /\ Quiet /\ d = chan.dev /\ spent.commands < MaxCommands
  /\ chan.en \/ DmaMayStop
  /\ chan.addr + len <= RamWords /\ (len <= left \/ GuestMiscounts)
  /\ dev' = [dev EXCEPT ![d] =
              [op |-> IF chan.reading THEN "write" ELSE "read", len |-> len, pos |-> 0,
               data |-> IF chan.reading THEN << >>
                        ELSE [i \in 1..len |-> 10 * (spent.commands + 1) + i]]]
  /\ spent' = [spent EXCEPT !.commands = @ + 1]
  /\ UNCHANGED <<map, chan, sel, mem, slice, num, ee, nmi_latch, nmi, handler, left>>

EnableErrors ==
  /\ Cpu /\ ee' = TRUE
  /\ UNCHANGED <<map, chan, sel, dev, mem, slice, num, nmi_latch, nmi, handler, spent, left>>

\* The CPU core takes the NMI: the handler is to access CSR and to see to the
\* page that BSR names.
TakeNmi ==
  /\ slice = "cpu" /\ nmi # {}
  /\ nmi' = {}
  /\ handler' = [csr |-> TRUE, pages |-> handler.pages \cup nmi]
  /\ UNCHANGED <<map, chan, sel, dev, mem, slice, num, ee, nmi_latch, spent, left>>

\* Mutant of ClearStatus: the latched NMI is not released.
ClearStatusKeepsNmi ==
  /\ Cpu /\ handler' = [handler EXCEPT !.csr = FALSE]
  /\ UNCHANGED <<map, chan, sel, dev, mem, slice, num, ee, nmi_latch, nmi, spent, left>>

\* CSR, by the handler or by any other code of the kernel.
ClearStatus ==
  /\ Cpu
  /\ nmi_latch' = FALSE
  /\ handler' = [handler EXCEPT !.csr = FALSE]
  /\ UNCHANGED <<map, chan, sel, dev, mem, slice, num, ee, nmi, spent, left>>

\* The pager: pages come when a handler asks, and go at any time (it matters
\* during a transfer).
InstallPage(p) ==
  /\ Cpu /\ p \in handler.pages
  /\ map' = [map EXCEPT ![p].st = Present]
  /\ handler' = [handler EXCEPT !.pages = @ \ {p}]
  /\ UNCHANGED <<chan, sel, dev, mem, slice, num, ee, nmi_latch, nmi, spent, left>>

EvictPage(p) ==
  /\ Cpu /\ ~Quiet /\ map[p].st # Absent /\ spent.evictions < MaxEvictions
  /\ map' = [map EXCEPT ![p].st = Absent]
  /\ spent' = [spent EXCEPT !.evictions = @ + 1]
  /\ UNCHANGED <<chan, sel, dev, mem, slice, num, ee, nmi_latch, nmi, handler, left>>

-----------------------------------------------------------------------------
(* The engine, after a slice.                                               *)

DmaBegins ==
  /\ Cpu /\ chan.en
  /\ slice' = "dma"
  /\ UNCHANGED <<map, chan, sel, dev, mem, num, kernel, left>>

\* With the engine off, a controller that asks for a word loses the rest of
\* its transfer, the hard disc's first.
DmaMiss(d) ==
  /\ Cpu /\ ~chan.en /\ GetDrq(d)
  /\ d = "FD" => ~GetDrq("HD0")
  /\ dev' = [dev EXCEPT ![d] = Idle]
  /\ UNCHANGED <<map, chan, sel, mem, slice, num, kernel, left>>

\* A turn of the loop that comes as far as the access check.
Turn ==
  /\ slice = "dma" /\ chan.count < CountFull
  /\ num <= SliceMax
  /\ chan.dev # "UNDEF" => GetDrq(chan.dev)

Verdict == CheckMemoryAccess(map, Page(chan.addr), ~chan.reading, TRUE)

\* d, the word in flight; no drive selected is only reported, and the loop goes on.
WordIn == IF chan.dev = "UNDEF" THEN 0 ELSE dev[chan.dev].data[dev[chan.dev].pos + 1]

\* At the end of the RAM zone mapAddr aborts the emulator: see Mmu.
DmaWord ==
  /\ Turn /\ Verdict = "MEM_ALLOWED" /\ chan.addr < RamWords
  /\ map' = MapAddr(map, Page(chan.addr), ~chan.reading)
  /\ mem' = IF chan.reading THEN mem ELSE [mem EXCEPT ![chan.addr] = WordIn]
  /\ dev' = IF chan.dev = "UNDEF" THEN dev
            ELSE [dev EXCEPT ![chan.dev].pos = @ + 1,
                             ![chan.dev].data = IF chan.reading THEN Append(@, mem[chan.addr]) ELSE @]
  /\ chan' = [chan EXCEPT !.addr = @ + 1, !.count = @ + 1]
  /\ num' = num + 1
  /\ left' = left - 1
  /\ UNCHANGED <<sel, slice, kernel>>

\* Mutants of DmaRefused: the address moves on all the same; the NMI is raised
\* at every retry.
DmaRefusedMovesOn ==
  /\ Turn /\ Verdict # "MEM_ALLOWED"
  /\ nmi' = IF ee /\ ~nmi_latch THEN {Page(chan.addr)} ELSE nmi
  /\ nmi_latch' = (nmi_latch \/ ee)
  /\ chan' = [chan EXCEPT !.addr = @ + 1]
  /\ slice' = "cpu" /\ num' = 0
  /\ UNCHANGED <<map, sel, dev, mem, ee, handler, spent, left>>
DmaRefusedRearms ==
  /\ Turn /\ Verdict # "MEM_ALLOWED"
  /\ nmi' = IF ee THEN {Page(chan.addr)} ELSE nmi
  /\ nmi_latch' = (nmi_latch \/ ee)
  /\ slice' = "cpu" /\ num' = 0
  /\ UNCHANGED <<map, chan, sel, dev, mem, ee, handler, spent, left>>

\* access_check_dma: the registers latch, and with EE set an NMI is raised
\* unless one is latched; the engine tries again after the next slice.
DmaRefused ==
  /\ Turn /\ Verdict # "MEM_ALLOWED"
  /\ nmi' = IF ee /\ ~nmi_latch THEN {Page(chan.addr)} ELSE nmi
  /\ nmi_latch' = (nmi_latch \/ ee)
  /\ slice' = "cpu" /\ num' = 0
  /\ UNCHANGED <<map, chan, sel, dev, mem, ee, handler, spent, left>>

\* The share of the slice is used up, or the controller has no word yet.
DmaWaits ==
  /\ slice = "dma" /\ chan.count < CountFull
  /\ \/ num > SliceMax
     \/ chan.dev # "UNDEF" /\ ~GetDrq(chan.dev)
  /\ slice' = "cpu" /\ num' = 0
  /\ UNCHANGED <<map, chan, sel, dev, mem, kernel, left>>

\* The counter is at its end: it is set back by one, and DMAEN stays on.
DmaFinishes ==
  /\ slice = "dma" /\ chan.count >= CountFull
  /\ chan' = [chan EXCEPT !.count = CountFull - 1]
  /\ slice' = "cpu" /\ num' = 0
  /\ UNCHANGED <<map, sel, dev, mem, kernel, left>>

-----------------------------------------------------------------------------
Engine ==
  \/ DmaBegins \/ DmaWord \/ DmaRefused \/ DmaWaits \/ DmaFinishes
  \/ \E d \in Devices : DmaMiss(d)

Guest ==
  \/ \E ds \in Selections : SelectDevice(ds)
  \/ \E v \in 0..(LowWords - 1) : SetAddressLow(v)
  \/ \E v \in 0..((RamWords - 1) \div LowWords) : SetAddressHigh(v)
  \/ \E b \in BOOLEAN : SetDirection(b)
  \/ \E n \in 0..(CountFull - 1), en \in BOOLEAN : SetCount(n, en)
  \/ \E d \in Devices, len \in 1..(CountFull - 1) : Issue(d, len)
  \/ EnableErrors \/ TakeNmi \/ ClearStatus
  \/ \E p \in RamZone : InstallPage(p) \/ EvictPage(p)

Next == Engine \/ Guest

Spec == Init /\ [][Next]_vars

\* The main loop runs the engine after every slice; the kernel enables errors,
\* takes its NMIs, accesses CSR in the handler and installs the pages asked for.
Fairness ==
  /\ WF_vars(Engine)
  /\ SF_vars(EnableErrors) /\ WF_vars(TakeNmi)
  /\ SF_vars(handler.csr /\ ClearStatus)
  /\ \A p \in RamZone : SF_vars(InstallPage(p))

FairSpec == Spec /\ Fairness

-----------------------------------------------------------------------------
(* What the engine promises.                                                *)

\* Over page faults, waits, time slices, and a guest that stops and restarts
\* the engine, each word goes to its place once, and no more words move than
\* the guest programmed (the loop of main.c).
ImplementsDmaChannel == DC!DCSpec

\* main.c:562, "Turn off DMA engine if we finished this cycle": once the words
\* the guest programmed have moved, no others do.
\* It fails for a guest that miscounts (MCDiskDma_Overrun).
CountIsKept == left >= 0

\* The NMI handler has accessed CSR before the next NMI comes: retries of the
\* refused cycle do not re-enter it (access_check_dma, memory.c:351).
HandlerNotReentered == handler.csr => nmi = {}

\* A refused cycle is never forgotten: whatever the order in which the latch is
\* set and released, a controller that asks for words gets all of them moved
\* in the end, or is told that they are missed.
TransferEnds == ~Quiet ~> Quiet
=============================================================================
