--------------------------- MODULE DiskDmaProofs ---------------------------
(***************************************************************************)
(* Proofs about the disc DMA engine: for any memory, page size, counter,   *)
(* slice and number of commands, evictions and page faults, the NMI        *)
(* handler is not entered twice for one refused cycle, and each step of    *)
(* the engine and of those around it is a step of DmaChannel or stutters.  *)
(***************************************************************************)
EXTENDS DiskDma, TLAPS

Transfers == [op : {"none", "read", "write"}, len : Nat, pos : Nat, data : Seq(Nat)]

\* The types the proofs need: TypeOK, with addresses that may run past the RAM
\* zone, as SetAddressLow and SetAddressHigh let them for some sizes.
Typed ==
  /\ chan \in [addr : Nat, count : Int, en : BOOLEAN, reading : BOOLEAN,
               dev : Devices \cup {"UNDEF"}]
  /\ sel \in SUBSET Devices
  /\ dev \in [Devices -> Transfers]
  /\ mem \in [0..(RamWords - 1) -> Nat]
  /\ ee \in BOOLEAN /\ nmi_latch \in BOOLEAN /\ nmi \in SUBSET RamZone
  /\ handler \in [csr : BOOLEAN, pages : SUBSET RamZone]
  /\ spent \in [commands : Nat, evictions : Nat]
  /\ left \in Nat

\* A running engine serves a device.
EngineHasDevice == chan.en \/ slice = "dma" => chan.dev \in Devices

\* A device that asks for words is the one the channel serves, moves them in
\* the channel's direction, holds them all if they come from it, and asks for
\* no more than are left of those programmed.
RequestFits ==
  \A d \in Devices : GetDrq(d) =>
    /\ d = chan.dev
    /\ dev[d].op = IF chan.reading THEN "write" ELSE "read"
    /\ dev[d].op = "read" => Len(dev[d].data) = dev[d].len
    /\ dev[d].len - dev[d].pos <= left

\* What a pending NMI and a handler that has not accessed CSR stand for.
LatchHeld == nmi # {} \/ handler.csr => nmi_latch

IInv == Typed /\ EngineHasDevice /\ RequestFits /\ LatchHeld /\ HandlerNotReentered

-----------------------------------------------------------------------------
LEMMA SizesAreNat ==
  /\ RamPages \in Nat \ {0} /\ PageWords \in Nat \ {0}
  /\ RamWords \in Nat \ {0}
  /\ \A a \in Nat : Page(a) \in Nat
<1>1. RamPages \in Nat \ {0} /\ PageWords \in Nat \ {0}
  BY PageMapAssumption, DiskDmaAssumption
<1>2. RamWords \in Nat \ {0}
  BY <1>1 DEF RamWords
<1>3. ASSUME NEW a \in Nat PROVE Page(a) \in Nat
  BY <1>1 DEF Page
<1> QED
  BY <1>1, <1>2, <1>3

LEMMA InitIInv == Init => IInv
<1> SUFFICES ASSUME Init PROVE IInv
  OBVIOUS
<1>1. Idle \in Transfers /\ ~(Idle.pos < Idle.len)
  BY DEF Idle, Transfers
<1>2. mem \in [0..(RamWords - 1) -> Nat]
  BY SizesAreNat DEF Init
<1>3. dev \in [Devices -> Transfers] /\ \A d \in Devices : dev[d] = Idle
  BY <1>1 DEF Init
<1>4. Typed
  <2>1. chan \in [addr : Nat, count : Int, en : BOOLEAN, reading : BOOLEAN,
                 dev : Devices \cup {"UNDEF"}]
    BY DEF Init
  <2>2. /\ handler \in [csr : BOOLEAN, pages : SUBSET RamZone]
        /\ spent \in [commands : Nat, evictions : Nat]
    BY DEF Init
  <2> QED
    BY <1>2, <1>3, <2>1, <2>2 DEF Init, Typed
<1> QED
  BY <1>1, <1>3, <1>4 DEF Init, IInv, EngineHasDevice, RequestFits, LatchHeld,
       HandlerNotReentered, GetDrq

\* Registers written while the channel has nothing to do: no device asks for
\* words, so that only types are at stake.
LEMMA AddressTypes ==
  ASSUME IInv
  PROVE  /\ \A v \in 0..(LowWords - 1) : SetAddressLow(v) => chan'.addr \in Nat
         /\ \A v \in 0..((RamWords - 1) \div LowWords) : SetAddressHigh(v) => chan'.addr \in Nat
<1>1. RamWords \in Nat \ {0} /\ LowWords \in Nat \ {0} /\ chan.addr \in Nat
  BY SizesAreNat, DiskDmaAssumption DEF IInv, Typed
<1>3. ASSUME NEW v \in 0..(LowWords - 1), SetAddressLow(v)
      PROVE  chan'.addr \in Nat
  <2> DEFINE high == (chan.addr \div LowWords) * LowWords
  <2>1. high \in Nat
    BY <1>1
  <2>2. chan'.addr = (high % RamWords) + v
    BY <1>3 DEF SetAddressLow, IInv, Typed
  <2> HIDE DEF high
  <2>3. high % RamWords \in Nat
    BY <1>1, <2>1
  <2> QED
    BY <1>1, <2>2, <2>3
<1>4. ASSUME NEW v \in 0..((RamWords - 1) \div LowWords), SetAddressHigh(v)
      PROVE  chan'.addr \in Nat
  <2>1. v * LowWords \in Nat /\ chan.addr % LowWords \in Nat
    BY <1>1
  <2>2. chan'.addr = v * LowWords + (chan.addr % LowWords)
    BY <1>4 DEF SetAddressHigh, IInv, Typed
  <2> QED
    BY <2>1, <2>2
<1> QED
  BY <1>3, <1>4

\* While no device asks for words.
LEMMA UnarmedKeepsIInv ==
  ASSUME IInv, Quiet, chan' \in [addr : Nat, count : Int, en : BOOLEAN,
                                 reading : BOOLEAN, dev : Devices \cup {"UNDEF"}],
         sel' \in SUBSET Devices, left' \in Nat,
         chan'.en => chan'.dev \in Devices, slice = "cpu",
         UNCHANGED <<dev, mem, slice, kernel>>
  PROVE  IInv'
  BY DEF IInv, Typed, EngineHasDevice, RequestFits, LatchHeld, HandlerNotReentered,
         GetDrq, Quiet, kernel

LEMMA GuestKeepsIInv == ASSUME ~GuestMiscounts, IInv, Guest PROVE IInv'
<1>1. ASSUME NEW ds \in Selections, SelectDevice(ds) PROVE IInv'
  <2>1. ds \subseteq Devices
    BY DiskDmaAssumption DEF Devices
  <2>2. /\ chan' \in [addr : Nat, count : Int, en : BOOLEAN,
                      reading : BOOLEAN, dev : Devices \cup {"UNDEF"}]
        /\ chan'.en => chan'.dev \in Devices
    <3> DEFINE new == CASE "HD0" \in ds \ sel -> "HD0"
                        [] "FD" \in ds \ sel /\ "HD0" \notin ds \ sel -> "FD"
                        [] ds \subseteq sel /\ ds = {"HD0"} -> "HD0"
                        [] ds \subseteq sel /\ ds = {"FD"} -> "FD"
                        [] ds \subseteq sel /\ ds \in {{}, Devices} -> chan.dev
    <3>1. new \in Devices \/ new = chan.dev
      <4>1. CASE "HD0" \in ds \ sel
        BY <4>1 DEF Devices
      <4>2. CASE "FD" \in ds \ sel /\ "HD0" \notin ds \ sel
        BY <4>2 DEF Devices
      <4>3. CASE ds \subseteq sel
        BY <2>1, <4>3 DEF Devices
      <4> QED
        BY <2>1, <4>1, <4>2, <4>3 DEF Devices
    <3>2. chan' = [chan EXCEPT !.dev = new]
      BY <1>1 DEF SelectDevice
    <3> HIDE DEF new
    <3> QED
      BY <3>1, <3>2 DEF IInv, Typed, EngineHasDevice
  <2> QED
    BY <1>1, <2>1, <2>2, UnarmedKeepsIInv DEF SelectDevice, Unarmed, Cpu, IInv, Typed
<1>2. ASSUME NEW v \in 0..(LowWords - 1), SetAddressLow(v) PROVE IInv'
  BY <1>2, AddressTypes, UnarmedKeepsIInv
     DEF SetAddressLow, Unarmed, Cpu, IInv, Typed, EngineHasDevice
<1>3. ASSUME NEW v \in 0..((RamWords - 1) \div LowWords), SetAddressHigh(v) PROVE IInv'
  BY <1>3, AddressTypes, UnarmedKeepsIInv
     DEF SetAddressHigh, Unarmed, Cpu, IInv, Typed, EngineHasDevice
<1>4. ASSUME NEW b \in BOOLEAN, SetDirection(b) PROVE IInv'
  BY <1>4, UnarmedKeepsIInv DEF SetDirection, Unarmed, Cpu, IInv, Typed, EngineHasDevice
<1>5. ASSUME NEW n \in 0..(CountFull - 1), NEW en \in BOOLEAN, SetCount(n, en) PROVE IInv'
  <2>1. /\ chan' = [chan EXCEPT !.count = (CountFull - 1 - n) + 1, !.en = en]
        /\ (CountFull - 1 - n) + 1 \in Int /\ n \in Nat
        /\ UNCHANGED <<map, sel, dev, mem, slice, num, kernel>> /\ slice = "cpu"
        /\ left' = n
    BY <1>5, DiskDmaAssumption DEF SetCount, Cpu
  <2>2. CASE Quiet
    BY <1>5, <2>1, <2>2, UnarmedKeepsIInv DEF SetCount, IInv, Typed
  <2>3. CASE ~Quiet
    <3>1. chan.dev \in Devices
      BY <2>3 DEF Quiet, IInv, RequestFits
    <3>2. left' = left
      BY <1>5, <2>1, <2>3 DEF SetCount
    <3> QED
      BY <2>1, <3>1, <3>2 DEF IInv, Typed, EngineHasDevice, RequestFits, LatchHeld,
           HandlerNotReentered, GetDrq, kernel
  <2> QED
    BY <2>2, <2>3
<1>6. ASSUME NEW d \in Devices, NEW len \in 1..(CountFull - 1), Issue(d, len) PROVE IInv'
  <2> DEFINE t == [op |-> IF chan.reading THEN "write" ELSE "read", len |-> len, pos |-> 0,
                   data |-> IF chan.reading THEN << >>
                            ELSE [i \in 1..len |-> 10 * (spent.commands + 1) + i]]
  <2>1. /\ d = chan.dev /\ len <= left /\ dev' = [dev EXCEPT ![d] = t]
        /\ \A o \in Devices : ~GetDrq(o)
        /\ spent' = [spent EXCEPT !.commands = @ + 1] /\ slice = "cpu"
        /\ UNCHANGED <<map, chan, sel, mem, slice, num, ee, nmi_latch, nmi, handler, left>>
    BY <1>6 DEF Issue, Quiet, Cpu
  <2>2. /\ t \in Transfers /\ t.len = len /\ t.pos = 0
        /\ t.op = IF chan.reading THEN "write" ELSE "read"
        /\ t.op = "read" => Len(t.data) = t.len
    <3>1. len \in Nat /\ spent.commands \in Nat /\ chan.reading \in BOOLEAN
      BY DiskDmaAssumption DEF IInv, Typed
    <3>2. [i \in 1..len |-> 10 * (spent.commands + 1) + i] \in Seq(Nat)
      BY <3>1
    <3>3. Len([i \in 1..len |-> 10 * (spent.commands + 1) + i]) = len
      BY <3>1
    <3>4. t.data \in Seq(Nat)
      BY <3>1, <3>2
    <3> QED
      BY <3>1, <3>3, <3>4 DEF Transfers
  <2> HIDE DEF t
  <2>3. \A o \in Devices : dev'[o] = IF o = d THEN t ELSE dev[o]
    BY <2>1 DEF IInv, Typed
  <2>4. Typed'
    BY <2>1, <2>2 DEF IInv, Typed
  <2>5. RequestFits'
    BY <2>1, <2>2, <2>3 DEF IInv, Typed, RequestFits, GetDrq
  <2> QED
    BY <2>1, <2>4, <2>5 DEF IInv, EngineHasDevice, LatchHeld, HandlerNotReentered
<1>7. CASE EnableErrors \/ TakeNmi \/ ClearStatus
  <2>1. UNCHANGED <<chan, sel, dev, mem, slice, spent, left>> /\ Typed'
    <3>1. CASE EnableErrors
      BY <3>1 DEF EnableErrors, IInv, Typed
    <3>2. CASE TakeNmi
      BY <3>2 DEF TakeNmi, IInv, Typed
    <3>3. CASE ClearStatus
      BY <3>3 DEF ClearStatus, IInv, Typed
    <3> QED
      BY <1>7, <3>1, <3>2, <3>3
  <2>2. LatchHeld' /\ HandlerNotReentered'
    BY <1>7 DEF EnableErrors, TakeNmi, ClearStatus, IInv, Typed, LatchHeld,
         HandlerNotReentered, Cpu
  <2> QED
    BY <2>1, <2>2 DEF IInv, EngineHasDevice, RequestFits, GetDrq
<1>8. ASSUME NEW p \in RamZone, InstallPage(p) \/ EvictPage(p) PROVE IInv'
  BY <1>8 DEF InstallPage, EvictPage, IInv, Typed, EngineHasDevice, RequestFits,
       LatchHeld, HandlerNotReentered, GetDrq
<1> QED
  BY <1>1, <1>2, <1>3, <1>4, <1>5, <1>6, <1>7, <1>8 DEF Guest

-----------------------------------------------------------------------------
(* The engine.                                                              *)

\* A turn that comes as far as the access check serves a device that asks.
LEMMA TurnFacts ==
  ASSUME IInv, Turn
  PROVE  /\ chan.dev \in Devices /\ GetDrq(chan.dev) /\ left > 0
         /\ dev[chan.dev].op = IF chan.reading THEN "write" ELSE "read"
         /\ chan.reading = FALSE => WordIn \in Nat
<1>1. chan.dev \in Devices /\ GetDrq(chan.dev)
  BY DEF Turn, IInv, EngineHasDevice, Devices
<1>2. /\ dev[chan.dev] \in Transfers
      /\ dev[chan.dev].op = IF chan.reading THEN "write" ELSE "read"
      /\ dev[chan.dev].op = "read" => Len(dev[chan.dev].data) = dev[chan.dev].len
      /\ dev[chan.dev].len - dev[chan.dev].pos <= left
  BY <1>1 DEF IInv, Typed, RequestFits
<1>3. /\ dev[chan.dev].pos \in Nat /\ dev[chan.dev].len \in Nat
      /\ dev[chan.dev].data \in Seq(Nat) /\ dev[chan.dev].pos < dev[chan.dev].len
  BY <1>1, <1>2 DEF Transfers, GetDrq
<1>4. left > 0
  BY <1>2, <1>3 DEF IInv, Typed
<1>5. ASSUME chan.reading = FALSE PROVE WordIn \in Nat
  <2>1. dev[chan.dev].pos + 1 \in 1..Len(dev[chan.dev].data)
    BY <1>2, <1>3, <1>5
  <2>2. WordIn = dev[chan.dev].data[dev[chan.dev].pos + 1]
    BY <1>1 DEF WordIn, Devices
  <2>3. \A i \in 1..Len(dev[chan.dev].data) : dev[chan.dev].data[i] \in Nat
    BY <1>3
  <2> QED
    BY <2>1, <2>2, <2>3
<1> QED
  BY <1>1, <1>2, <1>4, <1>5

LEMMA FieldFacts ==
  ASSUME NEW D, NEW r \in [op : {"none", "read", "write"}, len : Nat, pos : Nat, data : D],
         NEW n \in Nat, NEW s \in D
  PROVE  LET t == [[r EXCEPT !.pos = n] EXCEPT !.data = s]
         IN /\ t \in [op : {"none", "read", "write"}, len : Nat, pos : Nat, data : D]
            /\ t.op = r.op /\ t.len = r.len /\ t.pos = n /\ t.data = s
  OBVIOUS

\* What a word does to the device, and only to it.
LEMMA WordFacts ==
  ASSUME IInv, DmaWord
  PROVE  /\ dev' \in [Devices -> Transfers]
         /\ \A o \in Devices \ {chan.dev} : dev'[o] = dev[o]
         /\ dev'[chan.dev].op = dev[chan.dev].op
         /\ dev'[chan.dev].len = dev[chan.dev].len
         /\ dev'[chan.dev].pos = dev[chan.dev].pos + 1
         /\ dev'[chan.dev].data = IF chan.reading
                                  THEN Append(dev[chan.dev].data, mem[chan.addr])
                                  ELSE dev[chan.dev].data
         /\ mem' \in [0..(RamWords - 1) -> Nat]
<1>1. Turn /\ chan.addr < RamWords
  BY DEF DmaWord
<1>2. chan.dev \in Devices /\ chan.dev # "UNDEF"
  BY <1>1, TurnFacts DEF Devices
<1>3. dev' = [dev EXCEPT ![chan.dev].pos = @ + 1,
                         ![chan.dev].data = IF chan.reading THEN Append(@, mem[chan.addr]) ELSE @]
  BY <1>2 DEF DmaWord
<1>4. chan.addr \in 0..(RamWords - 1) /\ mem[chan.addr] \in Nat
  BY <1>1, SizesAreNat DEF IInv, Typed
<1>5. /\ dev \in [Devices -> Transfers] /\ dev[chan.dev] \in Transfers
      /\ chan.reading \in BOOLEAN
  BY <1>2 DEF IInv, Typed
<1>6. Append(dev[chan.dev].data, mem[chan.addr]) \in Seq(Nat)
  BY <1>4, <1>5 DEF Transfers
<1>7. mem' \in [0..(RamWords - 1) -> Nat]
  BY <1>1, <1>4, TurnFacts DEF DmaWord, IInv, Typed
<1> DEFINE x == chan.dev
           stored == IF chan.reading THEN Append(dev[x].data, mem[chan.addr]) ELSE dev[x].data
           moved == [dev[x] EXCEPT !.pos = @ + 1]
           t == [moved EXCEPT !.data = stored]
<1>8. /\ t \in Transfers /\ t.op = dev[x].op /\ t.len = dev[x].len
      /\ t.pos = dev[x].pos + 1 /\ t.data = stored
  <2>1. stored \in Seq(Nat)
    BY <1>5, <1>6 DEF Transfers
  <2>2. dev[x].pos + 1 \in Nat
    BY <1>5 DEF Transfers
  <2> HIDE DEF stored, x
  <2> QED
    BY <1>5, <2>1, <2>2, FieldFacts DEF Transfers, x
<1>9. dev' = [dev EXCEPT ![x] = t]
  <2>1. dev' = [[dev EXCEPT ![x] = moved] EXCEPT ![x].data =
                  IF chan.reading THEN Append(@, mem[chan.addr]) ELSE @]
    BY <1>3
  <2>2. [dev EXCEPT ![x] = moved][x] = moved /\ moved.data = dev[x].data
    BY <1>2, <1>5 DEF Transfers
  <2>3. dev' = [[dev EXCEPT ![x] = moved] EXCEPT ![x] = t]
    BY <2>1, <2>2
  <2> HIDE DEF t, moved
  <2> QED
    BY <1>2, <1>5, <2>3
<1> HIDE DEF t
<1> QED
  BY <1>2, <1>5, <1>7, <1>8, <1>9

LEMMA EngineKeepsIInv == ASSUME IInv, Engine PROVE IInv'
<1>1. CASE DmaBegins \/ DmaWaits \/ DmaFinishes
  <2>1. chan' \in [addr : Nat, count : Int, en : BOOLEAN, reading : BOOLEAN,
                   dev : Devices \cup {"UNDEF"}]
    BY <1>1, DiskDmaAssumption DEF DmaBegins, DmaWaits, DmaFinishes, IInv, Typed
  <2>2. /\ chan'.dev = chan.dev /\ chan'.en = chan.en /\ chan'.reading = chan.reading
        /\ slice' = "dma" => chan.en
        /\ UNCHANGED <<sel, dev, mem, kernel, left>>
    BY <1>1 DEF DmaBegins, DmaWaits, DmaFinishes, IInv, Typed
  <2> QED
    BY <2>1, <2>2 DEF IInv, Typed, EngineHasDevice, RequestFits, LatchHeld,
         HandlerNotReentered, GetDrq, kernel
<1>2. CASE DmaWord
  <2>1. Turn
    BY <1>2 DEF DmaWord
  <2>2. /\ chan' = [chan EXCEPT !.addr = @ + 1, !.count = @ + 1] /\ left' = left - 1
        /\ UNCHANGED <<sel, slice, kernel>>
    BY <1>2 DEF DmaWord
  <2>3. Typed'
    <3>1. /\ chan' \in [addr : Nat, count : Int, en : BOOLEAN, reading : BOOLEAN,
                        dev : Devices \cup {"UNDEF"}]
          /\ left' \in Nat
      <4>1. /\ chan \in [addr : Nat, count : Int, en : BOOLEAN, reading : BOOLEAN,
                          dev : Devices \cup {"UNDEF"}]
            /\ left \in Nat /\ left > 0
        BY <2>1, TurnFacts DEF IInv, Typed
      <4>2. left' \in Nat
        BY <2>2, <4>1
      <4>3. chan.addr + 1 \in Nat /\ chan.count + 1 \in Int
        BY <4>1
      <4> QED
        BY <2>2, <4>1, <4>2, <4>3
    <3>2. dev' \in [Devices -> Transfers] /\ mem' \in [0..(RamWords - 1) -> Nat]
      BY <1>2, WordFacts
    <3> QED
      BY <2>2, <3>1, <3>2 DEF IInv, Typed, kernel
  <2>4. RequestFits'
    <3> SUFFICES ASSUME NEW d \in Devices, GetDrq(d)'
                 PROVE  /\ d = chan.dev
                        /\ dev'[d].op = IF chan.reading THEN "write" ELSE "read"
                        /\ dev'[d].op = "read" => Len(dev'[d].data) = dev'[d].len
                        /\ dev'[d].len - dev'[d].pos <= left - 1
      BY <2>2 DEF RequestFits, IInv, Typed
    <3>1. d = chan.dev
      BY <1>2, WordFacts DEF IInv, RequestFits, GetDrq
    <3>2. /\ dev[d].pos \in Nat /\ dev[d].len \in Nat /\ left \in Nat
          /\ dev[d].op = IF chan.reading THEN "write" ELSE "read"
          /\ dev[d].op = "read" => Len(dev[d].data) = dev[d].len
          /\ dev[d].len - dev[d].pos <= left
      BY <2>1, <3>1, TurnFacts DEF IInv, RequestFits, Typed, Transfers
    <3> QED
      <4>1. /\ dev'[d].op = dev[d].op /\ dev'[d].len = dev[d].len
            /\ dev'[d].pos = dev[d].pos + 1
            /\ ~chan.reading => dev'[d].data = dev[d].data
        BY <1>2, <3>1, WordFacts
      <4>2. dev'[d].len - dev'[d].pos <= left - 1
        BY <3>2, <4>1
      <4> QED
        BY <3>1, <3>2, <4>1, <4>2
  <2> QED
    BY <1>2, <2>2, <2>3, <2>4 DEF IInv, Typed, EngineHasDevice, LatchHeld,
         HandlerNotReentered, kernel
<1>3. CASE DmaRefused
  <2>1. Page(chan.addr) \in RamZone
    <3>1. Page(chan.addr) \in Nat
      BY SizesAreNat DEF IInv, Typed
    <3>2. Verdict # "MEM_ALLOWED"
      BY <1>3 DEF DmaRefused
    <3> QED
      BY <3>1, <3>2, SizesAreNat DEF Verdict, CheckMemoryAccess, RamZone
  <2>2. Typed'
    BY <1>3, <2>1 DEF DmaRefused, IInv, Typed
  <2> QED
    BY <1>3, <2>2 DEF DmaRefused, IInv, Typed, EngineHasDevice, RequestFits, LatchHeld,
         HandlerNotReentered, GetDrq
<1>4. ASSUME NEW d \in Devices, DmaMiss(d) PROVE IInv'
  <2>1. /\ dev' = [dev EXCEPT ![d] = Idle]
        /\ UNCHANGED <<map, chan, sel, mem, slice, num, kernel, left>>
    BY <1>4 DEF DmaMiss
  <2>2. Idle \in Transfers
    BY DEF Idle, Transfers
  <2>3. \A o \in Devices : dev'[o] = IF o = d THEN Idle ELSE dev[o]
    BY <2>1 DEF IInv, Typed
  <2>4. Typed'
    BY <2>1, <2>2 DEF IInv, Typed, kernel
  <2>5. RequestFits'
    BY <2>1, <2>3 DEF IInv, RequestFits, GetDrq, Idle
  <2> QED
    BY <2>1, <2>4, <2>5 DEF IInv, EngineHasDevice, LatchHeld, HandlerNotReentered, kernel
<1> QED
  BY <1>1, <1>2, <1>3, <1>4 DEF Engine

LEMMA NextKeepsIInv == ASSUME ~GuestMiscounts PROVE IInv /\ [Next]_vars => IInv'
<1>1. IInv /\ UNCHANGED vars => IInv'
  BY DEF vars, kernel, IInv, Typed, EngineHasDevice, RequestFits, LatchHeld,
         HandlerNotReentered, GetDrq
<1> QED
  BY <1>1, GuestKeepsIInv, EngineKeepsIInv DEF Next

-----------------------------------------------------------------------------
(* The latched NMI.                                                         *)

NmiInv ==
  /\ nmi_latch \in BOOLEAN /\ "csr" \in DOMAIN handler /\ handler.csr \in BOOLEAN
  /\ LatchHeld /\ HandlerNotReentered

LEMMA NextKeepsNmiInv == NmiInv /\ [Next]_vars => NmiInv'
<1> SUFFICES ASSUME NmiInv, [Next]_vars PROVE NmiInv'
  OBVIOUS
<1> USE DEF NmiInv, LatchHeld, HandlerNotReentered
<1>1. CASE UNCHANGED <<nmi, nmi_latch, handler>>
  BY <1>1
<1>2. CASE TakeNmi
  BY <1>2 DEF TakeNmi
<1>3. CASE ClearStatus
  BY <1>3 DEF ClearStatus, Cpu
<1>4. ASSUME NEW p \in RamZone, InstallPage(p) PROVE NmiInv'
  BY <1>4 DEF InstallPage
<1>5. CASE DmaRefused
  BY <1>5 DEF DmaRefused
<1>6. CASE \/ \E ds \in Selections : SelectDevice(ds)
           \/ \E v \in 0..(LowWords - 1) : SetAddressLow(v)
           \/ \E v \in 0..((RamWords - 1) \div LowWords) : SetAddressHigh(v)
           \/ \E b \in BOOLEAN : SetDirection(b)
           \/ \E n \in 0..(CountFull - 1), en \in BOOLEAN : SetCount(n, en)
           \/ \E d \in Devices, len \in 1..(CountFull - 1) : Issue(d, len)
           \/ \E d \in Devices : DmaMiss(d)
           \/ EnableErrors \/ (\E p \in RamZone : EvictPage(p))
           \/ DmaBegins \/ DmaWord \/ DmaWaits \/ DmaFinishes \/ UNCHANGED vars
  BY <1>1, <1>6 DEF SelectDevice, SetAddressLow, SetAddressHigh, SetDirection, SetCount, Issue,
       DmaMiss, EnableErrors, EvictPage, DmaBegins, DmaWord, DmaWaits, DmaFinishes, vars, kernel
<1> QED
  BY <1>2, <1>3, <1>4, <1>5, <1>6 DEF Next, Engine, Guest

\* The kernel's NMI handler is not entered again before it has accessed CSR,
\* however often the engine retries the refused cycle and however many words the
\* guest asks for (access_check_dma).
THEOREM NmiHandledOnce == Spec => []HandlerNotReentered
<1>1. Init => NmiInv
  <2> SUFFICES ASSUME Init PROVE NmiInv
    OBVIOUS
  <2>1. handler = [csr |-> FALSE, pages |-> {}] /\ nmi = {} /\ nmi_latch = FALSE
    BY DEF Init
  <2>2. DOMAIN handler = {"csr", "pages"} /\ handler.csr = FALSE
    BY <2>1
  <2> QED
    BY <2>1, <2>2 DEF NmiInv, LatchHeld, HandlerNotReentered
<1>2. NmiInv => HandlerNotReentered
  BY DEF NmiInv
<1> QED
  BY <1>1, <1>2, NextKeepsNmiInv, PTL DEF Spec

-----------------------------------------------------------------------------
(* The channel.                                                             *)

\* Only the engine's words move the address or the count of words that are left,
\* once a device asks; everything else is the guest's programming, a command,
\* or nothing that the channel shows.
LEMMA StepsOfChannel ==
  ASSUME IInv, [Next]_vars
  PROVE  [DC!DCNext]_(DC!channel)
<1> USE DEF DC!channel, DC!DCNext
<1>1. ASSUME NEW ds \in Selections, SelectDevice(ds) PROVE UNCHANGED DC!channel
  BY <1>1 DEF SelectDevice, IInv, Typed
<1>2. ASSUME NEW v \in 0..(LowWords - 1), SetAddressLow(v) PROVE DC!Program
  BY <1>2, AddressTypes DEF SetAddressLow, Unarmed, Quiet, GetDrq, DC!Program, DC!Asks
<1>3. ASSUME NEW v \in 0..((RamWords - 1) \div LowWords), SetAddressHigh(v) PROVE DC!Program
  BY <1>3, AddressTypes DEF SetAddressHigh, Unarmed, Quiet, GetDrq, DC!Program, DC!Asks
<1>4. ASSUME NEW b \in BOOLEAN, SetDirection(b) PROVE UNCHANGED DC!channel
  BY <1>4 DEF SetDirection, IInv, Typed
<1>5. ASSUME NEW n \in 0..(CountFull - 1), NEW en \in BOOLEAN, SetCount(n, en)
      PROVE  DC!Program \/ UNCHANGED DC!channel
  <2>1. /\ chan'.addr = chan.addr /\ chan.addr \in Nat /\ n \in Nat
        /\ UNCHANGED <<mem, dev>> /\ left' = n
    BY <1>5, DiskDmaAssumption DEF SetCount, IInv, Typed
  <2>2. Quiet \/ n = left
    BY <1>5 DEF SetCount
  <2> QED
    BY <2>1, <2>2 DEF Quiet, GetDrq, DC!Program, DC!Asks
<1>6. ASSUME NEW d \in Devices, NEW len \in 1..(CountFull - 1), Issue(d, len)
      PROVE  DC!Command(d)
  BY <1>6 DEF Issue, Quiet, GetDrq, DC!Command, DC!Asks, IInv, Typed
<1>7. ASSUME NEW d \in Devices, DmaMiss(d)
      PROVE  DC!Command(d)
  BY <1>7 DEF DmaMiss, Idle, DC!Command, DC!Asks, IInv, Typed
<1>8. CASE DmaWord
  <2> DEFINE d == chan.dev
  <2>1. /\ d \in Devices /\ GetDrq(d) /\ left > 0
        /\ dev[d].op = IF chan.reading THEN "write" ELSE "read"
    BY <1>8, TurnFacts DEF DmaWord
  <2>2. /\ chan'.addr = chan.addr + 1 /\ left' = left - 1
        /\ mem' = IF chan.reading THEN mem ELSE [mem EXCEPT ![chan.addr] = WordIn]
        /\ dev' = [dev EXCEPT ![d].pos = @ + 1,
                              ![d].data = IF chan.reading THEN Append(@, mem[chan.addr]) ELSE @]
    BY <1>8, <2>1 DEF DmaWord, Devices, IInv, Typed
  <2>3. DC!Moved(d)
    BY <2>1, <2>2 DEF DC!Moved, DC!Asks, GetDrq
  <2>4. CASE chan.reading
    BY <2>1, <2>2, <2>3, <2>4 DEF DC!MoveOut
  <2>5. CASE ~chan.reading
    <3>1. WordIn = dev[d].data[dev[d].pos + 1]
      BY <2>1 DEF WordIn, Devices
    <3>2. dev' = [dev EXCEPT ![d].pos = @ + 1]
      BY <2>1, <2>2, <2>5 DEF IInv, Typed, Transfers
    <3> QED
      BY <2>1, <2>2, <2>3, <2>5, <3>1, <3>2 DEF DC!MoveIn
  <2> QED
    BY <2>1, <2>4, <2>5
<1>9. CASE \/ EnableErrors \/ TakeNmi \/ ClearStatus
           \/ \E p \in RamZone : InstallPage(p) \/ EvictPage(p)
           \/ DmaBegins \/ DmaRefused \/ DmaWaits \/ DmaFinishes \/ UNCHANGED vars
  BY <1>9 DEF EnableErrors, TakeNmi, ClearStatus, InstallPage, EvictPage, DmaBegins,
       DmaRefused, DmaWaits, DmaFinishes, vars, IInv, Typed
<1> QED
  BY <1>1, <1>2, <1>3, <1>4, <1>5, <1>6, <1>7, <1>8, <1>9 DEF Next, Engine, Guest

\* Over page faults, slices, waits, missed transfers and a guest that stops and
\* restarts the engine, the engine is a DMA channel: each word moves once, to or
\* from its place, if the guest programs as many words as its commands ask for.
THEOREM EngineIsDmaChannel ==
  ASSUME ~GuestMiscounts
  PROVE  Spec => ImplementsDmaChannel
<1>1. Init => DC!DCInit
  BY DEF Init, DC!DCInit, DC!Asks, Idle
<1>2. IInv /\ [Next]_vars => [DC!DCNext]_(DC!channel)
  BY StepsOfChannel
<1> QED
  BY <1>1, <1>2, InitIInv, NextKeepsIInv, PTL DEF Spec, ImplementsDmaChannel, DC!DCSpec
=============================================================================
