-------------------------------- MODULE Ram --------------------------------
(***************************************************************************)
(* The RAM behind the page map: the two arrays of state.c, motherboard RAM *)
(* (base) and expansion RAM (exp), and the ways memory.c and main.c reach  *)
(* a byte of them: the CPU's reads and writes of 8, 16 and 32 bits, the    *)
(* words of the disc DMA engine, and the debugger's reads.  All of them    *)
(* translate a page to a frame through the map and mask the address with   *)
(* the size of the array; they differ in what they check first.            *)
(*                                                                         *)
(* A frame is a pair <<bank, n>>: a bank is 512 KB, the unit of RAM sizes, *)
(* and n a frame of it.  Banks 0 to 3 are the base zone (address <=        *)
(* 0x1fffff), banks 4 to 7 the expansion zone.  Masking leaves n alone, as *)
(* every size is a whole number of banks.  An address is a page and an     *)
(* offset, and data are bytes, the most significant first.  Only accesses  *)
(* that come to the RAM branch are here: ROMLMAP is set, and the registers *)
(* a refused access latches are in Mmu.                                    *)
(***************************************************************************)
EXTENDS PageMap, Sequences

CONSTANTS BankFrames,   \* frames in a bank (128 in the code)
          PageBytes,    \* bytes in a page (4096)
          Bytes,        \* the values of a byte
          EmptyByte,    \* a byte of EMPTY, which absent memory reads as
          RamSizes,     \* the <<base, expansion>> sizes, in banks, on offer
          Entries       \* the map entries the guest installs

\* validate_memory, in banks: what main lets through to state_init.
ValidSizes == {1, 2, 4} \X (0..4)

ASSUME RamAssumption ==
  /\ PageBytes \in Nat /\ PageBytes >= 2 /\ PageBytes % 2 = 0
  /\ EmptyByte \in Bytes
  /\ RamSizes \subseteq ValidSizes
  /\ BankFrames \in Nat \ {0}
  /\ Entries \subseteq [st : PageStatus, we : BOOLEAN, frame : (0..7) \X (0..(BankFrames - 1))]

VARIABLES size,  \* state.base_ram_size and exp_ram_size, in banks
          map,   \* state.map, with the frames of its entries
          ram,   \* state.base_ram and exp_ram
          mem    \* ghost: the byte last written to each place of installed RAM

vars == <<size, map, ram, mem>>

Arrays == {"base", "exp"}
FrameNumbers == 0..(BankFrames - 1)
Frames == (0..7) \X FrameNumbers
Offsets == 0..(PageBytes - 1)

\* The offset a 16-bit access has; the CPU core refuses odd ones.
WordOffsets == {o \in Offsets : o % 2 = 0}

Array(f) == IF f[1] < 4 THEN "base" ELSE "exp"
BankInArray(f) == IF f[1] < 4 THEN f[1] ELSE f[1] - 4

\* newAddr < base_ram_size, newAddr - 0x200000 < exp_ram_size.
Within(f) == BankInArray(f) < size[Array(f)]

InstalledIn(s) ==
  {f \in Frames : IF f[1] < 4 THEN f[1] < s["base"] ELSE f[1] - 4 < s["exp"]}

\* The cells of an array of n banks.
Cells(n) == (0..(n - 1)) \X FrameNumbers \X Offsets

\* Bitwise AND of two numbers of two bits.
And(a, b) == (a % 2) * (b % 2) + 2 * ((a \div 2) * (b \div 2))

\* The array's cell behind an address: "& (size - 1)" of the RD and WR macros.
Cell(f, o) == <<And(BankInArray(f), size[Array(f)] - 1), f[2], o>>

-----------------------------------------------------------------------------
(* Loads and stores.  The arrays before a store are a parameter, r, since   *)
(* an access may make several.                                              *)

\* Base memory wraps around when it is read; expansion RAM that is not there
\* reads as EMPTY.  The DMA engine's words to a disc are read alike.
Load(f, o) ==
  IF Array(f) = "exp" /\ ~Within(f) THEN EmptyByte ELSE ram[Array(f)][Cell(f, o)]

\* The debugger's reads of 8 and 16 bits, where absent base memory is EMPTY too.
DebugLoad(f, o) == IF Within(f) THEN ram[Array(f)][Cell(f, o)] ELSE EmptyByte

\* A store of the DMA engine checks nothing.
DmaStore(r, f, o, b) == [r EXCEPT ![Array(f)][Cell(f, o)] = b]

\* Mutant of CpuStore: the store wraps around, as the load does.
CpuStoreWraps(r, f, o, b) == DmaStore(r, f, o, b)

\* A store of the CPU goes to memory that is there.
CpuStore(r, f, o, b) == IF Within(f) THEN DmaStore(r, f, o, b) ELSE r

CpuStoreWord(r, f, o, w) == CpuStore(CpuStore(r, f, o, w[1]), f, o + 1, w[2])
DmaStoreWord(r, f, o, w) == DmaStore(DmaStore(r, f, o, w[1]), f, o + 1, w[2])

\* What a store means to memory without banks, sizes or masks.
Set(m, f, o, b) == [a \in DOMAIN m |-> IF a = <<f, o>> THEN b ELSE m[a]]
SetWord(m, f, o, w) == Set(Set(m, f, o, w[1]), f, o + 1, w[2])

-----------------------------------------------------------------------------
Words == Bytes \X Bytes
RamMaps == [RamZone -> [st : PageStatus, we : BOOLEAN, frame : Frames]]

TypeOK ==
  /\ size \in [Arrays -> 0..4] /\ <<size["base"], size["exp"]>> \in RamSizes
  /\ map \in RamMaps
  /\ ram \in [base : [Cells(size["base"]) -> Bytes], exp : [Cells(size["exp"]) -> Bytes]]
  /\ mem \in [InstalledIn(size) \X Offsets -> Bytes]

\* state_init: nothing clears the RAM it allocates, and the map is zero.
Init ==
  /\ \E s \in RamSizes : size = [base |-> s[1], exp |-> s[2]]
  /\ map = [p \in RamZone |-> [st |-> Absent, we |-> FALSE, frame |-> <<0, 0>>]]
  /\ ram \in [base : [Cells(size["base"]) -> Bytes], exp : [Cells(size["exp"]) -> Bytes]]
  /\ mem = [a \in InstalledIn(size) \X Offsets |-> Load(a[1], a[2])]

-----------------------------------------------------------------------------
(* The guest, and the DMA engine.                                           *)

\* A write of an entry of the map RAM.
InstallEntry(p, e) ==
  /\ map' = [map EXCEPT ![p] = e]
  /\ UNCHANGED <<size, ram, mem>>

Permitted(p, writing, any) == CheckMemoryAccess(map, p, writing, any) = "MEM_ALLOWED"

CpuWrite8(p, o, b, sup) ==
  /\ Permitted(p, TRUE, sup)
  /\ map' = MapAddr(map, p, TRUE)
  /\ ram' = CpuStore(ram, map[p].frame, o, b)
  /\ mem' = Set(mem, map[p].frame, o, b)
  /\ UNCHANGED size

CpuWrite16(p, o, w, sup) ==
  /\ Permitted(p, TRUE, sup)
  /\ map' = MapAddr(map, p, TRUE)
  /\ ram' = CpuStoreWord(ram, map[p].frame, o, w)
  /\ mem' = SetWord(mem, map[p].frame, o, w)
  /\ UNCHANGED size

\* address + 2: in the same page, or at the start of the next one.
SecondPage(p, o) == IF o + 2 < PageBytes THEN p ELSE p + 1
SecondOffset(o) == IF o + 2 < PageBytes THEN o + 2 ELSE 0

\* Two word cycles through two translations, both checked before either is
\* made.  A second word beyond the RAM zone is in Mmu (CpuOffTheEnd).
CpuWrite32(p, o, w, x, sup) ==
  LET q == SecondPage(p, o)
      f == map[p].frame
      g == map[q].frame
  IN /\ q \in RamZone
     /\ Permitted(p, TRUE, sup) /\ Permitted(q, TRUE, sup)
     /\ map' = MapPair(map, p, q, TRUE)
     /\ ram' = CpuStoreWord(CpuStoreWord(ram, f, o, w), g, SecondOffset(o), x)
     /\ mem' = SetWord(SetWord(mem, f, o, w), g, SecondOffset(o), x)
     /\ UNCHANGED size

\* A read of any width: q is the page of its second word, or p.
CpuRead(p, q, sup) ==
  /\ Permitted(p, FALSE, sup) /\ Permitted(q, FALSE, sup)
  /\ map' = MapPair(map, p, q, FALSE)
  /\ UNCHANGED <<size, ram, mem>>

\* Mutant of DmaWrite: the page keeps its status.
DmaWriteLeavesClean(p, o, w) ==
  /\ Permitted(p, TRUE, TRUE)
  /\ map[p].frame \in InstalledIn(size)
  /\ ram' = DmaStoreWord(ram, map[p].frame, o, w)
  /\ mem' = SetWord(mem, map[p].frame, o, w)
  /\ UNCHANGED <<size, map>>

\* A word from a disc.  The kernel points the engine at RAM it has found, where
\* the CPU may touch any frame, as it does to find out.
DmaWrite(p, o, w) ==
  /\ Permitted(p, TRUE, TRUE)
  /\ map[p].frame \in InstalledIn(size)
  /\ map' = MapAddr(map, p, TRUE)
  /\ ram' = DmaStoreWord(ram, map[p].frame, o, w)
  /\ mem' = SetWord(mem, map[p].frame, o, w)
  /\ UNCHANGED size

DmaRead(p) ==
  /\ Permitted(p, FALSE, TRUE)
  /\ map' = MapAddr(map, p, FALSE)
  /\ UNCHANGED <<size, ram, mem>>

-----------------------------------------------------------------------------
Next ==
  \E p \in RamZone :
    \/ \E e \in Entries : InstallEntry(p, e)
    \/ \E o \in Offsets, b \in Bytes, sup \in BOOLEAN : CpuWrite8(p, o, b, sup)
    \/ \E o \in WordOffsets, w \in Words, sup \in BOOLEAN : CpuWrite16(p, o, w, sup)
    \/ \E o \in WordOffsets, w, x \in Words, sup \in BOOLEAN : CpuWrite32(p, o, w, x, sup)
    \/ \E q \in {p, p + 1} \cap RamZone, sup \in BOOLEAN : CpuRead(p, q, sup)
    \/ \E o \in WordOffsets, w \in Words : DmaWrite(p, o, w)
    \/ DmaRead(p)

Spec == Init /\ [][Next]_vars

-----------------------------------------------------------------------------
(* What the memory promises.                                                *)

\* Installed RAM is memory: whatever sizes are configured, each byte reads, for
\* the CPU, the DMA engine and the debugger, as the byte last stored there by
\* any of them, in an access of any width, and no store to another place, also
\* to memory that is not there, changes it (the masks and checks of
\* ram_read_16, ram_write_16, the m68k_* functions and the engine in main.c).
HoldsLastWritten ==
  \A a \in DOMAIN mem : Load(a[1], a[2]) = mem[a] /\ DebugLoad(a[1], a[2]) = mem[a]

\* The pager trusts the status bits with the contents: a step that changes a
\* byte of installed RAM leaves a page of that frame dirty, also when the byte
\* belongs to the second word of an access or comes from a disc.
ChangedPageIsDirty ==
  [][ram' # ram =>
       \A a \in DOMAIN mem :
         Load(a[1], a[2])' # Load(a[1], a[2]) =>
           \E p \in RamZone : map[p].frame = a[1] /\ map'[p].st = Dirty]_vars
=============================================================================
