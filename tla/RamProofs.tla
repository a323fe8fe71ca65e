------------------------------ MODULE RamProofs ------------------------------
(***************************************************************************)
(* Proofs about the RAM behind the page map: for any number of pages,      *)
(* frames and bytes, any entries the guest installs, and every choice of   *)
(* sizes that are powers of two.  The hypothesis is the one the masks of   *)
(* memory.h need; 1536K, which main.c also accepts, is the run ram_1536k.  *)
(***************************************************************************)
EXTENDS Ram, TLAPS

\* The sizes in banks of which the masks are made for: all of validate_memory's
\* but 1536K.
PowersOfTwo == {1, 2, 4} \X {0, 1, 2, 4}

USE DEF Absent, Present, Accessed, Dirty

\* The arrays r hold bytes and have the configured sizes.
IsRam(r) ==
  /\ DOMAIN r = Arrays
  /\ \A x \in Arrays : r[x] \in [Cells(size[x]) -> Bytes]

Places == InstalledIn(size) \X Offsets

\* The arrays r hold, in its cell, the byte m has for each installed place.
Held(r, m) ==
  /\ IsRam(r) /\ m \in [Places -> Bytes]
  /\ \A f \in InstalledIn(size), o \in Offsets : r[Array(f)][Cell(f, o)] = m[<<f, o>>]

\* From r to s only bytes of the frames F change.
ChangesOnly(r, s, F) ==
  \A f \in InstalledIn(size), o \in Offsets :
    f \notin F => s[Array(f)][Cell(f, o)] = r[Array(f)][Cell(f, o)]

Configured ==
  /\ size \in [Arrays -> {0, 1, 2, 4}] /\ size["base"] # 0
  /\ map \in RamMaps

IInv == Configured /\ Held(ram, mem)

-----------------------------------------------------------------------------
(* The masks.                                                               *)

\* A mask of ones leaves the numbers it is a mask for alone.
LEMMA AndFacts ==
  ASSUME NEW n \in {1, 2, 4}, NEW b \in 0..(n - 1)
  PROVE  And(b, n - 1) = b
<1>1. CASE n = 1
  BY <1>1 DEF And
<1>2. CASE n = 2
  BY <1>2 DEF And
<1>3. CASE n = 4
  BY <1>3 DEF And
<1> QED
  BY <1>1, <1>2, <1>3

\* An installed frame is one within the array, and its cells are its own.
LEMMA FrameFacts ==
  ASSUME Configured, NEW f \in Frames
  PROVE  /\ Within(f) <=> f \in InstalledIn(size)
         /\ Array(f) \in Arrays
         /\ \A o \in Offsets : Within(f) =>
              /\ Cell(f, o) = <<BankInArray(f), f[2], o>>
              /\ Cell(f, o) \in Cells(size[Array(f)])
<1>1. /\ f[1] \in 0..7 /\ f[2] \in FrameNumbers
      /\ BankInArray(f) \in 0..3 /\ Array(f) \in Arrays
      /\ size[Array(f)] \in {0, 1, 2, 4}
  BY DEF Frames, BankInArray, Array, Arrays, Configured
<1>2. Within(f) <=> f \in InstalledIn(size)
  BY <1>1 DEF Within, InstalledIn, BankInArray, Array
<1>3. ASSUME NEW o \in Offsets, Within(f)
      PROVE  /\ Cell(f, o) = <<BankInArray(f), f[2], o>>
             /\ Cell(f, o) \in Cells(size[Array(f)])
  <2>1. /\ size[Array(f)] \in {1, 2, 4}
        /\ BankInArray(f) \in 0..(size[Array(f)] - 1)
    BY <1>1, <1>3 DEF Within
  <2>2. Cell(f, o) = <<BankInArray(f), f[2], o>>
    BY <2>1, AndFacts DEF Cell
  <2> QED
    BY <1>1, <2>1, <2>2 DEF Cells
<1> QED
  BY <1>1, <1>2, <1>3

LEMMA CellsApart ==
  ASSUME Configured, NEW f \in InstalledIn(size), NEW g \in InstalledIn(size),
         NEW o \in Offsets, NEW q \in Offsets,
         Array(f) = Array(g), Cell(f, o) = Cell(g, q)
  PROVE  f = g /\ o = q
<1>1. f \in Frames /\ g \in Frames
  BY DEF InstalledIn
<1>2. BankInArray(f) = BankInArray(g) /\ f[2] = g[2] /\ o = q
  BY <1>1, FrameFacts
<1>3. f[1] = g[1]
  BY <1>1, <1>2 DEF Frames, BankInArray, Array
<1> QED
  BY <1>1, <1>2, <1>3 DEF Frames

-----------------------------------------------------------------------------
(* Stores.                                                                  *)

\* A byte stored in installed RAM is held, and no other place changes.
LEMMA InstalledStore ==
  ASSUME Configured, NEW r, NEW m, Held(r, m),
         NEW f \in InstalledIn(size), NEW o \in Offsets, NEW b \in Bytes
  PROVE  /\ Held(DmaStore(r, f, o, b), Set(m, f, o, b))
         /\ ChangesOnly(r, DmaStore(r, f, o, b), {f})
<1> DEFINE s == DmaStore(r, f, o, b)
           x == Array(f)
           c == Cell(f, o)
<1>1. f \in Frames /\ x \in Arrays /\ c \in Cells(size[x])
  BY FrameFacts DEF InstalledIn
<1>2. DOMAIN r = Arrays /\ \A y \in Arrays : r[y] \in [Cells(size[y]) -> Bytes]
  BY DEF Held, IsRam
<1>3. s = [r EXCEPT ![x] = [r[x] EXCEPT ![c] = b]]
  BY <1>1, <1>2 DEF DmaStore
<1> HIDE DEF s, x, c
<1>4. /\ DOMAIN s = Arrays
      /\ s[x] = [r[x] EXCEPT ![c] = b]
      /\ \A y \in Arrays : y # x => s[y] = r[y]
  BY <1>1, <1>2, <1>3
<1>5. IsRam(s)
  <2> SUFFICES ASSUME NEW y \in Arrays PROVE s[y] \in [Cells(size[y]) -> Bytes]
    BY <1>4 DEF IsRam
  <2>1. CASE y = x
    BY <1>1, <1>2, <1>4, <2>1
  <2>2. CASE y # x
    BY <1>2, <1>4, <2>2
  <2> QED
    BY <2>1, <2>2
<1>6. ASSUME NEW g \in InstalledIn(size), NEW q \in Offsets
      PROVE  s[Array(g)][Cell(g, q)] = IF g = f /\ q = o THEN b ELSE r[Array(g)][Cell(g, q)]
  <2>1. Array(g) \in Arrays /\ Cell(g, q) \in Cells(size[Array(g)])
    BY FrameFacts DEF InstalledIn
  <2>2. CASE g = f /\ q = o
    BY <1>1, <1>2, <1>4, <2>2 DEF x, c
  <2>3. CASE ~(g = f /\ q = o)
    <3>1. Array(g) # x \/ Cell(g, q) # c
      BY <2>3, CellsApart DEF x, c
    <3>2. CASE Array(g) # x
      BY <1>4, <2>1, <2>3, <3>2
    <3>3. CASE Array(g) = x /\ Cell(g, q) # c
      BY <1>2, <1>4, <2>1, <2>3, <3>3
    <3> QED
      BY <3>1, <3>2, <3>3
  <2> QED
    BY <2>2, <2>3
<1>7. /\ Set(m, f, o, b) \in [Places -> Bytes]
      /\ \A g \in InstalledIn(size), q \in Offsets :
           Set(m, f, o, b)[<<g, q>>] = IF g = f /\ q = o THEN b ELSE m[<<g, q>>]
  BY DEF Held, Set, Places
<1>8. \A g \in InstalledIn(size), q \in Offsets :
        r[Array(g)][Cell(g, q)] = m[<<g, q>>]
  BY DEF Held
<1> QED
  BY <1>5, <1>6, <1>7, <1>8 DEF Held, ChangesOnly, s

\* The CPU's store likewise, and to RAM that is not there it changes nothing.
LEMMA CpuStoreFacts ==
  ASSUME Configured, NEW r, NEW m, Held(r, m),
         NEW f \in Frames, NEW o \in Offsets, NEW b \in Bytes
  PROVE  /\ Held(CpuStore(r, f, o, b), Set(m, f, o, b))
         /\ ChangesOnly(r, CpuStore(r, f, o, b), {f})
<1>1. CASE f \in InstalledIn(size)
  BY <1>1, FrameFacts, InstalledStore DEF CpuStore
<1>2. CASE f \notin InstalledIn(size)
  <2>1. CpuStore(r, f, o, b) = r
    BY <1>2, FrameFacts DEF CpuStore
  <2>2. Set(m, f, o, b) = m
    BY <1>2 DEF Held, Set, Places
  <2> QED
    BY <2>1, <2>2 DEF ChangesOnly
<1> QED
  BY <1>1, <1>2

\* An aligned offset leaves room for a word.
LEMMA WordFacts ==
  ASSUME NEW o \in WordOffsets
  PROVE  o \in Offsets /\ o + 1 \in Offsets
  BY RamAssumption DEF WordOffsets, Offsets

LEMMA CpuStoreWordFacts ==
  ASSUME Configured, NEW r, NEW m, Held(r, m),
         NEW f \in Frames, NEW o \in WordOffsets, NEW w \in Words
  PROVE  /\ Held(CpuStoreWord(r, f, o, w), SetWord(m, f, o, w))
         /\ ChangesOnly(r, CpuStoreWord(r, f, o, w), {f})
<1> DEFINE s == CpuStore(r, f, o, w[1])
<1>1. w[1] \in Bytes /\ w[2] \in Bytes
  BY DEF Words
<1>2. Held(s, Set(m, f, o, w[1])) /\ ChangesOnly(r, s, {f})
  BY <1>1, WordFacts, CpuStoreFacts
<1> HIDE DEF s
<1>3. /\ Held(CpuStore(s, f, o + 1, w[2]), Set(Set(m, f, o, w[1]), f, o + 1, w[2]))
      /\ ChangesOnly(s, CpuStore(s, f, o + 1, w[2]), {f})
  BY <1>1, <1>2, WordFacts, CpuStoreFacts
<1> QED
  BY <1>2, <1>3 DEF s, CpuStoreWord, SetWord, ChangesOnly

LEMMA DmaStoreWordFacts ==
  ASSUME Configured, NEW r, NEW m, Held(r, m),
         NEW f \in InstalledIn(size), NEW o \in WordOffsets, NEW w \in Words
  PROVE  /\ Held(DmaStoreWord(r, f, o, w), SetWord(m, f, o, w))
         /\ ChangesOnly(r, DmaStoreWord(r, f, o, w), {f})
<1> DEFINE s == DmaStore(r, f, o, w[1])
<1>1. w[1] \in Bytes /\ w[2] \in Bytes
  BY DEF Words
<1>2. Held(s, Set(m, f, o, w[1])) /\ ChangesOnly(r, s, {f})
  BY <1>1, WordFacts, InstalledStore
<1> HIDE DEF s
<1>3. /\ Held(DmaStore(s, f, o + 1, w[2]), Set(Set(m, f, o, w[1]), f, o + 1, w[2]))
      /\ ChangesOnly(s, DmaStore(s, f, o + 1, w[2]), {f})
  BY <1>1, <1>2, WordFacts, InstalledStore
<1> QED
  BY <1>2, <1>3 DEF s, DmaStoreWord, SetWord, ChangesOnly

-----------------------------------------------------------------------------
(* The map.                                                                 *)

\* A permitted write leaves its page dirty, and mapAddr no other page cleaner.
LEMMA MapFacts ==
  ASSUME NEW m \in RamMaps, NEW p \in RamZone, NEW w \in BOOLEAN, m[p].st # Absent
  PROVE  /\ MapAddr(m, p, w) \in RamMaps
         /\ \A q \in RamZone : /\ MapAddr(m, p, w)[q].frame = m[q].frame
                               /\ m[q].st # Absent => MapAddr(m, p, w)[q].st # Absent
                               /\ m[q].st = Dirty => MapAddr(m, p, w)[q].st = Dirty
         /\ w => MapAddr(m, p, w)[p].st = Dirty
<1> DEFINE t == Touched(m[p].st, w)
<1>1. /\ t \in PageStatus /\ t # Absent /\ (m[p].st = Dirty => t = Dirty)
      /\ w => t = Dirty
  BY DEF Touched, RamMaps, PageStatus
<1>2. MapAddr(m, p, w) = [m EXCEPT ![p].st = t]
  BY DEF MapAddr
<1> HIDE DEF t
<1> QED
  BY <1>1, <1>2 DEF RamMaps

LEMMA PermittedFacts ==
  ASSUME Configured, NEW p \in RamZone, NEW w \in BOOLEAN, NEW any \in BOOLEAN,
         Permitted(p, w, any)
  PROVE  map[p].st # Absent /\ map[p].frame \in Frames
<1>1. p \in Nat /\ p < RamPages /\ map[p].frame \in Frames
  BY PageMapAssumption DEF RamZone, Configured, RamMaps
<1>2. ASSUME map[p].st = Absent PROVE CheckMemoryAccess(map, p, w, any) = "MEM_PAGEFAULT"
  BY <1>1, <1>2, PageMapAssumption DEF CheckMemoryAccess, RamZone
<1> QED
  BY <1>1, <1>2 DEF Permitted

\* Both pages of an access of two words.
LEMMA MapPairFacts ==
  ASSUME Configured, NEW p \in RamZone, NEW q \in RamZone, NEW w \in BOOLEAN,
         NEW any \in BOOLEAN, Permitted(p, w, any), Permitted(q, w, any)
  PROVE  /\ MapPair(map, p, q, w) \in RamMaps
         /\ w => \A z \in {p, q} : MapPair(map, p, q, w)[z].st = Dirty
<1> DEFINE m == MapAddr(map, p, w)
<1>1. map \in RamMaps /\ map[p].st # Absent /\ map[q].st # Absent
  BY PermittedFacts DEF Configured
<1>2. m \in RamMaps /\ m[q].st # Absent /\ (w => m[p].st = Dirty)
  BY <1>1, MapFacts
<1> HIDE DEF m
<1>3. /\ MapAddr(m, q, w) \in RamMaps
      /\ w => MapAddr(m, q, w)[q].st = Dirty /\ MapAddr(m, q, w)[p].st = Dirty
  BY <1>1, <1>2, MapFacts
<1> QED
  BY <1>3 DEF MapPair, m

-----------------------------------------------------------------------------
(* The steps.                                                               *)

\* What a step may do to the memory: keep it, or store in the frames of pages
\* that it leaves dirty.
Stores(F) ==
  /\ Held(ram', mem') /\ ChangesOnly(ram, ram', F)
  /\ \A f \in F : \E p \in RamZone : map[p].frame = f /\ map'[p].st = Dirty

LEMMA CpuWrite8Facts ==
  ASSUME IInv, NEW p \in RamZone, NEW o \in Offsets, NEW b \in Bytes, NEW sup \in BOOLEAN,
         CpuWrite8(p, o, b, sup)
  PROVE  size' = size /\ map' \in RamMaps /\ Stores({map[p].frame})
<1>1. map[p].st # Absent /\ map[p].frame \in Frames
  BY PermittedFacts DEF IInv, CpuWrite8
<1>2. map' \in RamMaps /\ map'[p].st = Dirty
  BY <1>1, MapFacts DEF IInv, Configured, CpuWrite8
<1> QED
  BY <1>1, <1>2, CpuStoreFacts DEF IInv, CpuWrite8, Stores

LEMMA CpuWrite16Facts ==
  ASSUME IInv, NEW p \in RamZone, NEW o \in WordOffsets, NEW w \in Words, NEW sup \in BOOLEAN,
         CpuWrite16(p, o, w, sup)
  PROVE  size' = size /\ map' \in RamMaps /\ Stores({map[p].frame})
<1>1. map[p].st # Absent /\ map[p].frame \in Frames
  BY PermittedFacts DEF IInv, CpuWrite16
<1>2. map' \in RamMaps /\ map'[p].st = Dirty
  BY <1>1, MapFacts DEF IInv, Configured, CpuWrite16
<1> QED
  BY <1>1, <1>2, CpuStoreWordFacts DEF IInv, CpuWrite16, Stores

LEMMA CpuWrite32Facts ==
  ASSUME IInv, NEW p \in RamZone, NEW o \in WordOffsets, NEW w \in Words, NEW x \in Words,
         NEW sup \in BOOLEAN, CpuWrite32(p, o, w, x, sup)
  PROVE  size' = size /\ map' \in RamMaps
         /\ Stores({map[p].frame, map[SecondPage(p, o)].frame})
<1> DEFINE q == SecondPage(p, o)
           f == map[p].frame
           g == map[q].frame
           r == CpuStoreWord(ram, f, o, w)
           m == SetWord(mem, f, o, w)
<1>1. /\ q \in RamZone /\ Permitted(p, TRUE, sup) /\ Permitted(q, TRUE, sup)
      /\ map' = MapPair(map, p, q, TRUE) /\ size' = size
      /\ ram' = CpuStoreWord(r, g, SecondOffset(o), x)
      /\ mem' = SetWord(m, g, SecondOffset(o), x)
  BY DEF CpuWrite32
<1>2. SecondOffset(o) \in WordOffsets
  BY RamAssumption DEF SecondOffset, WordOffsets, Offsets
<1> HIDE DEF q
<1>3. f \in Frames /\ g \in Frames
  BY <1>1, PermittedFacts DEF IInv
<1>4. map' \in RamMaps /\ \A z \in {p, q} : map'[z].st = Dirty
  BY <1>1, MapPairFacts DEF IInv
<1>5. Held(r, m) /\ ChangesOnly(ram, r, {f})
  BY <1>3, CpuStoreWordFacts DEF IInv
<1> HIDE DEF r, m
<1>6. Held(ram', mem') /\ ChangesOnly(r, ram', {g})
  BY <1>1, <1>2, <1>3, <1>5, CpuStoreWordFacts DEF IInv
<1>7. ChangesOnly(ram, ram', {f, g})
  BY <1>5, <1>6 DEF ChangesOnly
<1> QED
  BY <1>1, <1>4, <1>6, <1>7 DEF Stores, q

LEMMA DmaWriteFacts ==
  ASSUME IInv, NEW p \in RamZone, NEW o \in WordOffsets, NEW w \in Words, DmaWrite(p, o, w)
  PROVE  size' = size /\ map' \in RamMaps /\ Stores({map[p].frame})
<1>1. map[p].st # Absent
  BY PermittedFacts DEF IInv, DmaWrite
<1>2. map' \in RamMaps /\ map'[p].st = Dirty
  BY <1>1, MapFacts DEF IInv, Configured, DmaWrite
<1> QED
  BY <1>2, DmaStoreWordFacts DEF IInv, DmaWrite, Stores

LEMMA OtherFacts ==
  ASSUME IInv, NEW p \in RamZone,
         \/ \E e \in Entries : InstallEntry(p, e)
         \/ \E q \in {p, p + 1} \cap RamZone, sup \in BOOLEAN : CpuRead(p, q, sup)
         \/ DmaRead(p)
  PROVE  UNCHANGED <<size, ram, mem>> /\ map' \in RamMaps
<1>1. ASSUME NEW e \in Entries, InstallEntry(p, e)
      PROVE  UNCHANGED <<size, ram, mem>> /\ map' \in RamMaps
  BY <1>1, RamAssumption DEF InstallEntry, IInv, Configured, RamMaps, Frames, FrameNumbers
<1>2. ASSUME NEW q \in {p, p + 1} \cap RamZone, NEW sup \in BOOLEAN, CpuRead(p, q, sup)
      PROVE  UNCHANGED <<size, ram, mem>> /\ map' \in RamMaps
  BY <1>2, MapPairFacts DEF CpuRead, IInv
<1>3. CASE DmaRead(p)
  BY <1>3, PermittedFacts, MapFacts DEF DmaRead, IInv, Configured
<1> QED
  BY <1>1, <1>2, <1>3

\* A step stores nothing, or in frames of pages that it leaves dirty.
LEMMA StepFacts ==
  ASSUME IInv, [Next]_vars
  PROVE  /\ size' = size /\ map' \in RamMaps
         /\ UNCHANGED <<ram, mem>> \/ \E F : Stores(F)
<1>1. CASE UNCHANGED vars
  BY <1>1 DEF vars, IInv, Configured
<1>2. ASSUME NEW p \in RamZone, NEW o \in Offsets, NEW b \in Bytes, NEW sup \in BOOLEAN,
             CpuWrite8(p, o, b, sup)
      PROVE  size' = size /\ map' \in RamMaps /\ \E F : Stores(F)
  BY <1>2, CpuWrite8Facts
<1>3. ASSUME NEW p \in RamZone, NEW o \in WordOffsets, NEW w \in Words, NEW sup \in BOOLEAN,
             CpuWrite16(p, o, w, sup)
      PROVE  size' = size /\ map' \in RamMaps /\ \E F : Stores(F)
  BY <1>3, CpuWrite16Facts
<1>4. ASSUME NEW p \in RamZone, NEW o \in WordOffsets, NEW w \in Words, NEW x \in Words,
             NEW sup \in BOOLEAN, CpuWrite32(p, o, w, x, sup)
      PROVE  size' = size /\ map' \in RamMaps /\ \E F : Stores(F)
  <2>1. SecondPage(p, o) \in RamZone
    BY <1>4 DEF CpuWrite32
  <2> QED
    BY <1>4, <2>1, CpuWrite32Facts
<1>5. ASSUME NEW p \in RamZone, NEW o \in WordOffsets, NEW w \in Words, DmaWrite(p, o, w)
      PROVE  size' = size /\ map' \in RamMaps /\ \E F : Stores(F)
  BY <1>5, DmaWriteFacts
<1> QED
  BY <1>1, <1>2, <1>3, <1>4, <1>5, OtherFacts DEF Next

LEMMA InitIInv == ASSUME RamSizes \subseteq PowersOfTwo, Init PROVE IInv
<1>1. size \in [Arrays -> {0, 1, 2, 4}] /\ size["base"] # 0
  BY DEF Init, PowersOfTwo, Arrays
<1>2. Configured
  BY <1>1, RamAssumption DEF Init, Configured, RamMaps, PageStatus, Frames, FrameNumbers
<1>3. IsRam(ram)
  BY DEF Init, IsRam, Arrays
<1>4. ASSUME NEW f \in InstalledIn(size), NEW o \in Offsets
      PROVE  Load(f, o) = ram[Array(f)][Cell(f, o)] /\ Load(f, o) \in Bytes
  <2>1. f \in Frames
    BY DEF InstalledIn
  <2>2. Within(f) /\ Array(f) \in Arrays /\ Cell(f, o) \in Cells(size[Array(f)])
    BY <1>2, <2>1, FrameFacts
  <2> QED
    BY <1>3, <2>2 DEF Load, IsRam
<1>5. Held(ram, mem)
  BY <1>3, <1>4 DEF Init, Held, Places
<1> QED
  BY <1>2, <1>5 DEF IInv

LEMMA NextKeepsIInv == IInv /\ [Next]_vars => IInv'
<1> SUFFICES ASSUME IInv, [Next]_vars PROVE IInv'
  OBVIOUS
<1>1. size' = size /\ map' \in RamMaps /\ Held(ram', mem')
  BY StepFacts DEF IInv, Stores
<1>2. Configured'
  BY <1>1 DEF IInv, Configured
<1>3. Held(ram, mem)'
  BY <1>1 DEF Held, IsRam, Places, InstalledIn, Cell
<1> QED
  BY <1>2, <1>3 DEF IInv

-----------------------------------------------------------------------------
\* What the CPU, the DMA engine and the debugger read of installed RAM.
LEMMA LoadFacts ==
  ASSUME IInv, NEW f \in InstalledIn(size), NEW o \in Offsets
  PROVE  Load(f, o) = ram[Array(f)][Cell(f, o)] /\ DebugLoad(f, o) = ram[Array(f)][Cell(f, o)]
<1>1. Within(f)
  BY FrameFacts DEF IInv, InstalledIn
<1> QED
  BY <1>1 DEF Load, DebugLoad

\* With sizes that are powers of two, installed RAM is memory: each byte reads as
\* it was last stored, whoever stored it, by whatever page, in any width.
THEOREM RamHoldsLastWritten ==
  ASSUME RamSizes \subseteq PowersOfTwo
  PROVE  Spec => []HoldsLastWritten
<1>1. IInv => HoldsLastWritten
  <2> SUFFICES ASSUME IInv, NEW a \in DOMAIN mem
               PROVE  Load(a[1], a[2]) = mem[a] /\ DebugLoad(a[1], a[2]) = mem[a]
    BY DEF HoldsLastWritten
  <2>1. a[1] \in InstalledIn(size) /\ a[2] \in Offsets /\ a = <<a[1], a[2]>>
    BY DEF IInv, Held, Places
  <2> QED
    BY <2>1, LoadFacts DEF IInv, Held
<1> QED
  BY <1>1, InitIInv, NextKeepsIInv, PTL DEF Spec

\* With the same sizes a byte of installed RAM changes only in a step that leaves
\* a page of its frame dirty, so that the pager may trust the status bits.
THEOREM ChangesLeaveDirty ==
  ASSUME RamSizes \subseteq PowersOfTwo
  PROVE  Spec => ChangedPageIsDirty
<1> DEFINE Marked == \A a \in DOMAIN mem :
                       Load(a[1], a[2])' # Load(a[1], a[2]) =>
                         \E p \in RamZone : map[p].frame = a[1] /\ map'[p].st = Dirty
<1>1. ASSUME IInv, [Next]_vars, ram' # ram PROVE Marked
  <2> SUFFICES ASSUME NEW a \in DOMAIN mem, Load(a[1], a[2])' # Load(a[1], a[2])
               PROVE  \E p \in RamZone : map[p].frame = a[1] /\ map'[p].st = Dirty
    OBVIOUS
  <2> DEFINE f == a[1]
             o == a[2]
  <2>1. f \in InstalledIn(size) /\ o \in Offsets
    BY <1>1 DEF IInv, Held, Places
  <2>2. PICK F : Stores(F)
    BY <1>1, StepFacts
  <2>3. IInv' /\ size' = size
    BY <1>1, StepFacts, NextKeepsIInv
  <2>4. Load(f, o) = ram[Array(f)][Cell(f, o)]
    BY <1>1, <2>1, LoadFacts
  <2>5. Load(f, o)' = ram'[Array(f)][Cell(f, o)]
    <3>1. Within(f)
      BY <1>1, <2>1, FrameFacts DEF IInv, InstalledIn
    <3> QED
      BY <2>3, <3>1 DEF Load, Within, Cell
  <2>6. f \in F
    BY <2>1, <2>2, <2>4, <2>5 DEF Stores, ChangesOnly
  <2> QED
    BY <2>2, <2>6 DEF Stores
<1>2. IInv /\ [Next]_vars => [ram' # ram => Marked]_vars
  BY <1>1
<1> QED
  BY <1>2, InitIInv, NextKeepsIInv, PTL DEF Spec, ChangedPageIsDirty
=============================================================================
