----------------------------- MODULE MmuProofs -----------------------------
(***************************************************************************)
(* Theorems about the memory management unit for every number of pages,    *)
(* every choice of the pages open to user code and every set of statuses   *)
(* the guest installs.  Each invariant is inductive given TypeOK, so each  *)
(* proof is the usual pair: the initial states, and one step per action.   *)
(***************************************************************************)
EXTENDS Mmu, TLAPS

USE DEF Absent, Present, Accessed, Dirty

\* What checkMemoryAccess says of a page in the RAM zone and above it.
LEMMA CheckFacts ==
  ASSUME NEW m \in Maps, NEW p \in AddressPages,
         NEW w \in BOOLEAN, NEW any \in BOOLEAN
  PROVE  LET v == CheckMemoryAccess(m, p, w, any)
         IN /\ v \in Faults \cup {"MEM_ALLOWED"}
            /\ v = "MEM_ALLOWED" /\ p \in RamZone => m[p].st # Absent
            /\ v = "MEM_ALLOWED" /\ p \in RamZone /\ ~any =>
                 p >= KernelPages /\ (w => m[p].we)
            /\ v = "MEM_PAGEFAULT" => p \in RamZone /\ m[p].st = Absent
            /\ v \in Faults => CheckMemoryAccess(m, p, w, FALSE) \in Faults
  BY PageMapAssumption, SMTT(30)
  DEF CheckMemoryAccess, Faults, Maps, Entry, PageStatus, RamZone, AddressPages

\* mapAddr keeps the shape of the map, the other entries and the write enable.
LEMMA MapAddrFacts ==
  ASSUME NEW m \in Maps, NEW p \in RamZone, NEW w \in BOOLEAN
  PROVE  /\ MapAddr(m, p, w) \in Maps
         /\ \A q \in RamZone : MapAddr(m, p, w)[q].we = m[q].we
         /\ \A q \in RamZone :
              MapAddr(m, p, w)[q].st = IF q = p THEN Touched(m[p].st, w)
                                                ELSE m[q].st
  BY SMTT(30) DEF MapAddr, Touched, Maps, Entry, PageStatus

LEMMA UsedFacts ==
  ASSUME NEW h \in [RamZone -> Hist], NEW p \in RamZone, NEW w \in BOOLEAN
  PROVE  /\ Used(h, p, w) \in [RamZone -> Hist]
         /\ \A q \in RamZone : Used(h, p, w)[q].inst = h[q].inst
         /\ \A q \in RamZone :
              Used(h, p, w)[q].used =
                IF q # p THEN h[q].used
                ELSE IF w \/ h[p].used = Dirty THEN Dirty ELSE Accessed
  BY SMTT(30) DEF Used, Hist, PageStatus

\* The verdict on the two words of a permitted access.
LEMMA PermittedFacts ==
  ASSUME TypeOK, NEW a \in AddressPages, NEW b \in AddressPages,
         NEW w \in BOOLEAN, NEW sup \in BOOLEAN, Permitted(a, b, w, sup)
  PROVE  \A p \in {a, b} : p \in RamZone =>
           /\ map[p].st # Absent
           /\ ~sup => p >= KernelPages /\ (w => map[p].we)
<1>1. map \in Maps
  BY DEF TypeOK
<1>2. ASSUME NEW p \in {a, b}, p \in RamZone
      PROVE  map[p].st # Absent /\ (~sup => p >= KernelPages /\ (w => map[p].we))
  <2>1. p \in AddressPages /\ CheckMemoryAccess(map, p, w, sup) = "MEM_ALLOWED"
    BY <1>2 DEF Permitted, Verdict
  <2> QED
    BY <1>1, <1>2, <2>1, CheckFacts
<1> QED
  BY <1>2

-----------------------------------------------------------------------------
\* A write to the map RAM replaces the entries of pages of the RAM zone.
LEMMA MapRamFacts ==
  ASSUME NEW p \in RamZone, NEW wide \in BOOLEAN, WriteMapRam(p, wide)
  PROVE  \E ps \in SUBSET RamZone :
           \E e \in [ps -> [st : InstallStatus, we : BOOLEAN]] : Installed(ps, e)
<1>1. (p + 1) % RamPages \in RamZone
  BY PageMapAssumption DEF RamZone
<1> QED
  BY <1>1 DEF WriteMapRam

\* The steps that touch the map or the history; every other leaves both alone.
LEMMA MapSteps ==
  ASSUME [Next]_vars
  PROVE  \/ \E a \in AddressPages, w, sup \in BOOLEAN : \E b \in {a, a + 1} :
              CpuMapped(a, b, w, sup) \/ CpuOffTheEnd(a, b, w, sup)
         \/ \E p \in RamZone, wide \in BOOLEAN : WriteMapRam(p, wide)
         \/ \E p \in 0..RamPages, reading \in BOOLEAN : DmaMapped(p, reading)
         \/ UNCHANGED <<map, hist, userUse>>
<1>1. ASSUME CpuAccess
      PROVE  \/ \E a \in AddressPages, w, sup \in BOOLEAN : \E b \in {a, a + 1} :
                  CpuMapped(a, b, w, sup) \/ CpuOffTheEnd(a, b, w, sup)
             \/ UNCHANGED <<map, hist, userUse>>
  <2>1. PICK a \in AddressPages, w, sup \in BOOLEAN : \E b \in {a, a + 1} :
          \/ CpuMapped(a, b, w, sup) \/ CpuOffTheEnd(a, b, w, sup)
          \/ CpuRefused(a, b, w, sup) \/ CpuElsewhere(a, b, w, sup)
    BY <1>1 DEF CpuAccess
  <2>2. ASSUME NEW b \in {a, a + 1},
               CpuRefused(a, b, w, sup) \/ CpuElsewhere(a, b, w, sup)
        PROVE  UNCHANGED <<map, hist, userUse>>
    BY <2>2 DEF CpuRefused, CpuElsewhere, ghosts
  <2> QED
    BY <2>1, <2>2
<1>2. ASSUME RegisterAccess
      PROVE  \/ \E p \in RamZone, wide \in BOOLEAN : WriteMapRam(p, wide)
             \/ UNCHANGED <<map, hist, userUse>>
  BY <1>2 DEF RegisterAccess, ClearStatus, WriteEE, WriteROMLMAP, ghosts
<1>3. ASSUME DmaAccess
      PROVE  \/ \E p \in 0..RamPages, reading \in BOOLEAN : DmaMapped(p, reading)
             \/ UNCHANGED <<map, hist, userUse>>
  BY <1>3 DEF DmaAccess, DmaRefused, ghosts
<1> QED
  BY <1>1, <1>2, <1>3 DEF Next, vars, ghosts

LEMMA InitTypeOK == Init => TypeOK
<1> SUFFICES ASSUME Init PROVE TypeOK
  OBVIOUS
<1> USE PageMapAssumption DEF Init
<1>1. map \in Maps
  BY DEF Maps, Entry, PageStatus
<1>2. genstat \in GenStat /\ bsr \in Bsr
  BY DEF GenStat, Bsr, AddressPages
<1>3. hist \in [RamZone -> Hist]
  BY DEF Hist, PageStatus
<1>4. userUse \in [read : SUBSET RamZone, written : SUBSET RamZone]
  OBVIOUS
<1> QED
  BY <1>1, <1>2, <1>3, <1>4 DEF TypeOK

LEMMA TypeOKStep == TypeOK /\ [Next]_vars => TypeOK'
<1> SUFFICES ASSUME TypeOK, [Next]_vars PROVE TypeOK'
  OBVIOUS
<1> USE PageMapAssumption, MmuAssumption
<1>1. ASSUME NEW a \in AddressPages, NEW b \in {a, a + 1},
             NEW w \in BOOLEAN, NEW sup \in BOOLEAN,
             CpuRefused(a, b, w, sup)
      PROVE  TypeOK'
  BY <1>1 DEF TypeOK, CpuRefused, IsAccess, FaultPage, FaultStatus, GenStat, Bsr,
     registers, ghosts
<1>2. ASSUME NEW a \in AddressPages, NEW b \in {a, a + 1},
             NEW w \in BOOLEAN, NEW sup \in BOOLEAN,
             CpuMapped(a, b, w, sup)
      PROVE  TypeOK'
  <2>1. a \in RamZone /\ b \in RamZone
    BY <1>2 DEF CpuMapped
  <2>2. map' \in Maps
    BY <1>2, <2>1, MapAddrFacts DEF CpuMapped, MapPair, TypeOK
  <2>3. hist' \in [RamZone -> Hist]
    BY <1>2, <2>1, UsedFacts DEF CpuMapped, TypeOK
  <2>4. userUse' \in [read : SUBSET RamZone, written : SUBSET RamZone]
    BY <1>2, <2>1 DEF CpuMapped, UserUsed, TypeOK
  <2> QED
    BY <1>2, <2>2, <2>3, <2>4 DEF CpuMapped, TypeOK, registers, latches
<1>3. ASSUME NEW a \in AddressPages, NEW b \in {a, a + 1},
             NEW w \in BOOLEAN, NEW sup \in BOOLEAN,
             CpuOffTheEnd(a, b, w, sup)
      PROVE  TypeOK'
  <2>1. a \in RamZone
    BY <1>3 DEF CpuOffTheEnd
  <2>2. map' \in Maps
    BY <1>3, <2>1, MapAddrFacts DEF CpuOffTheEnd, TypeOK
  <2>3. hist' \in [RamZone -> Hist]
    BY <1>3, <2>1, UsedFacts DEF CpuOffTheEnd, TypeOK
  <2>4. userUse' \in [read : SUBSET RamZone, written : SUBSET RamZone]
    BY <1>3, <2>1 DEF CpuOffTheEnd, UserUsed, TypeOK
  <2> QED
    BY <1>3, <2>2, <2>3, <2>4 DEF CpuOffTheEnd, TypeOK, registers, latches
<1>4. ASSUME NEW a \in AddressPages, NEW b \in {a, a + 1},
             NEW w \in BOOLEAN, NEW sup \in BOOLEAN,
             CpuElsewhere(a, b, w, sup)
      PROVE  TypeOK'
  BY <1>4 DEF TypeOK, CpuElsewhere, registers, latches, ghosts
<1>5. ASSUME NEW p \in RamZone, NEW wide \in BOOLEAN, WriteMapRam(p, wide)
      PROVE  TypeOK'
  <2>1. PICK ps \in SUBSET RamZone :
          \E e \in [ps -> [st : InstallStatus, we : BOOLEAN]] : Installed(ps, e)
    BY <1>5, MapRamFacts
  <2>2. PICK e \in [ps -> [st : InstallStatus, we : BOOLEAN]] : Installed(ps, e)
    BY <2>1
  <2>3. \A q \in ps : e[q] \in Entry
    BY <2>2 DEF Entry
  <2>4. map' \in Maps /\ hist' \in [RamZone -> Hist]
    BY <2>2, <2>3 DEF Installed, TypeOK, Maps, Entry, Hist
  <2>5. userUse' \in [read : SUBSET RamZone, written : SUBSET RamZone]
    BY <2>2 DEF Installed, TypeOK
  <2> QED
    BY <1>5, <2>4, <2>5 DEF WriteMapRam, TypeOK, registers, latches
<1>6. CASE ClearStatus
  BY <1>6 DEF TypeOK, ClearStatus, GenStat, Bsr, registers, ghosts
<1>7. ASSUME NEW v \in BOOLEAN, WriteEE(v) \/ WriteROMLMAP(v)
      PROVE  TypeOK'
  BY <1>7 DEF TypeOK, WriteEE, WriteROMLMAP, latches, ghosts
<1>8. ASSUME NEW p \in 0..RamPages, NEW reading \in BOOLEAN, DmaRefused(p, reading)
      PROVE  TypeOK'
  BY <1>8 DEF TypeOK, DmaRefused, FaultStatus, GenStat, Bsr, AddressPages,
     registers, ghosts
<1>9. ASSUME NEW p \in 0..RamPages, NEW reading \in BOOLEAN, DmaMapped(p, reading)
      PROVE  TypeOK'
  <2>1. CASE p \in RamZone
    <3>1. map' = MapAddr(map, p, ~reading) /\ hist' = Used(hist, p, ~reading)
      BY <1>9, <2>1 DEF DmaMapped
    <3>2. map' \in Maps /\ hist' \in [RamZone -> Hist]
      BY <2>1, <3>1, MapAddrFacts, UsedFacts DEF TypeOK
    <3> QED
      BY <1>9, <2>1, <3>2 DEF TypeOK, DmaMapped, registers, latches
  <2>2. CASE p \notin RamZone
    BY <1>9, <2>2 DEF TypeOK, DmaMapped, registers, latches
  <2> QED
    BY <2>1, <2>2
<1>10. CASE UNCHANGED vars
  BY <1>10 DEF TypeOK, vars, registers, latches, ghosts
<1> QED
  BY <1>1, <1>2, <1>3, <1>4, <1>5, <1>6, <1>7, <1>8, <1>9, <1>10
  DEF Next, CpuAccess, RegisterAccess, DmaAccess

\* Type correctness of the memory management unit.
THEOREM TypeCorrect == Spec => []TypeOK
  BY InitTypeOK, TypeOKStep, PTL DEF Spec

-----------------------------------------------------------------------------
(* The page status bits.                                                    *)

\* One completed word keeps the status of every page exact.
Exact(m, h) ==
  \A p \in RamZone :
    /\ m[p].st = IF h[p].used > h[p].inst THEN h[p].used ELSE h[p].inst
    /\ h[p].inst = Absent => h[p].used = Absent

LEMMA WordKeepsExact ==
  ASSUME NEW m \in Maps, NEW h \in [RamZone -> Hist], NEW p \in RamZone,
         NEW w \in BOOLEAN, Exact(m, h), m[p].st # Absent
  PROVE  /\ Exact(MapAddr(m, p, w), Used(h, p, w))
         /\ \A q \in RamZone : m[q].st # Absent => MapAddr(m, p, w)[q].st # Absent
<1> DEFINE mm == MapAddr(m, p, w)
           hh == Used(h, p, w)
<1>1. /\ \A q \in RamZone : m[q] \in Entry /\ h[q] \in Hist
      /\ \A q \in RamZone : q # p => mm[q].st = m[q].st /\ hh[q].used = h[q].used
      /\ \A q \in RamZone : hh[q].inst = h[q].inst
  BY MapAddrFacts, UsedFacts DEF Maps
<1>2. /\ mm[p].st = Touched(m[p].st, w)
      /\ hh[p].used = IF w \/ h[p].used = Dirty THEN Dirty ELSE Accessed
  BY MapAddrFacts, UsedFacts
<1>3. /\ m[p].st \in 1..3 /\ h[p].inst \in 0..3 /\ h[p].used \in {0, 2, 3}
      /\ m[p].st = IF h[p].used > h[p].inst THEN h[p].used ELSE h[p].inst
      /\ h[p].inst # 0
  BY <1>1 DEF Exact, Entry, Hist, PageStatus
<1>4. /\ mm[p].st = IF hh[p].used > hh[p].inst THEN hh[p].used ELSE hh[p].inst
      /\ hh[p].inst # Absent /\ mm[p].st # Absent
  BY <1>1, <1>2, <1>3 DEF Touched
<1> QED
  BY <1>1, <1>4 DEF Exact

LEMMA StatusExactStep == TypeOK /\ StatusExact /\ [Next]_vars => StatusExact'
<1> SUFFICES ASSUME TypeOK, Exact(map, hist), [Next]_vars
             PROVE  Exact(map', hist')
  BY DEF StatusExact, Exact
<1> USE PageMapAssumption, MmuAssumption
<1>1. map \in Maps /\ hist \in [RamZone -> Hist]
  BY DEF TypeOK
<1>2. ASSUME NEW a \in AddressPages, NEW b \in {a, a + 1},
             NEW w \in BOOLEAN, NEW sup \in BOOLEAN,
             CpuMapped(a, b, w, sup)
      PROVE  Exact(map', hist')
  <2>1. a \in RamZone /\ b \in RamZone /\ b \in AddressPages /\ Permitted(a, b, w, sup)
    BY <1>2 DEF CpuMapped, IsAccess
  <2>2. map[a].st # Absent /\ map[b].st # Absent
    BY <2>1, PermittedFacts
  <2> DEFINE m == MapAddr(map, a, w)
             h == Used(hist, a, w)
  <2>3. m \in Maps /\ h \in [RamZone -> Hist]
    BY <1>1, <2>1, MapAddrFacts, UsedFacts
  <2>4. Exact(m, h) /\ m[b].st # Absent
    BY <1>1, <2>1, <2>2, WordKeepsExact
  <2>5. Exact(MapAddr(m, b, w), Used(h, b, w))
    <3> HIDE DEF m, h
    <3> QED
      BY <2>1, <2>3, <2>4, WordKeepsExact
  <2> QED
    BY <1>2, <2>5 DEF CpuMapped, MapPair
<1>3. ASSUME NEW a \in AddressPages, NEW b \in {a, a + 1},
             NEW w \in BOOLEAN, NEW sup \in BOOLEAN,
             CpuOffTheEnd(a, b, w, sup)
      PROVE  Exact(map', hist')
  <2>1. a \in RamZone /\ b \in AddressPages /\ Permitted(a, b, w, sup)
    BY <1>3 DEF CpuOffTheEnd, IsAccess
  <2>2. map[a].st # Absent
    BY <2>1, PermittedFacts
  <2> QED
    BY <1>1, <1>3, <2>1, <2>2, WordKeepsExact DEF CpuOffTheEnd
<1>4. ASSUME NEW p \in RamZone, NEW wide \in BOOLEAN, WriteMapRam(p, wide)
      PROVE  Exact(map', hist')
  <2>1. PICK ps \in SUBSET RamZone :
          \E e \in [ps -> [st : InstallStatus, we : BOOLEAN]] : Installed(ps, e)
    BY <1>4, MapRamFacts
  <2>2. PICK e \in [ps -> [st : InstallStatus, we : BOOLEAN]] : Installed(ps, e)
    BY <2>1
  <2>3. \A q \in ps : e[q].st \in PageStatus
    BY <2>2
  <2>4. ASSUME NEW q \in RamZone, q \in ps
        PROVE  map'[q].st = hist'[q].inst /\ hist'[q].used = 0 /\ hist'[q].inst \in 0..3
    BY <2>2, <2>3, <2>4 DEF Installed, PageStatus
  <2>5. ASSUME NEW q \in RamZone, q \notin ps
        PROVE  map'[q] = map[q] /\ hist'[q] = hist[q]
    BY <2>2, <2>5 DEF Installed
  <2> QED
    BY <2>4, <2>5 DEF Exact
<1>5. ASSUME NEW p \in 0..RamPages, NEW reading \in BOOLEAN, DmaMapped(p, reading)
      PROVE  Exact(map', hist')
  <2>1. CASE p \in RamZone
    <3>1. p \in AddressPages /\ (~reading) \in BOOLEAN
      BY <2>1 DEF RamZone, AddressPages
    <3>2. map[p].st # Absent
      BY <1>1, <1>5, <2>1, <3>1, CheckFacts DEF DmaMapped, Verdict
    <3> QED
      BY <1>1, <1>5, <2>1, <3>1, <3>2, WordKeepsExact DEF DmaMapped
  <2>2. CASE p \notin RamZone
    BY <1>5, <2>2 DEF DmaMapped
  <2> QED
    BY <2>1, <2>2
<1>6. CASE UNCHANGED <<map, hist>>
  BY <1>6
<1> QED
  BY <1>2, <1>3, <1>4, <1>5, <1>6, MapSteps

\* The page status bits say exactly what was done to each page since the guest
\* installed its entry, for any number of pages.
THEOREM StatusBitsExact == Spec => []StatusExact
<1>1. Init => StatusExact
  BY DEF Init, StatusExact
<1> QED
  BY <1>1, InitTypeOK, TypeOKStep, StatusExactStep, PTL DEF Spec

-----------------------------------------------------------------------------
(* User mode.                                                               *)

LEMMA UserConfinedStep == TypeOK /\ UserConfined /\ [Next]_vars => UserConfined'
<1> SUFFICES ASSUME TypeOK, UserConfined, [Next]_vars PROVE UserConfined'
  OBVIOUS
<1> USE PageMapAssumption, MmuAssumption
<1>1. map \in Maps /\ userUse \in [read : SUBSET RamZone, written : SUBSET RamZone]
  BY DEF TypeOK
<1>2. ASSUME NEW a \in AddressPages, NEW b \in {a, a + 1},
             NEW w \in BOOLEAN, NEW sup \in BOOLEAN,
             CpuMapped(a, b, w, sup)
      PROVE  UserConfined'
  <2>1. a \in RamZone /\ b \in RamZone /\ b \in AddressPages /\ Permitted(a, b, w, sup)
    BY <1>2 DEF CpuMapped, IsAccess
  <2>2. \A p \in {a, b} : ~sup => p >= KernelPages /\ (w => map[p].we)
    BY <2>1, PermittedFacts
  <2>3. \A q \in RamZone : map'[q].we = map[q].we
    <3> DEFINE m == MapAddr(map, a, w)
    <3>1. m \in Maps /\ \A q \in RamZone : m[q].we = map[q].we
      BY <1>1, <2>1, MapAddrFacts
    <3>2. \A q \in RamZone : MapAddr(m, b, w)[q].we = m[q].we
      <4> HIDE DEF m
      <4> QED
        BY <2>1, <3>1, MapAddrFacts
    <3>3. map' = MapAddr(m, b, w)
      BY <1>2 DEF CpuMapped, MapPair
    <3> QED
      BY <3>1, <3>2, <3>3
  <2>4. userUse' = IF sup THEN userUse ELSE UserUsed(userUse, {a, b}, w)
    BY <1>2 DEF CpuMapped
  <2> QED
    BY <1>1, <2>1, <2>2, <2>3, <2>4 DEF UserConfined, UserUsed
<1>3. ASSUME NEW a \in AddressPages, NEW b \in {a, a + 1},
             NEW w \in BOOLEAN, NEW sup \in BOOLEAN,
             CpuOffTheEnd(a, b, w, sup)
      PROVE  UserConfined'
  <2>1. a \in RamZone /\ b \in AddressPages /\ Permitted(a, b, w, sup)
    BY <1>3 DEF CpuOffTheEnd, IsAccess
  <2>2. ~sup => a >= KernelPages /\ (w => map[a].we)
    BY <2>1, PermittedFacts
  <2>3. \A q \in RamZone : map'[q].we = map[q].we
    BY <1>1, <1>3, <2>1, MapAddrFacts DEF CpuOffTheEnd
  <2>4. userUse' = IF sup THEN userUse ELSE UserUsed(userUse, {a}, w)
    BY <1>3 DEF CpuOffTheEnd
  <2> QED
    BY <1>1, <2>1, <2>2, <2>3, <2>4 DEF UserConfined, UserUsed
<1>4. ASSUME NEW p \in RamZone, NEW wide \in BOOLEAN, WriteMapRam(p, wide)
      PROVE  UserConfined'
  <2>1. PICK ps \in SUBSET RamZone :
          \E e \in [ps -> [st : InstallStatus, we : BOOLEAN]] : Installed(ps, e)
    BY <1>4, MapRamFacts
  <2>2. userUse' = [read |-> userUse.read \ ps, written |-> userUse.written \ ps]
    BY <2>1 DEF Installed
  <2>3. \A q \in RamZone : q \notin ps => map'[q] = map[q]
    BY <2>1 DEF Installed
  <2> QED
    BY <1>1, <2>2, <2>3 DEF UserConfined
<1>5. ASSUME NEW p \in 0..RamPages, NEW reading \in BOOLEAN, DmaMapped(p, reading)
      PROVE  UserConfined'
  <2>1. \A q \in RamZone : map'[q].we = map[q].we
    <3>1. CASE p \in RamZone
      <4>1. map' = MapAddr(map, p, ~reading) /\ (~reading) \in BOOLEAN
        BY <1>5, <3>1 DEF DmaMapped
      <4>2. \A q \in RamZone : MapAddr(map, p, ~reading)[q].we = map[q].we
        BY <1>1, <3>1, <4>1, MapAddrFacts, ZenonT(60)
      <4> QED
        BY <4>1, <4>2
    <3>2. CASE p \notin RamZone
      BY <1>5, <3>2 DEF DmaMapped
    <3> QED
      BY <3>1, <3>2
  <2>2. userUse' = userUse
    BY <1>5 DEF DmaMapped
  <2> QED
    BY <1>1, <2>1, <2>2 DEF UserConfined
<1>6. CASE UNCHANGED <<map, hist, userUse>>
  BY <1>6 DEF UserConfined
<1> QED
  BY <1>2, <1>3, <1>4, <1>5, <1>6, MapSteps

\* No user-mode access completes in the kernel's pages, and no user-mode write
\* in a page without write enable, with either word of the access.
THEOREM UserModeConfined == Spec => []UserConfined
<1>1. Init => UserConfined
  BY DEF Init, UserConfined
<1> QED
  BY <1>1, InitTypeOK, TypeOKStep, UserConfinedStep, PTL DEF Spec

-----------------------------------------------------------------------------
(* Traps.                                                                   *)

\* One NMI per access of CSR, however often a refused DMA cycle is retried.
THEOREM OneNmiPerClear == Spec => []NmiOncePerClear
<1>1. Init => NmiOncePerClear
  BY DEF Init, NmiOncePerClear
<1>2. TypeOK /\ NmiOncePerClear /\ [Next]_vars => NmiOncePerClear'
  <2> SUFFICES ASSUME TypeOK, NmiOncePerClear, [Next]_vars PROVE NmiOncePerClear'
    OBVIOUS
  <2>1. ASSUME NEW p \in 0..RamPages, NEW reading \in BOOLEAN, DmaRefused(p, reading)
        PROVE  NmiOncePerClear'
    BY <2>1 DEF DmaRefused, NmiOncePerClear, TypeOK
  <2>2. CASE ClearStatus
    BY <2>2 DEF ClearStatus, NmiOncePerClear
  <2>3. CASE UNCHANGED <<nmi_latch, nmis>>
    BY <2>3 DEF NmiOncePerClear
  <2>4. CpuAccess => UNCHANGED <<nmi_latch, nmis>>
    <3> SUFFICES ASSUME CpuAccess PROVE UNCHANGED <<nmi_latch, nmis>>
      OBVIOUS
    <3>1. PICK a \in AddressPages, w, sup \in BOOLEAN : \E b \in {a, a + 1} :
            \/ CpuMapped(a, b, w, sup) \/ CpuOffTheEnd(a, b, w, sup)
            \/ CpuRefused(a, b, w, sup) \/ CpuElsewhere(a, b, w, sup)
      BY DEF CpuAccess
    <3> QED
      BY <3>1 DEF CpuRefused, CpuMapped, CpuOffTheEnd, CpuElsewhere, latches
  <2>5. RegisterAccess => ClearStatus \/ UNCHANGED <<nmi_latch, nmis>>
    BY DEF RegisterAccess, WriteMapRam, WriteEE, WriteROMLMAP, latches
  <2>6. DmaAccess => \/ UNCHANGED <<nmi_latch, nmis>>
                     \/ \E p \in 0..RamPages, reading \in BOOLEAN : DmaRefused(p, reading)
    BY DEF DmaAccess, DmaMapped, latches
  <2> QED
    BY <2>1, <2>2, <2>3, <2>4, <2>5, <2>6 DEF Next, vars, latches
<1> QED
  BY <1>1, <1>2, InitTypeOK, TypeOKStep, PTL DEF Spec

\* Only a refused access raises a bus error or an NMI.
LEMMA TrapSteps ==
  ASSUME [Next]_vars, trap' # "none", ~UNCHANGED vars
  PROVE  \/ \E a \in AddressPages, w, sup \in BOOLEAN : \E b \in {a, a + 1} :
              CpuRefused(a, b, w, sup)
         \/ \E p \in 0..RamPages, reading \in BOOLEAN : DmaRefused(p, reading)
<1>1. ~RegisterAccess
  BY DEF RegisterAccess, WriteMapRam, ClearStatus, WriteEE, WriteROMLMAP
<1>2. CpuAccess => \E a \in AddressPages, w, sup \in BOOLEAN : \E b \in {a, a + 1} :
                     CpuRefused(a, b, w, sup)
  BY DEF CpuAccess, CpuMapped, CpuOffTheEnd, CpuElsewhere
<1>3. DmaAccess => \E p \in 0..RamPages, reading \in BOOLEAN : DmaRefused(p, reading)
  BY DEF DmaAccess, DmaMapped
<1> QED
  BY <1>1, <1>2, <1>3 DEF Next

\* A step that raises a bus error or an NMI moves no page status bit.
THEOREM RefusedAccessHasNoEffect == Spec => RefusedHasNoEffect
<1>1. ASSUME [Next]_vars, trap' # "none", ~UNCHANGED vars
      PROVE  UNCHANGED <<map, ghosts>>
  <2>1. CASE \E a \in AddressPages, w, sup \in BOOLEAN : \E b \in {a, a + 1} :
               CpuRefused(a, b, w, sup)
    BY <2>1 DEF CpuRefused
  <2>2. CASE \E p \in 0..RamPages, reading \in BOOLEAN : DmaRefused(p, reading)
    BY <2>2 DEF DmaRefused
  <2> QED
    BY <1>1, <2>1, <2>2, TrapSteps
<1>2. [Next]_vars => [trap' # "none" => UNCHANGED <<map, ghosts>>]_vars
  BY <1>1
<1> QED
  BY <1>2, PTL DEF Spec, RefusedHasNoEffect

\* The page a fault latches in BSR is one that refuses the cycle, and a page
\* that is not present when GSR says page fault.
THEOREM LatchedPageIsRefusing == Spec => LatchedPageRefuses
<1> DEFINE Truth == IF ~genstat'.pf_n
                    THEN bsr'.page \in RamZone /\ map[bsr'.page].st = Absent
                    ELSE CheckMemoryAccess(map, bsr'.page, ~genstat'.rd, FALSE)
                           \in Faults
<1>1. ASSUME TypeOK, NEW a \in AddressPages, NEW w \in BOOLEAN, NEW sup \in BOOLEAN,
             NEW b \in {a, a + 1}, CpuRefused(a, b, w, sup)
      PROVE  Truth
  <2> DEFINE p == FaultPage(a, b, w, sup)
             kind == Verdict(p, w, sup)
  <2>1. p \in AddressPages /\ kind # "MEM_ALLOWED"
    BY <1>1 DEF CpuRefused, IsAccess, FaultPage, Permitted
  <2>2. map \in Maps
    BY <1>1 DEF TypeOK
  <2>3. /\ genstat'.pf_n = (kind # "MEM_PAGEFAULT") /\ (~genstat'.rd) = w
        /\ bsr'.page = p
    BY <1>1 DEF CpuRefused, FaultStatus
  <2>4. kind = CheckMemoryAccess(map, p, w, sup)
    BY DEF Verdict
  <2> HIDE DEF p, kind
  <2>5. /\ kind \in Faults
        /\ kind = "MEM_PAGEFAULT" => p \in RamZone /\ map[p].st = Absent
        /\ CheckMemoryAccess(map, p, w, FALSE) \in Faults
    <3>1. w \in BOOLEAN /\ sup \in BOOLEAN
      BY <1>1
    <3> QED
      BY <2>1, <2>2, <2>4, <3>1, CheckFacts, ZenonT(60)
  <2> QED
    BY <2>3, <2>5
<1>2. ASSUME TypeOK, NEW p \in 0..RamPages, NEW reading \in BOOLEAN,
             DmaRefused(p, reading)
      PROVE  Truth
  <2>1. p \in AddressPages /\ (~reading) \in BOOLEAN /\ map \in Maps
    BY <1>2, PageMapAssumption DEF AddressPages, TypeOK
  <2>2. Verdict(p, ~reading, TRUE) # "MEM_ALLOWED"
    BY <1>2 DEF DmaRefused
  <2>3. /\ Verdict(p, ~reading, TRUE) \in Faults
        /\ Verdict(p, ~reading, TRUE) = "MEM_PAGEFAULT" =>
             p \in RamZone /\ map[p].st = Absent
        /\ CheckMemoryAccess(map, p, ~reading, FALSE) \in Faults
    BY <2>1, <2>2, CheckFacts DEF Verdict
  <2>4. /\ genstat'.pf_n = (Verdict(p, ~reading, TRUE) # "MEM_PAGEFAULT")
        /\ genstat'.rd = reading /\ bsr'.page = p
    BY <1>2 DEF DmaRefused, FaultStatus
  <2> QED
    BY <2>3, <2>4
<1>3. TypeOK /\ [Next]_vars => [trap' # "none" => Truth]_vars
  BY <1>1, <1>2, TrapSteps
<1> QED
  BY <1>3, InitTypeOK, TypeOKStep, PTL DEF Spec, LatchedPageRefuses
=============================================================================
