---------------------------- MODULE WD2010Proofs ----------------------------
(***************************************************************************)
(* Proofs about the hard disc controller: that it is a block device for    *)
(* drives of any geometry, sector size and contents and for any driver,    *)
(* and what the task file and the interrupt mean meanwhile.                *)
(***************************************************************************)
EXTENDS WD2010, FiniteSetTheorems, FunctionTheorems, SequenceTheorems, TLAPS

-----------------------------------------------------------------------------
(* Arithmetic of sectors.                                                   *)

LEMMA TimesMonotone ==
  ASSUME NEW a \in Nat, NEW b \in Nat, NEW k \in Nat, a <= b
  PROVE  a * k <= b * k
  OBVIOUS

LEMMA TimesNext ==
  ASSUME NEW a \in Nat, NEW b \in Nat, NEW k \in Nat, a < b
  PROVE  a * k + k <= b * k
  OBVIOUS

LEMMA TimesSum ==
  ASSUME NEW a \in Nat, NEW b \in Nat, NEW k \in Nat
  PROVE  (a + b) * k = a * k + b * k
  OBVIOUS

LEMMA DivMod ==
  ASSUME NEW y \in Nat, NEW k \in Nat \ {0}
  PROVE  /\ y \div k \in Nat /\ y % k \in 0..(k - 1)
         /\ y = (y \div k) * k + (y % k)
  OBVIOUS

LEMMA DivUnique ==
  ASSUME NEW p \in Nat, NEW q \in Nat, NEW k \in Nat \ {0},
         NEW r \in 0..(k - 1), NEW s \in 0..(k - 1), p * k + r = q * k + s
  PROVE  p = q /\ r = s
<1>1. p * k \in Int /\ q * k \in Int
  OBVIOUS
<1>2. ~(p < q) /\ ~(q < p)
  BY <1>1, TimesNext
<1> QED
  BY <1>1, <1>2

-----------------------------------------------------------------------------
(* The number of a sector.                                                  *)

Grid == (0..(Tracks - 1)) \X (0..(Heads - 1)) \X (0..(Spt - 1))
Place(b) == (b[1] * Heads + b[2]) * Spt + b[3]
Total == (Tracks * Heads) * Spt

LEMMA Geometry == Tracks \in Nat \ {0} /\ Heads \in Nat \ {0} /\ Spt \in Nat \ {0} /\ SecWords \in Nat \ {0}
  BY WD2010Assumption

\* Tracks and heads together, as a first digit over the sector's.
LEMMA TrackPlace ==
  ASSUME NEW t \in 0..(Tracks - 1), NEW h \in 0..(Heads - 1)
  PROVE  t * Heads + h \in Nat /\ t * Heads + h < Tracks * Heads
<1>1. t * Heads + Heads <= Tracks * Heads
  BY Geometry, TimesNext
<1>2. t * Heads \in Nat /\ Tracks * Heads \in Nat
  BY Geometry
<1> QED
  BY <1>1, <1>2, Geometry

LEMMA PlaceFacts ==
  ASSUME NEW t \in 0..(Tracks - 1), NEW h \in 0..(Heads - 1), NEW s \in 0..Spt
  PROVE  /\ (t * Heads + h) * Spt + s \in Nat
         /\ (t * Heads + h) * Spt + Spt <= Total
<1>1. t * Heads + h \in Nat /\ t * Heads + h < Tracks * Heads /\ Tracks * Heads \in Nat
  BY TrackPlace, Geometry
<1>2. (t * Heads + h) * Spt + Spt <= (Tracks * Heads) * Spt
  BY <1>1, Geometry, TimesNext
<1> QED
  BY <1>1, <1>2, Geometry DEF Total

LEMMA TrackUnique ==
  ASSUME NEW t \in 0..(Tracks - 1), NEW u \in 0..(Tracks - 1),
         NEW h \in 0..(Heads - 1), NEW g \in 0..(Heads - 1), t * Heads + h = u * Heads + g
  PROVE  t = u /\ h = g
<1>1. t \in Nat /\ u \in Nat /\ Heads \in Nat \ {0}
  BY Geometry
<1> QED
  BY <1>1, DivUnique

\* No two sectors have one place, and every place is that of a sector.
LEMMA PlaceInjective ==
  ASSUME NEW b \in Grid, NEW c \in Grid, Place(b) = Place(c)
  PROVE  b = c
<1>1. /\ b[1] \in 0..(Tracks - 1) /\ b[2] \in 0..(Heads - 1) /\ b[3] \in 0..(Spt - 1)
      /\ c[1] \in 0..(Tracks - 1) /\ c[2] \in 0..(Heads - 1) /\ c[3] \in 0..(Spt - 1)
  BY DEF Grid
<1>2. b[1] * Heads + b[2] \in Nat /\ c[1] * Heads + c[2] \in Nat
  BY <1>1, TrackPlace
<1> DEFINE p == b[1] * Heads + b[2]
           q == c[1] * Heads + c[2]
<1>3. p = q /\ b[3] = c[3]
  <2>1. p \in Nat /\ q \in Nat /\ p * Spt + b[3] = q * Spt + c[3]
    BY <1>2 DEF Place
  <2> HIDE DEF p, q
  <2> QED
    BY <1>1, <2>1, Geometry, DivUnique
<1>4. b[1] = c[1] /\ b[2] = c[2]
  BY <1>1, <1>3, TrackUnique
<1> QED
  BY <1>3, <1>4 DEF Grid

LEMMA PlaceOnto ==
  ASSUME NEW y \in 0..(Total - 1) PROVE \E b \in Grid : Place(b) = y
<1> DEFINE q == y \div Spt
           s == y % Spt
           t == q \div Heads
           h == q % Heads
<1>1. y \in Nat /\ y < Total /\ Total \in Nat
  BY Geometry DEF Total
<1>2. q \in Nat /\ s \in 0..(Spt - 1) /\ y = q * Spt + s
  BY <1>1, Geometry, DivMod
<1> HIDE DEF q, s
<1>3. q < Tracks * Heads
  <2>1. ~(Tracks * Heads <= q)
    <3>1. Tracks * Heads <= q => Total <= q * Spt
      BY <1>2, Geometry, TimesMonotone DEF Total
    <3>2. q * Spt \in Nat
      BY <1>2, Geometry
    <3> QED
      BY <1>1, <1>2, <3>1, <3>2
  <2> QED
    BY <1>2, <2>1, Geometry
<1>4. t \in Nat /\ h \in 0..(Heads - 1) /\ q = t * Heads + h
  BY <1>2, Geometry, DivMod
<1> HIDE DEF t, h
<1>5. t < Tracks
  <2>1. Tracks <= t => Tracks * Heads <= t * Heads
    BY <1>4, Geometry, TimesMonotone
  <2>2. t * Heads \in Nat /\ Tracks * Heads \in Nat
    BY <1>4, Geometry
  <2> QED
    BY <1>3, <1>4, <2>1, <2>2, Geometry
<1>6. <<t, h, s>> \in Grid
  BY <1>2, <1>4, <1>5, Geometry DEF Grid
<1> QED
  BY <1>2, <1>4, <1>6 DEF Place

\* The place says which of two sectors comes first.
LEMMA PlaceOrder ==
  ASSUME NEW t \in 0..(Tracks - 1), NEW h \in 0..(Heads - 1), NEW s \in 0..Spt, NEW b \in Grid
  PROVE  Place(b) < (t * Heads + h) * Spt + s <=>
           b[1] < t \/ (b[1] = t /\ b[2] < h) \/ (b[1] = t /\ b[2] = h /\ b[3] < s)
<1>1. b[1] \in 0..(Tracks - 1) /\ b[2] \in 0..(Heads - 1) /\ b[3] \in 0..(Spt - 1)
  BY DEF Grid
<1> DEFINE p == b[1] * Heads + b[2]
           q == t * Heads + h
<1>2. p \in Nat /\ q \in Nat
  BY <1>1, TrackPlace
<1>3. p < q <=> b[1] < t \/ (b[1] = t /\ b[2] < h)
  <2>1. b[1] < t => b[1] * Heads + Heads <= t * Heads
    BY <1>1, Geometry, TimesNext
  <2>2. t < b[1] => t * Heads + Heads <= b[1] * Heads
    BY <1>1, Geometry, TimesNext
  <2>3. b[1] * Heads \in Nat /\ t * Heads \in Nat
    BY <1>1, Geometry
  <2> QED
    BY <1>1, <2>1, <2>2, <2>3, Geometry
<1>4. p = q <=> b[1] = t /\ b[2] = h
  <2>1. ASSUME p = q PROVE b[1] = t /\ b[2] = h
    BY <1>1, <2>1, TrackUnique
  <2> QED
    BY <2>1
<1> HIDE DEF p, q
<1>5. p * Spt + b[3] < q * Spt + s <=> p < q \/ (p = q /\ b[3] < s)
  <2>1. p < q => p * Spt + Spt <= q * Spt
    BY <1>2, Geometry, TimesNext
  <2>2. q < p => q * Spt + Spt <= p * Spt
    BY <1>2, Geometry, TimesNext
  <2>3. p * Spt \in Nat /\ q * Spt \in Nat
    BY <1>2, Geometry
  <2> QED
    BY <1>1, <1>2, <2>1, <2>2, <2>3, Geometry
<1> QED
  BY <1>3, <1>4, <1>5 DEF Place, p, q

Before(a) ==
  {b \in Grid : \/ b[1] < a.track
                \/ b[1] = a.track /\ b[2] < a.head
                \/ b[1] = a.track /\ b[2] = a.head /\ b[3] < a.sector}

LEMMA BeforeFinite ==
  ASSUME NEW a PROVE SectorsBefore(a) = Cardinality(Before(a)) /\ SectorsBefore(a) \in Nat
<1>1. SectorsBefore(a) = Cardinality(Before(a))
  BY DEF SectorsBefore, Before, Grid
<1> DEFINE f == [b \in Before(a) |-> Place(b)]
<1>2. Total \in Nat
  BY Geometry DEF Total
<1>3. ASSUME NEW b \in Grid PROVE Place(b) \in 0..(Total - 1)
  <2>1. b[1] \in 0..(Tracks - 1) /\ b[2] \in 0..(Heads - 1) /\ b[3] \in 0..(Spt - 1) /\ b[3] \in 0..Spt
    BY Geometry DEF Grid
  <2>2. Place(b) \in Nat /\ (b[1] * Heads + b[2]) * Spt + Spt <= Total
    BY <2>1, PlaceFacts DEF Place
  <2>3. (b[1] * Heads + b[2]) * Spt \in Nat
    BY <2>1, TrackPlace, Geometry
  <2> QED
    BY <1>2, <2>1, <2>2, <2>3, Geometry DEF Place
<1>4. f \in Injection(Before(a), 0..(Total - 1))
  <2>1. f \in [Before(a) -> 0..(Total - 1)]
    BY <1>3 DEF Before
  <2>2. \A b, c \in Before(a) : f[b] = f[c] => b = c
    BY PlaceInjective DEF Before
  <2> QED
    BY <2>1, <2>2 DEF Injection, IsInjective
<1>5. IsFiniteSet(0..(Total - 1))
  BY <1>2, FS_Interval
<1>6. IsFiniteSet(Before(a))
  BY <1>4, <1>5, FS_Injection
<1> QED
  BY <1>1, <1>6, FS_CardinalityType

\* The LBA of the code is the number of sectors before, on any geometry.
LEMMA LbaCounts ==
  ASSUME NEW a, a.track \in 0..(Tracks - 1), a.head \in 0..(Heads - 1), a.sector \in 0..Spt
  PROVE  SectorsBefore(a) = Lba(a)
<1> DEFINE n == Lba(a)
           f == [b \in Before(a) |-> Place(b)]
<1>1. n \in Nat /\ n <= Total /\ Total \in Nat
  <2>1. (a.track * Heads + a.head) * Spt \in Nat /\ Total \in Nat
    BY Geometry, TrackPlace DEF Total
  <2>2. (a.track * Heads + a.head) * Spt + Spt <= Total
    BY PlaceFacts, Geometry
  <2>3. a.sector \in Nat /\ a.sector <= Spt /\ Spt \in Nat
    BY Geometry
  <2> DEFINE q == (a.track * Heads + a.head) * Spt
  <2>4. q \in Nat /\ q + Spt <= Total /\ n = q + a.sector
    BY <2>1, <2>2 DEF Lba
  <2> HIDE DEF q, n
  <2> QED
    BY <2>1, <2>3, <2>4
<1>2. \A b \in Grid : b \in Before(a) <=> Place(b) < n
  BY PlaceOrder DEF Before, Lba
<1>3. \A b \in Grid : Place(b) \in Nat
  <2> SUFFICES ASSUME NEW b \in Grid PROVE Place(b) \in Nat
    OBVIOUS
  <2>1. b[1] \in 0..(Tracks - 1) /\ b[2] \in 0..(Heads - 1) /\ b[3] \in 0..Spt
    BY Geometry DEF Grid
  <2> QED
    BY <2>1, PlaceFacts DEF Place
<1> HIDE DEF n
<1>4. f \in Injection(Before(a), 0..(n - 1))
  <2>1. f \in [Before(a) -> 0..(n - 1)]
    BY <1>1, <1>2, <1>3 DEF Before
  <2>2. \A b, c \in Before(a) : f[b] = f[c] => b = c
    BY PlaceInjective DEF Before
  <2> QED
    BY <2>1, <2>2 DEF Injection, IsInjective
<1>5. f \in Surjection(Before(a), 0..(n - 1))
  <2>1. ASSUME NEW y \in 0..(n - 1) PROVE \E b \in Before(a) : f[b] = y
    <3>1. PICK b \in Grid : Place(b) = y
      BY <1>1, PlaceOnto
    <3>2. b \in Before(a)
      BY <1>1, <1>2, <3>1
    <3> QED
      BY <3>1, <3>2
  <2> QED
    BY <1>4, <2>1 DEF Surjection, Injection
<1>6. IsFiniteSet(0..(n - 1)) /\ Cardinality(0..(n - 1)) = n
  <2>1. 0 \in Int /\ n - 1 \in Int
    BY <1>1
  <2>2. /\ IsFiniteSet(0..(n - 1))
        /\ Cardinality(0..(n - 1)) = IF 0 > n - 1 THEN 0 ELSE (n - 1) - 0 + 1
    BY <2>1, FS_Interval, Zenon
  <2> QED
    BY <1>1, <2>2
<1>7. Cardinality(Before(a)) = n
  BY <1>4, <1>5, <1>6, FS_Injection
<1> QED
  BY <1>7, BeforeFinite DEF n

-----------------------------------------------------------------------------
(* The invariant.                                                           *)

Typed ==
  /\ task \in [cyl : Nat, head : Nat, sec : Nat, count : Nat, drive : Drives]
  /\ at \in [track : 0..(Tracks - 1), head : Nat, sector : Nat]
  /\ xfer \in [pos : Nat, len : Nat, drq : BOOLEAN, multi : BOOLEAN,
               write_pos : Int, formatting : BOOLEAN]
  /\ buf \in Seq(Words) /\ moved \in Seq(Words)
  /\ image \in [Drives -> Seq(Words)]
  /\ req \in BD!Requests

\* A drive's image is whole sectors, and has those of its geometry.
Whole(s) == \E k \in Nat : k >= Total /\ Len(s) = k * SecWords
WholeImages == \A d \in Drives : Whole(image[d])

\* The driver does not go on while words are asked for.
DriverWaits ==
  /\ drv = "idle" => ~GetDrq
  /\ poll = "done" => ~GetDrq

Done == IF xfer.pos = 0 THEN 0 ELSE (xfer.pos - 1) \div SecWords

Transferring == {"read", "write", "format"}

\* While a word is asked for the buffer, the position and the addresses are
\* those of the request: what was read lies in the buffer, what was accepted
\* lies there and is to go to the sectors of the request.
Serving ==
  GetDrq =>
    /\ req.op \in Transferring
    /\ dma_reading <=> req.op # "read"
    /\ xfer.len = req.n * SecWords /\ Len(moved) = xfer.pos
    /\ req.op = "read" => Len(buf) = xfer.len
    /\ req.op = "read" =>
         \A i \in 1..xfer.len : buf[i] = image[req.drive][req.lba * SecWords + i]
    /\ req.op # "read" =>
         buf = moved /\ xfer.write_pos # NoWrite /\ (xfer.formatting <=> req.op = "format")
    /\ req.op = "write" =>
         xfer.write_pos = req.lba * SecWords /\ req.lba <= Total /\ task.drive = req.drive
    /\ xfer.multi => task.count = req.n - Done
    /\ xfer.multi /\ req.op # "format" => task.sec = at.sector + Done

IInv == Typed /\ WholeImages /\ DriverWaits /\ Serving

\* For a driver that neither polls nor resets the controller one seek timer runs
\* at most, while the driver waits for nothing else; the interrupt is up only
\* once the command is over.
OneTimer ==
  /\ timers \in {0, 1} /\ firing \in BOOLEAN
  /\ timers = 1 => drv = "wait" /\ poll = "no" /\ ~irq /\ req.op = "seek" /\ ~GetDrq
  /\ firing => timers = 1 /\ status = "ready"
IrqInv == irq \in BOOLEAN /\ IrqMeansDone /\ OneTimer

\* The images the controller starts with are those of whole discs.
WholeDiscs == \A d \in Drives : Whole(Blank[d])

-----------------------------------------------------------------------------
(* Words laid over words.                                                   *)

LEMMA OverwriteFacts ==
  ASSUME NEW s \in Seq(Words), NEW t \in Seq(Words), NEW k \in 0..Len(s)
  PROVE  /\ BD!Overwrite(s, k, t) \in Seq(Words)
         /\ Len(BD!Overwrite(s, k, t)) = IF k + Len(t) > Len(s) THEN k + Len(t) ELSE Len(s)
<1> DEFINE n == IF k + Len(t) > Len(s) THEN k + Len(t) ELSE Len(s)
           f == [i \in 1..n |-> IF i \in (k + 1)..(k + Len(t)) THEN t[i - k] ELSE s[i]]
<1>1. n \in Nat
  OBVIOUS
<1>2. ASSUME NEW i \in 1..n PROVE f[i] \in Words
  <2>1. CASE i \in (k + 1)..(k + Len(t))
    <3>1. i - k \in 1..Len(t) /\ f[i] = t[i - k]
      BY <2>1
    <3> QED
      BY <3>1
  <2>2. CASE i \notin (k + 1)..(k + Len(t))
    <3>1. i \in 1..Len(s) /\ f[i] = s[i]
      BY <2>2
    <3> QED
      BY <3>1
  <2> QED
    BY <2>1, <2>2
<1>3. f \in [1..n -> Words]
  BY <1>2
<1> HIDE DEF n
<1>4. f \in Seq(Words) /\ Len(f) = n
  BY <1>1, <1>3
<1>5. BD!Overwrite(s, k, t) = f
  BY DEF BD!Overwrite, n
<1> QED
  BY <1>4, <1>5 DEF n

LEMMA OverwriteAppends ==
  ASSUME NEW s \in Seq(Words), NEW w \in Words
  PROVE  BD!Overwrite(s, Len(s), <<w>>) = Append(s, w)
<1> DEFINE o == BD!Overwrite(s, Len(s), <<w>>)
<1>1. o \in Seq(Words) /\ Len(o) = Len(s) + 1
  <2> DEFINE t == <<w>>
  <2>1. t \in Seq(Words) /\ Len(t) = 1 /\ Len(s) \in 0..Len(s) /\ Len(s) \in Nat
    OBVIOUS
  <2>2. o = BD!Overwrite(s, Len(s), t)
    OBVIOUS
  <2> HIDE DEF t, o
  <2>3. /\ o \in Seq(Words)
        /\ Len(o) = IF Len(s) + Len(t) > Len(s) THEN Len(s) + Len(t) ELSE Len(s)
    BY <2>1, <2>2, OverwriteFacts
  <2> QED
    BY <2>1, <2>3
<1>2. ASSUME NEW i \in 1..(Len(s) + 1)
      PROVE  o[i] = IF i \in (Len(s) + 1)..(Len(s) + 1) THEN <<w>>[i - Len(s)] ELSE s[i]
  BY DEF BD!Overwrite
<1> HIDE DEF o
<1>3. ASSUME NEW i \in 1..(Len(s) + 1) PROVE o[i] = Append(s, w)[i]
  BY <1>2
<1>4. Append(s, w) \in Seq(Words) /\ Len(Append(s, w)) = Len(s) + 1
  OBVIOUS
<1>5. o = Append(s, w)
  BY <1>1, <1>3, <1>4
<1> QED
  BY <1>5 DEF o

-----------------------------------------------------------------------------
(* Steps that ask for no word.                                              *)

LEMMA Resting ==
  ASSUME IInv, Typed', ~GetDrq', UNCHANGED image
  PROVE  IInv'
<1>1. WholeImages'
  BY DEF IInv, WholeImages, Whole
<1> QED
  BY <1>1 DEF IInv, DriverWaits, Serving

\* A drive that waits for no word waits for none after a step that leaves the
\* buffer's positions alone.
LEMMA StillNoWord ==
  ASSUME ~GetDrq, xfer'.pos = xfer.pos, xfer'.len = xfer.len, xfer'.drq = xfer.drq
  PROVE  ~GetDrq'
  BY DEF GetDrq

LEMMA NoRequestTyped ==
  ASSUME NEW op \in {"none", "seek"}
  PROVE  /\ [BD!NoRequest EXCEPT !.op = op] \in BD!Requests
         /\ [BD!NoRequest EXCEPT !.op = op].op = op
         /\ BD!NoRequest \in BD!Requests /\ BD!NoRequest.op = "none"
  BY WD2010Assumption DEF BD!NoRequest, BD!Requests

LEMMA AddressedTyped ==
  ASSUME IInv, NEW cmd PROVE Addressed(cmd) \in [cyl : Nat, head : Nat, sec : Nat, count : Nat, drive : Drives]
<1>1. at.track \in Nat /\ at.head \in Nat /\ at.sector \in Nat
  BY Geometry DEF IInv, Typed
<1>2. task \in [cyl : Nat, head : Nat, sec : Nat, count : Nat, drive : Drives]
  BY DEF IInv, Typed
<1>3. [task EXCEPT !.cyl = at.track, !.head = at.head, !.sec = at.sector]
        \in [cyl : Nat, head : Nat, sec : Nat, count : Nat, drive : Drives]
  BY <1>1, <1>2
<1> QED
  BY <1>2, <1>3 DEF Addressed

LEMMA SoughtTyped ==
  ASSUME IInv, NEW cmd, TrackExists(Addressed(cmd).cyl)
  PROVE  Sought(cmd) \in [track : 0..(Tracks - 1), head : Nat, sector : Nat]
<1>1. Addressed(cmd).cyl \in Nat /\ Addressed(cmd).head \in Nat /\ Addressed(cmd).sec \in Nat
  BY AddressedTyped
<1> QED
  BY <1>1, Geometry DEF Sought, TrackExists

LEMMA FailKeeps ==
  ASSUME IInv, drv = "idle", UNCHANGED image, moved' = << >>,
         NEW t \in [cyl : Nat, head : Nat, sec : Nat, count : Nat, drive : Drives],
         NEW a \in [track : 0..(Tracks - 1), head : Nat, sector : Nat],
         NEW f \in BOOLEAN, Fail(t, a, f)
  PROVE  IInv'
<1> DEFINE x == [xfer EXCEPT !.formatting = f]
<1>1. x \in [pos : Nat, len : Nat, drq : BOOLEAN, multi : BOOLEAN,
             write_pos : Int, formatting : BOOLEAN]
      /\ x.pos = xfer.pos /\ x.len = xfer.len /\ x.drq = xfer.drq
  BY DEF IInv, Typed
<1>2. xfer' = x /\ task' = t /\ at' = a /\ req' = BD!NoRequest /\ UNCHANGED buf
  BY DEF Fail
<1> HIDE DEF x
<1>3. Typed'
  BY <1>1, <1>2, NoRequestTyped DEF IInv, Typed
<1>4. ~GetDrq'
  BY <1>1, <1>2, StillNoWord DEF IInv, DriverWaits
<1> QED
  BY <1>3, <1>4, Resting

LEMMA RestoreKeeps ==
  ASSUME IInv, drv = "idle", UNCHANGED image, moved' = << >>, Restore
  PROVE  IInv'
<1> DEFINE a == [at EXCEPT !.track = 0]
           r == [BD!NoRequest EXCEPT !.op = "seek"]
<1>1. a \in [track : 0..(Tracks - 1), head : Nat, sector : Nat]
  <2>1. 0 \in 0..(Tracks - 1)
    BY Geometry
  <2>2. at \in [track : 0..(Tracks - 1), head : Nat, sector : Nat]
    BY DEF IInv, Typed
  <2> QED
    BY <2>1, <2>2
<1>2. r \in BD!Requests /\ r.op = "seek"
  BY NoRequestTyped
<1> HIDE DEF a, r
<1>3. at' = a /\ req' = r /\ UNCHANGED <<task, xfer, buf>>
  BY DEF Restore, a, r
<1>4. Typed'
  <2>1. /\ UNCHANGED <<task, xfer, buf, image>> /\ moved' \in Seq(Words)
        /\ at' \in [track : 0..(Tracks - 1), head : Nat, sector : Nat]
        /\ req' \in BD!Requests
    BY <1>1, <1>2, <1>3
  <2> QED
    BY <2>1 DEF IInv, Typed
<1>5. ~GetDrq'
  BY <1>3, StillNoWord DEF IInv, DriverWaits
<1> QED
  BY <1>4, <1>5, Resting

LEMMA SeekKeeps ==
  ASSUME IInv, drv = "idle", UNCHANGED image, moved' = << >>, NEW cmd, Seek(cmd)
  PROVE  IInv'
<1> DEFINE x == [xfer EXCEPT !.formatting = FALSE]
           r == [BD!NoRequest EXCEPT !.op = "seek"]
<1>1. x \in [pos : Nat, len : Nat, drq : BOOLEAN, multi : BOOLEAN,
             write_pos : Int, formatting : BOOLEAN]
      /\ x.pos = xfer.pos /\ x.len = xfer.len /\ x.drq = xfer.drq
  BY DEF IInv, Typed
<1>2. r \in BD!Requests /\ r.op = "seek"
  BY NoRequestTyped
<1> HIDE DEF x, r
<1>3. /\ TrackExists(Addressed(cmd).cyl) /\ task' = Addressed(cmd) /\ at' = Sought(cmd)
      /\ xfer' = x /\ req' = r /\ UNCHANGED buf
  BY DEF Seek, x, r
<1>4. Typed'
  <2>1. /\ task' \in [cyl : Nat, head : Nat, sec : Nat, count : Nat, drive : Drives]
        /\ at' \in [track : 0..(Tracks - 1), head : Nat, sector : Nat]
    BY <1>3, AddressedTyped, SoughtTyped
  <2>2. buf' \in Seq(Words) /\ moved' \in Seq(Words) /\ image' \in [Drives -> Seq(Words)]
    BY <1>3 DEF IInv, Typed
  <2> QED
    BY <1>1, <1>2, <1>3, <2>1, <2>2 DEF Typed
<1>5. ~GetDrq'
  BY <1>1, <1>3, StillNoWord DEF IInv, DriverWaits
<1> QED
  BY <1>4, <1>5, Resting

-----------------------------------------------------------------------------
(* The command that begins a transfer.                                      *)

\* What fread finds of sectors that the drive has, or of the one behind them.
LEMMA ReadWhole ==
  ASSUME NEW d \in Drives, image[d] \in Seq(Words), Whole(image[d]),
         NEW lba \in Nat, NEW n \in Nat, lba + n <= Total \/ (n = 1 /\ lba <= Total)
  PROVE  /\ FromImage(d, lba, n) \in Seq(Words)
         /\ Len(FromImage(d, lba, n)) > 0 =>
              /\ Len(FromImage(d, lba, n)) = n * SecWords
              /\ \A i \in 1..(n * SecWords) :
                   FromImage(d, lba, n)[i] = image[d][lba * SecWords + i]
<1> DEFINE s == image[d]
           from == lba * SecWords
           to == (lba + n) * SecWords
           last == IF to > Len(s) THEN Len(s) ELSE to
<1>1. PICK k \in Nat : k >= Total /\ Len(s) = k * SecWords
  BY DEF Whole
<1>2. from \in Nat /\ to \in Nat /\ n * SecWords \in Nat /\ to = from + n * SecWords
  BY Geometry
<1>3. s \in Seq(Words) /\ Len(s) \in Nat
  OBVIOUS
<1>4. Total \in Nat
  BY Geometry DEF Total
<1>5. from <= Len(s)
  <2>1. lba <= k
    BY <1>1, <1>4
  <2> QED
    BY <1>1, <2>1, Geometry, TimesMonotone
<1>6. FromImage(d, lba, n) = SubSeq(s, from + 1, last)
  BY DEF FromImage
<1>7. to <= Len(s) \/ from = Len(s)
  <2>1. CASE lba + n <= k
    BY <1>1, <2>1, Geometry, TimesMonotone
  <2>2. CASE lba + n > k
    <3>1. lba = k
      BY <1>1, <1>4, <2>2
    <3> QED
      BY <1>1, <3>1
  <2> QED
    BY <1>1, <2>1, <2>2
<1> HIDE DEF s, from, to
<1>8. last \in 0..Len(s) /\ from \in 0..Len(s)
  BY <1>2, <1>3, <1>5
<1> HIDE DEF last
<1>9. SubSeq(s, from + 1, last) \in Seq(Words)
  BY <1>3, <1>8
<1>10. CASE from = Len(s)
  <2>1. Len(SubSeq(s, from + 1, last)) = 0
    BY <1>3, <1>8, <1>10
  <2> QED
    BY <1>6, <1>9, <2>1
<1>11. CASE to <= Len(s)
  <2>1. last = to /\ last - from = n * SecWords
    BY <1>2, <1>3, <1>11 DEF last
  <2>2. n * SecWords = 0 => Len(SubSeq(s, from + 1, last)) = 0
    BY <1>3, <1>8, <2>1
  <2>3. n * SecWords > 0 =>
          /\ Len(SubSeq(s, from + 1, last)) = n * SecWords
          /\ \A i \in 1..(n * SecWords) : SubSeq(s, from + 1, last)[i] = s[from + i]
    <3> DEFINE m == n * SecWords
    <3>1. m \in Nat /\ last = from + m
      BY <1>2, <1>8, <2>1
    <3> HIDE DEF m
    <3>2. m > 0 => Len(SubSeq(s, from + 1, last)) = m
      BY <1>3, <1>8, <3>1
    <3>3. ASSUME NEW i \in 1..m PROVE SubSeq(s, from + 1, last)[i] = s[from + i]
      BY <1>3, <1>8, <3>1
    <3> QED
      BY <3>2, <3>3 DEF m
  <2>4. n * SecWords = 0 \/ n * SecWords > 0
    BY <1>2
  <2> QED
    BY <1>6, <1>9, <2>2, <2>3, <2>4 DEF s, from
<1> QED
  BY <1>7, <1>10, <1>11

\* The position a transfer within the limits begins at.
LEMMA LimitsKept ==
  ASSUME IInv, NEW cmd \in {"READ", "WRITE"}, TrackExists(task.cyl), ~BeyondLimits(Sought(cmd))
  PROVE  /\ Sought(cmd).head \in 0..(Heads - 1) /\ Sought(cmd).sector \in 0..Spt
         /\ Sought(cmd).sector + task.count <= Spt
         /\ Sought(cmd).sector = task.sec
<1>1. Sought(cmd) = [track |-> task.cyl, head |-> task.head, sector |-> task.sec]
  BY DEF Sought, Addressed
<1>2. task.head \in Nat /\ task.sec \in Nat /\ task.count \in Nat
  BY DEF IInv, Typed
<1>3. ~(task.head > Heads - 1) /\ ~(task.sec + task.count - 1 > Spt - 1)
  BY <1>1 DEF BeyondLimits
<1> QED
  BY <1>1, <1>2, <1>3, Geometry

\* The sectors of a transfer within the limits, by the LBA of the code and by
\* counting.
LEMMA SectorsMeant ==
  ASSUME IInv, NEW cmd \in {"READ", "WRITE"}, TrackExists(task.cyl), ~BeyondLimits(Sought(cmd)),
         NEW n \in {task.count, 1}
  PROVE  /\ SectorsBefore(Sought(cmd)) = Lba(Sought(cmd)) /\ Lba(Sought(cmd)) \in Nat
         /\ Lba(Sought(cmd)) <= Total
         /\ Lba(Sought(cmd)) + n <= Total \/ n = 1
<1> DEFINE a == Sought(cmd)
           q == (a.track * Heads + a.head) * Spt
<1>1. Addressed(cmd) = task
  BY DEF Addressed
<1>2. /\ a.track \in 0..(Tracks - 1) /\ a.head \in 0..(Heads - 1)
      /\ a.sector \in 0..Spt /\ a.sector + task.count <= Spt
  BY <1>1, LimitsKept, SoughtTyped
<1> HIDE DEF a
<1>3. SectorsBefore(a) = Lba(a)
  BY <1>2, LbaCounts
<1>4. q \in Nat /\ q + Spt <= Total /\ Lba(a) = q + a.sector
  <2>1. a.track * Heads + a.head \in Nat
    BY <1>2, TrackPlace
  <2>2. q \in Nat
    BY <2>1, Geometry
  <2>3. q + Spt <= Total
    BY <1>2, PlaceFacts
  <2>4. Lba(a) = q + a.sector
    BY DEF Lba
  <2> QED
    BY <2>2, <2>3, <2>4
<1> HIDE DEF q
<1>5. task.count \in Nat /\ Total \in Nat
  BY Geometry DEF IInv, Typed, Total
<1> QED
  BY <1>2, <1>3, <1>4, <1>5, Geometry DEF a

LEMMA TransferKeeps ==
  ASSUME IInv, drv = "idle", UNCHANGED <<image, poll>>, moved' = << >>, poll = "no", drv' = "wait",
         NEW cmd, NEW multi \in BOOLEAN, dma_reading' = (cmd # "READ"),
         cmd \in {"READ", "WRITE"} => task.count > 0 \/ GuestCountsZero,
         Transfer(cmd, multi)
  PROVE  IInv'
<1> DEFINE a == Sought(cmd)
           n == IF multi THEN task.count ELSE 1
           data == IF cmd = "READ" THEN FromImage(task.drive, Lba(a), n) ELSE << >>
           len == IF cmd = "READ" THEN Len(data) ELSE n * SecWords
           pos == IF cmd = "READ" THEN xfer.write_pos ELSE Lba(a) * SecWords
           x == [xfer EXCEPT !.pos = 0, !.len = len, !.drq = TRUE,
                   !.multi = multi, !.formatting = (cmd = "FORMAT"),
                   !.write_pos = pos]
           op == CASE cmd = "READ" -> "read" [] cmd = "WRITE" -> "write" [] cmd = "FORMAT" -> "format"
           r == [op |-> op, drive |-> task.drive, lba |-> SectorsBefore(a), n |-> n]
<1>1. cmd \in Transfers /\ TrackExists(task.cyl) /\ (cmd = "FORMAT" \/ ~BeyondLimits(a))
  BY DEF Transfer
<1>2. at' = a /\ buf' = data /\ req' = r /\ UNCHANGED task
  BY DEF Transfer
<1>3. xfer' = x
  BY DEF Transfer
<1>4. Addressed(cmd) = task /\ a \in [track : 0..(Tracks - 1), head : Nat, sector : Nat]
  <2>1. Addressed(cmd) = task
    BY <1>1 DEF Addressed, Transfers
  <2> QED
    BY <1>1, <2>1, SoughtTyped
<1>5. /\ op \in Transferring /\ (op = "read" <=> cmd = "READ")
      /\ (op = "write" <=> cmd = "WRITE") /\ (op = "format" <=> cmd = "FORMAT")
  BY <1>1 DEF Transfers, Transferring
<1>6. n \in Nat /\ n \in {task.count, 1} /\ task.drive \in Drives /\ task.count \in Nat
  BY DEF IInv, Typed
<1>7. cmd \in {"READ", "WRITE"} =>
        /\ SectorsBefore(a) = Lba(a) /\ Lba(a) \in Nat /\ Lba(a) <= Total
        /\ Lba(a) + n <= Total \/ n = 1
        /\ a.sector + task.count <= Spt /\ a.sector = task.sec
  BY <1>1, <1>6, SectorsMeant, LimitsKept
<1>8. Lba(a) * SecWords \in Nat /\ SectorsBefore(a) \in Nat
  <2>1. a.track \in Nat /\ a.head \in Nat /\ a.sector \in Nat
    BY <1>4
  <2> HIDE DEF a
  <2>2. Lba(a) \in Nat
    <3>1. a.track * Heads \in Nat
      BY <2>1, Geometry
    <3>2. a.track * Heads + a.head \in Nat
      BY <2>1, <3>1
    <3>3. (a.track * Heads + a.head) * Spt \in Nat
      BY <3>2, Geometry
    <3> QED
      BY <2>1, <3>3 DEF Lba
  <2> QED
    BY <2>2, Geometry, BeforeFinite
<1>9. /\ data \in Seq(Words) /\ len \in Nat
      /\ len > 0 => len = n * SecWords
      /\ cmd = "READ" => Len(data) = len
      /\ cmd = "READ" /\ len > 0 =>
           \A i \in 1..len : data[i] = image[task.drive][SectorsBefore(a) * SecWords + i]
  <2>1. CASE cmd = "READ"
    <3>1. image[task.drive] \in Seq(Words) /\ Whole(image[task.drive])
      BY <1>6 DEF IInv, Typed, WholeImages
    <3>2. data = FromImage(task.drive, Lba(a), n) /\ len = Len(data)
      BY <2>1
    <3> HIDE DEF data, len, n, a
    <3>3. /\ data \in Seq(Words)
          /\ Len(data) > 0 =>
               /\ Len(data) = n * SecWords
               /\ \A i \in 1..(n * SecWords) : data[i] = image[task.drive][Lba(a) * SecWords + i]
      <4>1. /\ task.drive \in Drives /\ Lba(a) \in Nat /\ n \in Nat
            /\ Lba(a) + n <= Total \/ (n = 1 /\ Lba(a) <= Total)
        BY <1>6, <1>7, <2>1
      <4> QED
        BY <3>1, <3>2, <4>1, ReadWhole, Zenon
    <3>4. SectorsBefore(a) = Lba(a)
      BY <1>7, <2>1
    <3> QED
      BY <3>2, <3>3, <3>4
  <2>2. CASE cmd # "READ"
    BY <1>6, <2>2, Geometry
  <2> QED
    BY <2>1, <2>2
<1>10. pos \in Int /\ (cmd # "READ" => pos = Lba(a) * SecWords)
  BY <1>8 DEF IInv, Typed
<1> HIDE DEF a, n, data, len, pos, op
<1>11. /\ x \in [pos : Nat, len : Nat, drq : BOOLEAN, multi : BOOLEAN,
                  write_pos : Int, formatting : BOOLEAN]
       /\ x.pos = 0 /\ x.len = len /\ x.multi = multi
       /\ x.write_pos = pos /\ x.formatting = (cmd = "FORMAT")
  BY <1>9, <1>10 DEF IInv, Typed
<1>12. /\ r \in BD!Requests /\ r.op = op /\ r.drive = task.drive /\ r.lba = SectorsBefore(a) /\ r.n = n
  BY <1>5, <1>6, <1>8 DEF BD!Requests, Transferring
<1> HIDE DEF x, r
<1>13. Typed'
  BY <1>2, <1>3, <1>4, <1>9, <1>11, <1>12 DEF IInv, Typed
<1>14. WholeImages' /\ DriverWaits'
  BY DEF IInv, WholeImages, Whole, DriverWaits
<1>15. Serving'
  <2> SUFFICES ASSUME GetDrq' PROVE Serving'
    BY DEF Serving
  <2>1. len > 0
    BY <1>3, <1>9, <1>11 DEF GetDrq
  <2>2. req'.op \in Transferring /\ (dma_reading' <=> req'.op # "read")
    BY <1>2, <1>5, <1>12
  <2>3. xfer'.len = req'.n * SecWords /\ Len(moved') = xfer'.pos
    BY <1>2, <1>3, <1>9, <1>11, <1>12, <2>1
  <2>10. req'.op = "read" => Len(buf') = xfer'.len
    BY <1>2, <1>3, <1>5, <1>9, <1>11, <1>12
  <2>4. req'.op = "read" =>
          \A i \in 1..xfer'.len : buf'[i] = image'[req'.drive][req'.lba * SecWords + i]
    BY <1>2, <1>3, <1>5, <1>9, <1>11, <1>12, <2>1
  <2>5. req'.op # "read" =>
          /\ buf' = moved' /\ xfer'.write_pos # NoWrite
          /\ xfer'.formatting <=> req'.op = "format"
    <3>1. cmd # "READ" => data = << >>
      BY DEF data
    <3> QED
      BY <1>2, <1>3, <1>5, <1>8, <1>10, <1>11, <1>12, <3>1 DEF NoWrite
  <2>6. req'.op = "write" =>
          xfer'.write_pos = req'.lba * SecWords /\ req'.lba <= Total /\ task'.drive = req'.drive
    BY <1>2, <1>3, <1>5, <1>7, <1>10, <1>11, <1>12
  <2>7. Done' = 0
    BY <1>3, <1>11 DEF Done
  <2>8. xfer'.multi => task'.count = req'.n - Done'
    BY <1>2, <1>3, <1>6, <1>11, <1>12, <2>7 DEF n
  <2>9. xfer'.multi /\ req'.op # "format" => task'.sec = at'.sector + Done'
    <3>1. req'.op # "format" => a.sector = task.sec /\ task.sec \in Nat
      BY <1>1, <1>2, <1>5, <1>7, <1>12 DEF IInv, Typed, Transfers
    <3> QED
      BY <1>2, <2>7, <3>1
  <2> QED
    BY <2>2, <2>3, <2>4, <2>5, <2>6, <2>8, <2>9, <2>10 DEF Serving
<1> QED
  BY <1>13, <1>14, <1>15 DEF IInv

-----------------------------------------------------------------------------
(* A word.                                                                  *)

LEMMA DivOf ==
  ASSUME NEW p \in Nat, NEW k \in Nat \ {0}, NEW r \in 0..(k - 1), NEW y \in Nat, y = p * k + r
  PROVE  y \div k = p /\ y % k = r
  BY DivMod, DivUnique

\* The sectors done count one more where a new one begins.
LEMMA NextDone ==
  ASSUME NEW y \in Nat, NEW k \in Nat \ {0}
  PROVE  y \div k = (IF y = 0 THEN 0 ELSE (y - 1) \div k) + (IF y > 0 /\ y % k = 0 THEN 1 ELSE 0)
<1>1. CASE y = 0
  <2>1. 0 = 0 * k + 0 /\ 0 \in 0..(k - 1)
    OBVIOUS
  <2>2. y \div k = 0
    BY <1>1, <2>1, DivOf
  <2> QED
    BY <1>1, <2>2
<1>2. CASE y > 0
  <2> DEFINE p == (y - 1) \div k
             r == (y - 1) % k
  <2>1. p \in Nat /\ r \in 0..(k - 1) /\ y - 1 = p * k + r
    <3>1. y - 1 \in Nat
      BY <1>2
    <3> QED
      BY <3>1, DivMod
  <2> HIDE DEF p, r
  <2>2. p * k \in Nat
    BY <2>1
  <2>3. CASE r = k - 1
    <3> DEFINE q == p + 1
    <3>1. q \in Nat /\ q * k = p * k + k /\ 0 \in 0..(k - 1)
      BY <2>1
    <3>2. q = p + 1
      OBVIOUS
    <3> HIDE DEF q
    <3>3. y = q * k + 0
      BY <2>1, <2>2, <2>3, <3>1
    <3>4. y \div k = q /\ y % k = 0
      BY <3>1, <3>3, DivOf, SMTT(20)
    <3> QED
      BY <1>2, <3>2, <3>4 DEF p
  <2>4. CASE r # k - 1
    <3>1. r + 1 \in 0..(k - 1) /\ y = p * k + (r + 1)
      BY <2>1, <2>2, <2>4
    <3>2. y \div k = p /\ y % k = r + 1
      BY <2>1, <3>1, DivOf
    <3>3. y % k # 0 /\ p \in Nat
      BY <2>1, <3>2
    <3> QED
      BY <1>2, <3>2, <3>3 DEF p
  <2> QED
    BY <2>3, <2>4
<1> QED
  BY <1>1, <1>2

\* The task file after a word: it points at the sector of the next.
LEMMA AdvancedFacts ==
  ASSUME IInv, GetDrq
  PROVE  /\ Advanced \in [cyl : Nat, head : Nat, sec : Nat, count : Nat, drive : Drives]
         /\ Advanced.drive = task.drive
         /\ xfer.multi =>
              /\ Advanced.count = req.n - xfer.pos \div SecWords
              /\ req.op # "format" => Advanced.sec = at.sector + xfer.pos \div SecWords
<1> DEFINE done == xfer.pos \div SecWords
           next == xfer.multi /\ xfer.pos > 0 /\ xfer.pos % SecWords = 0
           t == [task EXCEPT !.count = @ - 1, !.sec = @ + 1]
<1>1. /\ task \in [cyl : Nat, head : Nat, sec : Nat, count : Nat, drive : Drives]
      /\ xfer.pos \in Nat /\ xfer.len \in Nat /\ xfer.pos < xfer.len /\ req.n \in Nat /\ at.sector \in Nat
  BY DEF IInv, Typed, GetDrq, BD!Requests
<1>2. /\ xfer.len = req.n * SecWords
      /\ xfer.multi => task.count = req.n - Done
      /\ xfer.multi /\ req.op # "format" => task.sec = at.sector + Done
  BY DEF IInv, Serving
<1>3. done = Done + (IF xfer.pos > 0 /\ xfer.pos % SecWords = 0 THEN 1 ELSE 0)
  BY <1>1, Geometry, NextDone DEF Done
<1>4. done \in Nat /\ Done \in Nat
  <2>1. done \in Nat
    BY <1>1, Geometry, DivMod
  <2>2. xfer.pos # 0 => (xfer.pos - 1) \div SecWords \in Nat
    <3>1. xfer.pos # 0 => xfer.pos - 1 \in Nat
      BY <1>1
    <3> QED
      BY <3>1, Geometry, DivMod
  <2> QED
    BY <2>1, <2>2 DEF Done
<1>5. done < req.n
  <2>1. req.n <= done => req.n * SecWords <= done * SecWords
    BY <1>1, <1>4, Geometry, TimesMonotone
  <2>2. xfer.pos = done * SecWords + (xfer.pos % SecWords) /\ xfer.pos % SecWords \in Nat
    <3>1. /\ xfer.pos % SecWords \in 0..(SecWords - 1)
          /\ xfer.pos = (xfer.pos \div SecWords) * SecWords + (xfer.pos % SecWords)
      BY <1>1, Geometry, DivMod
    <3> QED
      BY <3>1, Geometry
  <2>3. done * SecWords \in Nat /\ req.n * SecWords \in Nat
    BY <1>1, <1>4, Geometry
  <2> QED
    BY <1>1, <1>2, <1>4, <2>1, <2>2, <2>3
<1>6. Advanced = IF next THEN t ELSE task
  BY DEF Advanced
<1>7. ASSUME next PROVE task.count >= 1
  BY <1>1, <1>2, <1>3, <1>4, <1>5, <1>7
<1>8. ASSUME next
      PROVE  /\ t \in [cyl : Nat, head : Nat, sec : Nat, count : Nat, drive : Drives]
             /\ t.drive = task.drive /\ t.count = task.count - 1 /\ t.sec = task.sec + 1
  <2>1. task.count - 1 \in Nat /\ task.sec + 1 \in Nat
    BY <1>1, <1>7, <1>8
  <2>2. t = [task EXCEPT !.count = task.count - 1, !.sec = task.sec + 1]
    BY <1>1
  <2> QED
    BY <1>1, <2>1, <2>2
<1> HIDE DEF t
<1>9. /\ Advanced \in [cyl : Nat, head : Nat, sec : Nat, count : Nat, drive : Drives]
      /\ Advanced.drive = task.drive
  BY <1>1, <1>6, <1>8
<1>10. ASSUME xfer.multi
       PROVE  /\ Advanced.count = req.n - done
              /\ req.op # "format" => Advanced.sec = at.sector + done
  <2>1. CASE next
    <3>1. done = Done + 1
      BY <1>3, <2>1, <1>4
    <3> HIDE DEF done
    <3> QED
      BY <1>1, <1>2, <1>4, <1>6, <1>8, <1>10, <2>1, <3>1
  <2>2. CASE ~next
    <3>1. done = Done
      BY <1>3, <2>2, <1>4, <1>10
    <3> QED
      BY <1>2, <1>6, <1>10, <2>2, <3>1
  <2> QED
    BY <2>1, <2>2
<1> QED
  BY <1>9, <1>10

Words16 == [pos : Nat, len : Nat, drq : BOOLEAN, multi : BOOLEAN,
            write_pos : Int, formatting : BOOLEAN]

\* What a word leaves of a request that goes on.
LEMMA WordOfMany ==
  ASSUME IInv, GetDrq, GetDrq', xfer'.pos = xfer.pos + 1,
         UNCHANGED <<at, image, req, dma_reading>>,
         xfer'.len = xfer.len /\ xfer'.multi = xfer.multi,
         xfer'.write_pos = xfer.write_pos /\ xfer'.formatting = xfer.formatting,
         task' = Advanced, Len(moved') = Len(moved) + 1,
         req.op = "read" => UNCHANGED buf,
         req.op # "read" => buf' = moved'
  PROVE  Serving'
<1>1. xfer.pos \in Nat /\ Done' = xfer.pos \div SecWords
  <2>1. xfer.pos \in Nat
    BY DEF IInv, Typed
  <2>2. xfer'.pos # 0 /\ xfer'.pos - 1 = xfer.pos
    BY <2>1
  <2> QED
    BY <2>1, <2>2 DEF Done
<1> QED
  BY <1>1, AdvancedFacts DEF IInv, Serving

LEMMA DmaReadKeeps ==
  ASSUME IInv, DmaRead PROVE IInv' /\ BD!Deliver
<1> DEFINE x == [xfer EXCEPT !.pos = @ + 1, !.drq = ~Last]
<1>1. /\ GetDrq /\ ~dma_reading /\ poll = "no" /\ task' = Advanced /\ xfer' = x
      /\ moved' = Append(moved, buf[xfer.pos + 1])
      /\ IF Last THEN req' = BD!NoRequest ELSE UNCHANGED req
      /\ UNCHANGED <<at, buf, image, dma_reading, drv, poll>>
  BY DEF DmaRead, Running, Finish, guest
<1>2. /\ x \in Words16 /\ x.pos = xfer.pos + 1 /\ x.len = xfer.len /\ x.drq = ~Last
      /\ x.multi = xfer.multi /\ x.write_pos = xfer.write_pos /\ x.formatting = xfer.formatting
  <2>1. xfer \in Words16 /\ xfer.pos + 1 \in Nat
    BY DEF IInv, Typed, Words16
  <2>2. (~Last) \in BOOLEAN
    BY DEF Last
  <2>3. x = [xfer EXCEPT !.pos = xfer.pos + 1, !.drq = ~Last]
    OBVIOUS
  <2> DEFINE l == ~Last
  <2>4. x = [xfer EXCEPT !.pos = xfer.pos + 1, !.drq = l] /\ l \in BOOLEAN
    BY <2>2, <2>3
  <2> HIDE DEF x, l
  <2>5. /\ x \in Words16 /\ x.pos = xfer.pos + 1 /\ x.len = xfer.len /\ x.drq = l
        /\ x.multi = xfer.multi /\ x.write_pos = xfer.write_pos /\ x.formatting = xfer.formatting
    BY <2>1, <2>4 DEF Words16
  <2> QED
    BY <2>5 DEF l
<1> HIDE DEF x
<1>3. /\ req.op = "read" /\ xfer.len = req.n * SecWords /\ Len(moved) = xfer.pos
      /\ \A i \in 1..xfer.len : buf[i] = image[req.drive][req.lba * SecWords + i]
  BY <1>1 DEF IInv, Serving
<1>4. /\ xfer.pos \in Nat /\ xfer.len \in Nat /\ xfer.pos < xfer.len
      /\ moved \in Seq(Words) /\ image \in [Drives -> Seq(Words)] /\ req \in BD!Requests
  BY <1>1 DEF IInv, Typed, GetDrq
<1>5. buf[xfer.pos + 1] = image[req.drive][req.lba * SecWords + (xfer.pos + 1)]
  BY <1>3, <1>4
<1>6. buf[xfer.pos + 1] \in Words
  BY <1>1, <1>3, <1>4 DEF IInv, Typed, Serving
<1>7. moved' \in Seq(Words) /\ Len(moved') = Len(moved) + 1
  BY <1>1, <1>4, <1>6
<1>8. req' \in BD!Requests /\ (Last => req'.op = "none")
  BY <1>1, <1>4, NoRequestTyped
<1>9. Typed'
  BY <1>1, <1>2, <1>7, <1>8, AdvancedFacts DEF IInv, Typed, Words16
<1>10. BD!Deliver
  <2>1. Last <=> Len(moved) + 1 = BD!Size(req)
    BY <1>3 DEF Last, BD!Size
  <2>2. Len(moved) < BD!Size(req)
    BY <1>3, <1>4 DEF BD!Size
  <2>3. moved' = Append(moved, image[req.drive][req.lba * SecWords + Len(moved) + 1])
    <3>1. req.lba * SecWords \in Nat
      BY <1>4, Geometry DEF BD!Requests
    <3>2. req.lba * SecWords + Len(moved) + 1 = req.lba * SecWords + (xfer.pos + 1)
      BY <1>3, <1>4, <3>1
    <3> QED
      BY <1>1, <1>5, <3>2
  <2>4. req' = IF Len(moved) + 1 = BD!Size(req) THEN BD!NoRequest ELSE req
    BY <1>1, <2>1
  <2> QED
    BY <1>1, <1>3, <2>2, <2>3, <2>4 DEF BD!Deliver
<1>11. IInv'
  <2>1. CASE Last
    <3>1. ~GetDrq'
      BY <1>1, <1>2, <2>1 DEF GetDrq
    <3> QED
      BY <1>1, <1>9, <3>1, Resting
  <2>2. CASE ~Last
    <3>1. GetDrq' /\ UNCHANGED req
      <4>1. xfer'.drq /\ UNCHANGED req
        BY <1>1, <1>2, <2>2
      <4>2. xfer'.pos < xfer'.len
        BY <1>1, <1>2, <1>4, <2>2 DEF Last
      <4> QED
        BY <4>1, <4>2 DEF GetDrq
    <3>2. Serving'
      BY <1>1, <1>2, <1>3, <1>7, <3>1, WordOfMany
    <3>3. WholeImages' /\ DriverWaits'
      BY <1>1 DEF IInv, WholeImages, Whole, DriverWaits
    <3> QED
      BY <1>9, <3>2, <3>3 DEF IInv
  <2> QED
    BY <2>1, <2>2
<1> QED
  BY <1>10, <1>11

\* The write of a whole buffer leaves images whole.
LEMMA StoreFacts ==
  ASSUME IInv, req.op = "write", GetDrq, NEW b \in Seq(Words), Len(b) = xfer.len,
         NEW i, i = [image EXCEPT ![task.drive] = BD!Overwrite(@, xfer.write_pos, b)]
  PROVE  /\ i = [image EXCEPT ![req.drive] = BD!Overwrite(@, req.lba * SecWords, b)]
         /\ i \in [Drives -> Seq(Words)] /\ \A d \in Drives : Whole(i[d])
<1> DEFINE s == image[req.drive]
           o == BD!Overwrite(s, req.lba * SecWords, b)
<1>1. /\ xfer.write_pos = req.lba * SecWords /\ req.lba <= Total /\ task.drive = req.drive
      /\ xfer.len = req.n * SecWords
  BY DEF IInv, Serving
<1>2. /\ req.drive \in Drives /\ req.lba \in Nat /\ req.n \in Nat
      /\ image \in [Drives -> Seq(Words)] /\ s \in Seq(Words) /\ Len(s) \in Nat
  <2>1. req \in BD!Requests /\ image \in [Drives -> Seq(Words)]
    BY DEF IInv, Typed
  <2>2. req.drive \in Drives /\ req.lba \in Nat /\ req.n \in Nat
    BY <2>1 DEF BD!Requests
  <2> QED
    BY <2>1, <2>2
<1>3. PICK k \in Nat : k >= Total /\ Len(s) = k * SecWords
  BY <1>2 DEF IInv, WholeImages, Whole
<1>4. Total \in Nat /\ req.lba <= k
  BY <1>1, <1>2, <1>3, Geometry DEF Total
<1>5. req.lba * SecWords \in 0..Len(s)
  <2>1. req.lba * SecWords <= k * SecWords
    BY <1>2, <1>4, Geometry, TimesMonotone
  <2>2. req.lba * SecWords \in Nat
    BY <1>2, Geometry
  <2> QED
    BY <1>2, <1>3, <2>1, <2>2
<1>6. i = [image EXCEPT ![req.drive] = o]
  BY <1>1
<1> HIDE DEF s
<1>7. /\ o \in Seq(Words)
      /\ Len(o) = IF req.lba * SecWords + Len(b) > Len(s) THEN req.lba * SecWords + Len(b) ELSE Len(s)
  BY <1>2, <1>5, OverwriteFacts
<1>8. req.lba * SecWords + Len(b) = (req.lba + req.n) * SecWords
  <2>1. SecWords \in Nat /\ Len(b) = req.n * SecWords
    BY <1>1, Geometry
  <2>2. (req.lba + req.n) * SecWords = req.lba * SecWords + req.n * SecWords
    <3>1. req.lba \in Nat /\ req.n \in Nat
      BY <1>2
    <3> QED
      BY <2>1, <3>1, TimesSum, Zenon
  <2>3. req.lba * SecWords + Len(b) = req.lba * SecWords + req.n * SecWords
    BY <2>1
  <2> QED
    BY <2>2, <2>3, Zenon
<1> HIDE DEF o
<1>9. Whole(o)
  <2>1. CASE req.lba * SecWords + Len(b) > Len(s)
    <3>1. Len(o) = (req.lba + req.n) * SecWords
      BY <1>7, <1>8, <2>1
    <3>2. ~(req.lba + req.n <= k)
      <4>1. req.lba + req.n <= k => (req.lba + req.n) * SecWords <= k * SecWords
        <5>1. req.lba + req.n \in Nat /\ k \in Nat /\ SecWords \in Nat
          BY <1>2, Geometry
        <5> QED
          BY <5>1, TimesMonotone, Zenon
      <4>2. (req.lba + req.n) * SecWords \in Nat
        BY <1>2, Geometry
      <4> QED
        BY <1>2, <1>3, <1>8, <2>1, <4>1, <4>2
    <3>3. req.lba + req.n >= Total
      BY <1>2, <1>3, <1>4, <3>2
    <3> QED
      BY <1>2, <3>1, <3>3 DEF Whole
  <2>2. CASE ~(req.lba * SecWords + Len(b) > Len(s))
    BY <1>3, <1>7, <2>2 DEF Whole
  <2> QED
    BY <2>1, <2>2
<1>10. ASSUME NEW d \in Drives PROVE Whole(i[d])
  <2>1. i[d] = IF d = req.drive THEN o ELSE image[d]
    BY <1>2, <1>6
  <2> QED
    BY <1>9, <2>1 DEF IInv, WholeImages
<1>11. i \in [Drives -> Seq(Words)]
  BY <1>2, <1>6, <1>7
<1> QED
  BY <1>6, <1>10, <1>11 DEF o, s

LEMMA DmaWriteKeeps ==
  ASSUME IInv, NEW w \in MemoryWords, DmaWrite(w) PROVE IInv' /\ (BD!Accept \/ BD!Store)
<1> DEFINE b == BD!Overwrite(buf, xfer.pos, <<w>>)
           x == [xfer EXCEPT !.pos = @ + 1, !.drq = ~Last,
                   !.write_pos = IF Last THEN NoWrite ELSE @, !.formatting = @ /\ ~Last]
<1>1. GetDrq /\ dma_reading /\ poll = "no" /\ UNCHANGED <<at, dma_reading, drv, poll>>
  BY DEF DmaWrite, Running, guest
<1>2. /\ req.op \in {"write", "format"} /\ xfer.len = req.n * SecWords /\ Len(moved) = xfer.pos
      /\ buf = moved /\ xfer.write_pos # NoWrite /\ (xfer.formatting <=> req.op = "format")
  BY <1>1 DEF IInv, Serving, Transferring
<1>3. /\ task' = Advanced /\ buf' = b /\ xfer' = x
      /\ image' = IF Last /\ ~xfer.formatting
                  THEN [image EXCEPT ![task.drive] = BD!Overwrite(@, xfer.write_pos, b)]
                  ELSE image
      /\ moved' = Append(moved, w)
      /\ IF Last THEN req' = BD!NoRequest ELSE UNCHANGED req
  BY <1>2 DEF DmaWrite, Finish
<1>4. /\ w \in Words /\ moved \in Seq(Words) /\ req \in BD!Requests
      /\ xfer.pos \in Nat /\ xfer.len \in Nat /\ xfer.pos < xfer.len
  BY <1>1, WD2010Assumption DEF IInv, Typed, GetDrq
<1>5. b = moved' /\ moved' \in Seq(Words) /\ Len(moved') = Len(moved) + 1
  <2>1. b = Append(moved, w)
    BY <1>2, <1>4, OverwriteAppends
  <2> HIDE DEF b
  <2> QED
    BY <1>3, <1>4, <2>1
<1>6. /\ x \in Words16 /\ x.pos = xfer.pos + 1 /\ x.len = xfer.len /\ x.drq = ~Last
      /\ x.multi = xfer.multi
      /\ ~Last => x.write_pos = xfer.write_pos /\ x.formatting = xfer.formatting
  <2> DEFINE l == ~Last
             p == IF Last THEN NoWrite ELSE xfer.write_pos
             f == xfer.formatting /\ ~Last
  <2>1. xfer \in Words16 /\ xfer.pos + 1 \in Nat
    BY DEF IInv, Typed, Words16
  <2>2. (~Last) \in BOOLEAN
    BY DEF Last
  <2>3. l \in BOOLEAN /\ p \in Int /\ f \in BOOLEAN
    BY <2>1, <2>2 DEF Words16, NoWrite
  <2>4. ~Last => p = xfer.write_pos /\ f = xfer.formatting
    BY <2>1 DEF Words16
  <2>5. x = [xfer EXCEPT !.pos = xfer.pos + 1, !.drq = l, !.write_pos = p, !.formatting = f]
    OBVIOUS
  <2> HIDE DEF x, l, p, f
  <2>6. /\ x \in Words16 /\ x.pos = xfer.pos + 1 /\ x.len = xfer.len /\ x.drq = l
        /\ x.multi = xfer.multi /\ x.write_pos = p /\ x.formatting = f
    BY <2>1, <2>3, <2>5 DEF Words16
  <2> QED
    BY <2>4, <2>6 DEF l
<1> HIDE DEF x
<1>7. ASSUME Last, ~xfer.formatting
      PROVE  /\ req.op = "write"
             /\ image' = [image EXCEPT ![req.drive] = BD!Overwrite(@, req.lba * SecWords, moved')]
             /\ image' \in [Drives -> Seq(Words)] /\ \A d \in Drives : Whole(image'[d])
  <2>1. Len(b) = xfer.len /\ b \in Seq(Words) /\ req.op = "write"
    BY <1>2, <1>5, <1>7 DEF Last
  <2>2. image' = [image EXCEPT ![task.drive] = BD!Overwrite(@, xfer.write_pos, b)]
    BY <1>3, <1>7
  <2> HIDE DEF b
  <2> QED
    BY <1>1, <1>5, <2>1, <2>2, StoreFacts
<1> HIDE DEF b
<1>8. image' \in [Drives -> Seq(Words)] /\ WholeImages'
  <2>1. CASE Last /\ ~xfer.formatting
    BY <1>7, <2>1 DEF WholeImages
  <2>2. CASE ~(Last /\ ~xfer.formatting)
    BY <1>3, <2>2 DEF IInv, Typed, WholeImages, Whole
  <2> QED
    BY <2>1, <2>2
<1>9. req' \in BD!Requests /\ (Last => req'.op = "none")
  BY <1>3, <1>4, NoRequestTyped
<1>10. Typed'
  BY <1>1, <1>3, <1>5, <1>6, <1>8, <1>9, AdvancedFacts DEF IInv, Typed, Words16
<1>11. CASE Last
  <2>1. ~GetDrq'
    BY <1>3, <1>6, <1>11 DEF GetDrq
  <2>2. IInv'
    BY <1>8, <1>10, <2>1 DEF IInv, DriverWaits, Serving
  <2>3. Len(moved) + 1 = BD!Size(req) /\ req' = BD!NoRequest
    BY <1>2, <1>3, <1>11 DEF Last, BD!Size
  <2>4. image' = IF req.op = "format" \/ ~Fits(req.drive, req.lba, moved') THEN image
                 ELSE [image EXCEPT ![req.drive] = BD!Overwrite(@, req.lba * SecWords, moved')]
    BY <1>2, <1>3, <1>7, <1>11 DEF Fits
  <2>5. BD!Store
    BY <1>2, <1>3, <1>4, <2>3, <2>4 DEF BD!Store
  <2> QED
    BY <2>2, <2>5
<1>12. CASE ~Last
  <2>1. UNCHANGED <<req, image>>
    BY <1>3, <1>12
  <2>2. GetDrq'
    <3>1. xfer'.drq
      BY <1>3, <1>6, <1>12
    <3>2. xfer'.pos < xfer'.len
      BY <1>3, <1>4, <1>6, <1>12 DEF Last
    <3> QED
      BY <3>1, <3>2 DEF GetDrq
  <2>3. Serving'
    BY <1>1, <1>2, <1>3, <1>5, <1>6, <1>12, <2>1, <2>2, WordOfMany
  <2>4. DriverWaits'
    BY <1>1 DEF IInv, DriverWaits
  <2>5. BD!Accept
    <3>1. Len(moved) + 1 < BD!Size(req)
      BY <1>2, <1>4, <1>12 DEF Last, BD!Size
    <3> QED
      BY <1>2, <1>3, <1>4, <2>1, <3>1 DEF BD!Accept
  <2> QED
    BY <1>8, <1>10, <2>3, <2>4, <2>5 DEF IInv
<1> QED
  BY <1>11, <1>12

-----------------------------------------------------------------------------
(* The other steps of the main thread, and the timer thread's.              *)

LEMMA WriteCommandKeeps ==
  ASSUME IInv, NEW c \in Commands, WriteCommand(c[1], c[2])
  PROVE  IInv' /\ (BD!Begin \/ BD!GiveUp)
<1> DEFINE cmd == c[1]
           multi == c[2]
<1>1. /\ drv = "idle" /\ drv' = "wait" /\ poll = "no" /\ UNCHANGED <<image, poll>> /\ moved' = << >>
      /\ cmd \in {"READ", "WRITE"} => task.count > 0 \/ GuestCountsZero
      /\ dma_reading' = (cmd # "READ")
  BY DEF WriteCommand, Issue, Running
<1>2. multi \in BOOLEAN
  BY WD2010Assumption
<1>3. /\ task \in [cyl : Nat, head : Nat, sec : Nat, count : Nat, drive : Drives]
      /\ at \in [track : 0..(Tracks - 1), head : Nat, sector : Nat]
      /\ xfer.formatting \in BOOLEAN
  BY DEF IInv, Typed
<1>4. ASSUME IInv', req' = BD!NoRequest PROVE IInv' /\ BD!GiveUp
  BY <1>1, <1>4 DEF BD!GiveUp
<1>5. ASSUME IInv' PROVE IInv' /\ BD!Begin
  BY <1>1, <1>5 DEF BD!Begin, IInv, Typed
<1> HIDE DEF cmd, multi
<1>6. CASE Restore
  BY <1>1, <1>5, <1>6, RestoreKeeps
<1>7. CASE SeekError(cmd)
  <2>1. Fail(Addressed(cmd), at, xfer.formatting)
    BY <1>7 DEF SeekError
  <2>2. IInv' /\ req' = BD!NoRequest
    BY <1>1, <1>3, <2>1, AddressedTyped, FailKeeps DEF Fail
  <2> QED
    BY <1>4, <2>2
<1>8. CASE BadAddress(cmd)
  <2>1. cmd \in {"READ", "WRITE"} /\ TrackExists(task.cyl) /\ Fail(task, Sought(cmd), FALSE)
    BY <1>8 DEF BadAddress
  <2>2. Addressed(cmd) = task
    BY <2>1 DEF Addressed
  <2>3. Sought(cmd) \in [track : 0..(Tracks - 1), head : Nat, sector : Nat]
    BY <2>1, <2>2, SoughtTyped
  <2>4. IInv' /\ req' = BD!NoRequest
    BY <1>1, <1>3, <2>1, <2>3, FailKeeps DEF Fail
  <2> QED
    BY <1>4, <2>4
<1>9. CASE Seek(cmd)
  BY <1>1, <1>5, <1>9, SeekKeeps
<1>10. CASE Transfer(cmd, multi)
  BY <1>1, <1>2, <1>5, <1>10, TransferKeeps
<1>11. CASE Unknown(cmd)
  <2>1. IInv' /\ req' = BD!NoRequest
    BY <1>1, <1>3, <1>11, FailKeeps DEF Fail, Unknown
  <2> QED
    BY <1>4, <2>1
<1> QED
  BY <1>6, <1>7, <1>8, <1>9, <1>10, <1>11 DEF WriteCommand, cmd, multi

\* A write to the task file meets a transfer only at the head bits.
LEMMA WriteTaskKeeps ==
  ASSUME IInv, NEW r \in DOMAIN TaskValues, NEW v \in TaskValues[r], WriteTask(r, v)
  PROVE  IInv' /\ UNCHANGED <<image, req, moved>>
<1>1. /\ (drv = "idle" \/ r = "head") /\ task' = [task EXCEPT ![r] = v]
      /\ UNCHANGED <<at, xfer, buf, image, drv, poll, dma_reading, req, moved>>
  BY DEF WriteTask, guest, ghosts
<1>2. r \in {"cyl", "head", "sec", "count", "drive"} /\ (r = "drive" => v \in Drives) /\ (r # "drive" => v \in Nat)
  BY WD2010Assumption
<1>3. task \in [cyl : Nat, head : Nat, sec : Nat, count : Nat, drive : Drives]
  BY DEF IInv, Typed
<1>4. task' \in [cyl : Nat, head : Nat, sec : Nat, count : Nat, drive : Drives]
  <2>1. CASE r = "cyl"
    BY <1>1, <1>2, <1>3, <2>1
  <2>2. CASE r = "head"
    BY <1>1, <1>2, <1>3, <2>2
  <2>3. CASE r = "sec"
    BY <1>1, <1>2, <1>3, <2>3
  <2>4. CASE r = "count"
    BY <1>1, <1>2, <1>3, <2>4
  <2>5. CASE r = "drive"
    BY <1>1, <1>2, <1>3, <2>5
  <2> QED
    BY <1>2, <2>1, <2>2, <2>3, <2>4, <2>5
<1>5. GetDrq => task'.drive = task.drive /\ task'.count = task.count /\ task'.sec = task.sec
  <2>1. GetDrq => r = "head"
    BY <1>1 DEF IInv, DriverWaits
  <2> QED
    BY <1>1, <1>2, <1>3, <2>1
<1>6. Typed' /\ WholeImages' /\ DriverWaits'
  BY <1>1, <1>4 DEF IInv, Typed, WholeImages, Whole, DriverWaits, GetDrq
<1>7. Serving'
  BY <1>1, <1>5 DEF IInv, Serving, GetDrq, Done
<1> QED
  BY <1>1, <1>6, <1>7 DEF IInv

\* Steps that end whatever was going on.
LEMMA GiveUpKeeps ==
  ASSUME IInv, UNCHANGED <<buf, image>>, req' = BD!NoRequest, moved' \in {moved, << >>},
         task' \in [cyl : Nat, head : Nat, sec : Nat, count : Nat, drive : Drives],
         at' \in [track : 0..(Tracks - 1), head : Nat, sector : Nat],
         NEW p \in Nat, NEW l \in Nat, NEW wp \in Int, l <= p,
         xfer' = [xfer EXCEPT !.pos = p, !.len = l, !.write_pos = wp]
  PROVE  IInv' /\ BD!GiveUp
<1>1. xfer' \in Words16 /\ xfer'.pos = p /\ xfer'.len = l
  BY DEF IInv, Typed, Words16
<1>2. Typed'
  <2>1. /\ moved \in Seq(Words) /\ << >> \in Seq(Words) /\ buf \in Seq(Words)
        /\ image \in [Drives -> Seq(Words)]
    BY DEF IInv, Typed
  <2>2. moved' \in Seq(Words) /\ buf' \in Seq(Words) /\ image' \in [Drives -> Seq(Words)]
    BY <2>1
  <2>3. req' \in BD!Requests
    BY NoRequestTyped
  <2> QED
    BY <1>1, <2>2, <2>3 DEF Typed, Words16
<1>3. ~GetDrq'
  BY <1>1 DEF GetDrq
<1> QED
  BY <1>2, <1>3, Resting DEF BD!GiveUp

LEMMA DmaMissKeeps == ASSUME IInv, DmaMiss PROVE IInv' /\ BD!GiveUp
<1> DEFINE n == xfer.len
<1>1. n \in Nat /\ xfer \in Words16
  BY DEF IInv, Typed, Words16
<1>2. xfer' = [xfer EXCEPT !.pos = n, !.len = n, !.write_pos = 0]
  <2>1. xfer' = [xfer EXCEPT !.pos = xfer.len, !.write_pos = 0]
    BY DEF DmaMiss
  <2> QED
    BY <1>1, <2>1 DEF Words16
<1>3. UNCHANGED <<task, at, buf, image, moved>> /\ req' = BD!NoRequest
  BY DEF DmaMiss, Finish
<1>4. n <= n
  BY <1>1
<1>5. /\ task' \in [cyl : Nat, head : Nat, sec : Nat, count : Nat, drive : Drives]
      /\ at' \in [track : 0..(Tracks - 1), head : Nat, sector : Nat]
      /\ moved' \in {moved, << >>} /\ 0 \in Int
  BY <1>3 DEF IInv, Typed
<1> HIDE DEF n
<1> QED
  BY <1>1, <1>2, <1>3, <1>4, <1>5, GiveUpKeeps

LEMMA ResetKeeps == ASSUME IInv, Reset PROVE IInv' /\ BD!GiveUp
<1>1. xfer' = [xfer EXCEPT !.pos = 0, !.len = 0, !.write_pos = xfer.write_pos]
  <2>1. xfer' = [xfer EXCEPT !.pos = 0, !.len = 0]
    BY DEF Reset
  <2>2. xfer \in Words16
    BY DEF IInv, Typed, Words16
  <2> QED
    BY <2>1, <2>2 DEF Words16
<1>2. UNCHANGED <<buf, image>> /\ req' = BD!NoRequest /\ moved' = << >> /\ task' = ResetTask /\ at' = ResetAt
  BY DEF Reset
<1>3. /\ task' \in [cyl : Nat, head : Nat, sec : Nat, count : Nat, drive : Drives]
      /\ at' \in [track : 0..(Tracks - 1), head : Nat, sector : Nat]
  BY <1>2, WD2010Assumption DEF ResetTask, ResetAt
<1>4. xfer.write_pos \in Int /\ 0 \in Nat /\ 0 <= 0 /\ moved' \in {moved, << >>}
  BY <1>2 DEF IInv, Typed
<1> QED
  BY <1>1, <1>2, <1>3, <1>4, GiveUpKeeps

LEMMA GuestKeeps ==
  ASSUME IInv, ReadBegins \/ ReadEnds \/ (\E b \in BOOLEAN : SetDmaEnable(b))
  PROVE  IInv' /\ UNCHANGED <<image, req, moved>>
<1>1. UNCHANGED <<device, dma_reading, req, moved>>
  BY DEF ReadBegins, ReadEnds, SetDmaEnable, ghosts
<1>2. DriverWaits'
  <2>1. CASE ReadBegins
    BY <1>1, <2>1 DEF ReadBegins, IInv, DriverWaits, Seen, GetDrq, device, Typed
  <2>2. CASE ReadEnds
    BY <1>1, <2>2 DEF ReadEnds, IInv, DriverWaits, Seen, GetDrq, device, Typed
  <2>3. CASE \E b \in BOOLEAN : SetDmaEnable(b)
    BY <1>1, <2>3 DEF SetDmaEnable, IInv, DriverWaits, GetDrq, device
  <2> QED
    BY <2>1, <2>2, <2>3
<1>3. Typed' /\ WholeImages' /\ Serving'
  BY <1>1 DEF IInv, Typed, WholeImages, Whole, Serving, GetDrq, Done, device
<1> QED
  BY <1>1, <1>2, <1>3 DEF IInv, device

LEMMA TimerKeeps ==
  ASSUME IInv, TimerThread PROVE IInv' /\ (BD!GiveUp \/ UNCHANGED <<image, req, moved>>)
<1>1. UNCHANGED <<device, guest, moved>>
  BY DEF TimerThread, SeekStatus, SeekIrq, ghosts
<1>2. req' = req \/ (req' = BD!NoRequest /\ req.op = "seek")
  BY DEF TimerThread, SeekStatus, SeekIrq, ghosts
<1>3. BD!GiveUp \/ UNCHANGED <<image, req, moved>>
  BY <1>1, <1>2 DEF BD!GiveUp, device
<1>4. Typed'
  BY <1>1, <1>2, NoRequestTyped DEF IInv, Typed, device
<1>5. WholeImages' /\ DriverWaits'
  BY <1>1 DEF IInv, WholeImages, Whole, DriverWaits, GetDrq, device, guest
<1>6. Serving'
  <2>1. CASE req' = req
    BY <1>1, <2>1 DEF IInv, Serving, GetDrq, Done, device, guest
  <2>2. CASE req.op = "seek"
    BY <1>1, <2>2 DEF IInv, Serving, GetDrq, device, Transferring
  <2> QED
    BY <1>2, <2>1, <2>2
<1> QED
  BY <1>3, <1>4, <1>5, <1>6 DEF IInv

-----------------------------------------------------------------------------
(* What the interrupt means to a driver that waits for it.                  *)

\* A command: the driver was idle, so no timer ran and no word was asked for.
LEMMA IrqAfterCommand ==
  ASSUME IInv, IrqInv, NEW cmd, NEW multi, WriteCommand(cmd, multi) PROVE IrqInv'
<1>1. /\ poll = "no" /\ drv = "idle" /\ drv' = "wait" /\ UNCHANGED <<poll, firing>>
  BY DEF WriteCommand, Issue, Running
<1>2. timers = 0 /\ firing = FALSE /\ ~GetDrq
  BY <1>1 DEF IrqInv, OneTimer, IInv, DriverWaits
<1>3. ASSUME NEW t, NEW a, NEW f, Fail(t, a, f) PROVE IrqInv'
  <2>1. /\ xfer' = [xfer EXCEPT !.formatting = f] /\ status' = "error" /\ irq' = TRUE
        /\ req' = BD!NoRequest /\ UNCHANGED timers
    BY <1>3 DEF Fail
  <2>2. ~GetDrq'
    BY <1>2, <2>1 DEF GetDrq, IInv, Typed
  <2> QED
    BY <1>1, <1>2, <2>1, <2>2, NoRequestTyped DEF IrqInv, IrqMeansDone, OneTimer
<1>4. ASSUME timers' \in {0, 1}, irq' = FALSE, ~GetDrq', req'.op = "seek" PROVE IrqInv'
  BY <1>1, <1>2, <1>4 DEF IrqInv, IrqMeansDone, OneTimer
<1>5. CASE Restore
  <2>1. ~GetDrq' /\ timers' \in {0, 1} /\ irq' = FALSE
    BY <1>2, <1>5 DEF Restore, GetDrq
  <2>2. req'.op = "seek"
    BY <1>5, NoRequestTyped DEF Restore
  <2> QED
    BY <1>4, <2>1, <2>2
<1>6. CASE SeekError(cmd) \/ BadAddress(cmd) \/ Unknown(cmd)
  BY <1>3, <1>6 DEF SeekError, BadAddress, Unknown
<1>7. CASE Seek(cmd)
  <2>1. xfer' = [xfer EXCEPT !.formatting = FALSE] /\ timers' \in {0, 1} /\ irq' = FALSE
    BY <1>2, <1>7 DEF Seek
  <2>2. ~GetDrq'
    BY <1>2, <2>1 DEF GetDrq, IInv, Typed
  <2>3. req'.op = "seek"
    BY <1>7, NoRequestTyped DEF Seek
  <2> QED
    BY <1>4, <2>1, <2>2, <2>3
<1>8. CASE Transfer(cmd, multi)
  <2>1. irq' = FALSE /\ UNCHANGED timers
    BY <1>8 DEF Transfer
  <2> QED
    BY <1>1, <1>2, <2>1 DEF IrqInv, IrqMeansDone, OneTimer
<1> QED
  BY <1>5, <1>6, <1>7, <1>8 DEF WriteCommand

\* A word: the last one ends the request and raises the interrupt, and those
\* before it find the interrupt down.
LEMMA IrqAfterWord ==
  ASSUME IInv, IrqInv, DmaRead \/ (\E w \in MemoryWords : DmaWrite(w)) PROVE IrqInv'
<1>1. GetDrq /\ UNCHANGED <<timer, guest>>
  BY DEF DmaRead, DmaWrite
<1>2. timers = 0 /\ firing = FALSE /\ irq = FALSE
  BY <1>1 DEF IrqInv, OneTimer, IrqMeansDone
<1>3. CASE UNCHANGED lines
  BY <1>1, <1>2, <1>3 DEF IrqInv, OneTimer, IrqMeansDone, timer, lines
<1>4. ASSUME ~GetDrq', Finish PROVE IrqInv'
  BY <1>1, <1>2, <1>4, NoRequestTyped DEF IrqInv, OneTimer, IrqMeansDone, timer, Finish
<1>5. xfer \in Words16
  BY DEF IInv, Typed, Words16
<1>6. CASE DmaRead
  <2>1. xfer' = [xfer EXCEPT !.pos = @ + 1, !.drq = ~Last]
    BY <1>6 DEF DmaRead
  <2>2. Last => xfer'.drq = FALSE
    BY <1>5, <2>1 DEF Words16
  <2> QED
    BY <1>3, <1>4, <1>6, <2>2 DEF DmaRead, GetDrq
<1>7. CASE \E w \in MemoryWords : DmaWrite(w)
  <2>1. CASE xfer.write_pos = NoWrite
    BY <1>3, <1>7, <2>1 DEF DmaWrite
  <2>2. CASE xfer.write_pos # NoWrite
    <3>1. xfer' = [xfer EXCEPT !.pos = @ + 1, !.drq = ~Last,
                     !.write_pos = IF Last THEN NoWrite ELSE @, !.formatting = @ /\ ~Last]
          /\ IF Last THEN Finish ELSE UNCHANGED <<lines, req>>
      BY <1>7, <2>2 DEF DmaWrite
    <3>2. Last => xfer'.drq = FALSE
      BY <1>5, <3>1 DEF Words16
    <3> QED
      BY <1>3, <1>4, <3>1, <3>2 DEF GetDrq
  <2> QED
    BY <2>1, <2>2
<1> QED
  BY <1>6, <1>7

\* The other steps.  Without polling a status read begins with the interrupt up,
\* when no timer runs.
LEMMA IrqAfterOthers ==
  ASSUME IInv, IrqInv, ~GuestPolls,
         \/ \E r \in DOMAIN TaskValues : \E v \in TaskValues[r] : WriteTask(r, v)
         \/ DmaMiss \/ ReadBegins \/ ReadEnds \/ TimerThread \/ UNCHANGED vars
         \/ \E b \in BOOLEAN : SetDmaEnable(b)
  PROVE  IrqInv'
<1> USE DEF IrqInv, OneTimer, IrqMeansDone, GetDrq
<1>1. CASE \E r \in DOMAIN TaskValues : \E v \in TaskValues[r] : WriteTask(r, v)
  BY <1>1 DEF WriteTask, guest, lines, timer, ghosts
<1>2. CASE DmaMiss
  <2>1. xfer'.pos = xfer.len /\ xfer'.len = xfer.len /\ xfer.len \in Nat
    BY <1>2 DEF DmaMiss, IInv, Typed
  <2>2. ~GetDrq'
    BY <2>1
  <2> QED
    BY <1>2, <2>2, NoRequestTyped DEF DmaMiss, Finish, timer, guest
<1>3. CASE ReadBegins
  BY <1>3 DEF ReadBegins, device, timer, ghosts
<1>4. CASE ReadEnds
  BY <1>4 DEF ReadEnds, device, timer, ghosts
<1>5. CASE SeekStatus
  BY <1>5 DEF SeekStatus, device, guest, ghosts
<1>6. CASE SeekIrq
  <2>1. firing = TRUE /\ timers = 1 /\ status = "ready" /\ req.op = "seek" /\ ~GetDrq
    BY <1>6 DEF SeekIrq
  <2>2. /\ irq' = TRUE /\ firing' = FALSE /\ timers' = 0 /\ req' = BD!NoRequest
        /\ UNCHANGED <<device, status, guest>>
    BY <1>6, <2>1 DEF SeekIrq
  <2>3. irq' \in BOOLEAN /\ firing' \in BOOLEAN /\ ~firing'
    BY <2>2
  <2>4. req'.op = "none" /\ ~GetDrq' /\ status' = "ready"
    BY <2>1, <2>2, NoRequestTyped DEF device
  <2> QED
    BY <2>2, <2>3, <2>4
<1>7. CASE \E b \in BOOLEAN : SetDmaEnable(b)
  BY <1>7 DEF SetDmaEnable, device, lines, timer, ghosts
<1>8. CASE UNCHANGED vars
  BY <1>8 DEF vars, device, lines, timer, guest, ghosts
<1> QED
  BY <1>1, <1>2, <1>3, <1>4, <1>5, <1>6, <1>7, <1>8 DEF TimerThread

-----------------------------------------------------------------------------
(* The results.                                                             *)

LEMMA InitIInv == ASSUME WholeDiscs PROVE Init => IInv /\ BD!BDInit
<1> SUFFICES ASSUME Init PROVE IInv /\ BD!BDInit
  OBVIOUS
<1>1. Typed
  BY WD2010Assumption, NoRequestTyped DEF Init, Typed, ResetTask, ResetAt
<1>2. ~GetDrq /\ WholeImages
  BY DEF Init, GetDrq, WholeImages, WholeDiscs
<1> QED
  BY <1>1, <1>2 DEF IInv, DriverWaits, Serving, BD!BDInit, Init

LEMMA NextIInv == IInv /\ [Next]_vars => IInv' /\ [BD!BDNext]_(BD!bdvars)
<1> SUFFICES ASSUME IInv, [Next]_vars PROVE IInv' /\ [BD!BDNext]_(BD!bdvars)
  OBVIOUS
<1> USE DEF BD!BDNext, BD!bdvars
<1>1. CASE TimerThread
  BY <1>1, TimerKeeps
<1>2. CASE \E r \in DOMAIN TaskValues : \E v \in TaskValues[r] : WriteTask(r, v)
  BY <1>2, WriteTaskKeeps
<1>3. CASE \E c \in Commands : WriteCommand(c[1], c[2])
  BY <1>3, WriteCommandKeeps
<1>4. CASE DmaRead
  BY <1>4, DmaReadKeeps
<1>5. CASE \E w \in MemoryWords : DmaWrite(w)
  BY <1>5, DmaWriteKeeps
<1>6. CASE DmaMiss
  BY <1>6, DmaMissKeeps
<1>7. CASE ReadBegins \/ ReadEnds \/ (\E b \in BOOLEAN : SetDmaEnable(b))
  BY <1>7, GuestKeeps
<1>8. CASE Reset
  BY <1>8, ResetKeeps
<1>9. CASE UNCHANGED vars
  BY <1>9 DEF vars, device, guest, ghosts, IInv, Typed, WholeImages, Whole, DriverWaits,
              Serving, GetDrq, Done
<1> QED
  BY <1>1, <1>2, <1>3, <1>4, <1>5, <1>6, <1>7, <1>8, <1>9 DEF Next, MainThread

LEMMA AlwaysIInv == ASSUME WholeDiscs PROVE Spec => []IInv
  BY InitIInv, NextIInv, PTL DEF Spec

\* The controller is a block device for drives of any geometry, any contents, and
\* any driver: one that polls, stops the DMA engine, resets the controller in
\* the middle of a transfer, or transfers with a count of zero.
THEOREM ControllerIsBlockDevice == ASSUME WholeDiscs PROVE Spec => ImplementsBlockDevice
<1>1. Spec => BD!BDSpec
  BY InitIInv, NextIInv, PTL DEF Spec, BD!BDSpec
<1> QED
  BY <1>1 DEF ImplementsBlockDevice

\* The task file always says where a multiple sector transfer has come to.
THEOREM TaskFilePointsAtSector == ASSUME WholeDiscs PROVE Spec => []TaskFileFollows
<1>1. IInv => TaskFileFollows
  BY DEF IInv, Serving, TaskFileFollows, Done
<1> QED
  BY <1>1, AlwaysIInv, PTL

\* A driver that polls never goes on while words of its transfer are asked for,
\* though the status may be that of another command, or of a seek timer that a
\* reset has not stopped.
THEOREM IdleDriverIsNotAsked == ASSUME WholeDiscs PROVE Spec => []IdleMeansNoDrq
<1>1. IInv => IdleMeansNoDrq
  BY DEF IInv, DriverWaits, IdleMeansNoDrq
<1> QED
  BY <1>1, AlwaysIInv, PTL

\* To a driver that waits for the interrupt, and resets no drive that seeks, the
\* interrupt means that its command is over: nothing is being served, no word
\* is asked for, and the status says ready or error (the order of the two
\* stores of seek_complete, and the returns of wd2010_write_cmd).
THEOREM InterruptMeansDone ==
  ASSUME WholeDiscs, ~GuestPolls, ~GuestResets PROVE Spec => []IrqMeansDone
<1>1. Init => IrqInv
  <2> SUFFICES ASSUME Init PROVE IrqInv
    OBVIOUS
  <2>1. irq = FALSE /\ firing = FALSE /\ timers = 0
    BY DEF Init
  <2>2. irq \in BOOLEAN /\ firing \in BOOLEAN /\ ~irq /\ ~firing
    BY <2>1
  <2> QED
    BY <2>1, <2>2 DEF IrqInv, OneTimer, IrqMeansDone
<1>2. IInv /\ IrqInv /\ [Next]_vars => IrqInv'
  <2> SUFFICES ASSUME IInv, IrqInv, [Next]_vars PROVE IrqInv'
    OBVIOUS
  <2>1. ~Reset
    BY DEF Reset
  <2> QED
    BY <2>1, IrqAfterCommand, IrqAfterWord, IrqAfterOthers DEF Next, MainThread
<1>3. IrqInv => IrqMeansDone
  BY DEF IrqInv
<1> QED
  BY <1>1, <1>2, <1>3, AlwaysIInv, PTL DEF Spec
=============================================================================
