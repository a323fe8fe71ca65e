---------------------------- MODULE WD2797Proofs ----------------------------
(***************************************************************************)
(* Proofs about the floppy controller: that it is a block device over raw  *)
(* and ImageDisk files of any geometry and any order of records, through   *)
(* discs that come and go; what its interrupt means; and that a transfer   *)
(* that was given up does not pass for a complete one.                     *)
(***************************************************************************)
EXTENDS WD2797, FiniteSetTheorems, FunctionTheorems, SequenceTheorems,
        WellFoundedInduction, TLAPS

-----------------------------------------------------------------------------
(* Arithmetic of sectors.                                                   *)

LEMMA TimesMonotone ==
  ASSUME NEW a \in Nat, NEW b \in Nat, NEW k \in Nat, a <= b
  PROVE  a * k <= b * k
  OBVIOUS

LEMMA TimesNext ==
  ASSUME NEW a \in Nat, NEW b \in Nat, NEW k \in Nat, a < b
  PROVE  a * k + k <= b * k
  OBVIOUS

LEMMA TimesSum ==
  ASSUME NEW a \in Nat, NEW b \in Nat, NEW k \in Nat
  PROVE  (a + b) * k = a * k + b * k
  OBVIOUS

LEMMA DivMod ==
  ASSUME NEW y \in Nat, NEW k \in Nat \ {0}
  PROVE  /\ y \div k \in Nat /\ y % k \in 0..(k - 1)
         /\ y = (y \div k) * k + (y % k)
  OBVIOUS

LEMMA DivUnique ==
  ASSUME NEW p \in Nat, NEW q \in Nat, NEW k \in Nat \ {0},
         NEW r \in 0..(k - 1), NEW s \in 0..(k - 1), p * k + r = q * k + s
  PROVE  p = q /\ r = s
<1>1. p * k \in Int /\ q * k \in Int
  OBVIOUS
<1>2. ~(p < q) /\ ~(q < p)
  BY <1>1, TimesNext
<1> QED
  BY <1>1, <1>2

-----------------------------------------------------------------------------
(* The number of a sector.                                                  *)

Grid == (0..(Tracks - 1)) \X (0..(Heads - 1)) \X (1..Spt)
Place(b) == (b[1] * Heads + b[2]) * Spt + (b[3] - 1)
Total == (Tracks * Heads) * Spt

LEMMA Geometry ==
  /\ Tracks \in Nat \ {0} /\ Heads \in Nat \ {0} /\ Spt \in Nat \ {0} /\ SecWords \in Nat \ {0}
  /\ Total \in Nat /\ Total >= 1
<1>1. /\ Tracks \in Nat \ {0} /\ Heads \in Nat \ {0} /\ Spt \in Nat \ {0} /\ SecWords \in Nat \ {0}
  BY DiskImageAssumption
<1>2. 1 * Heads <= Tracks * Heads /\ Tracks * Heads \in Nat
  BY <1>1, TimesMonotone
<1>3. 1 * Spt <= (Tracks * Heads) * Spt /\ (Tracks * Heads) * Spt \in Nat
  BY <1>1, <1>2, TimesMonotone
<1> QED
  BY <1>1, <1>3 DEF Total

\* Tracks and heads together, as a first digit over the sector's.
LEMMA TrackPlace ==
  ASSUME NEW t \in 0..(Tracks - 1), NEW h \in 0..(Heads - 1)
  PROVE  t * Heads + h \in Nat /\ t * Heads + h < Tracks * Heads
<1>1. t * Heads + Heads <= Tracks * Heads
  BY Geometry, TimesNext
<1>2. t * Heads \in Nat /\ Tracks * Heads \in Nat
  BY Geometry
<1> QED
  BY <1>1, <1>2, Geometry

LEMMA TrackUnique ==
  ASSUME NEW t \in 0..(Tracks - 1), NEW u \in 0..(Tracks - 1),
         NEW h \in 0..(Heads - 1), NEW g \in 0..(Heads - 1), t * Heads + h = u * Heads + g
  PROVE  t = u /\ h = g
<1>1. t \in Nat /\ u \in Nat /\ Heads \in Nat \ {0}
  BY Geometry
<1> QED
  BY <1>1, DivUnique

\* The LBA of the code as two digits.
LEMMA LbaFacts ==
  ASSUME NEW t \in 0..(Tracks - 1), NEW h \in 0..(Heads - 1), NEW s \in 1..Spt
  PROVE  /\ Lba(t, h, s) = (t * Heads + h) * Spt + (s - 1)
         /\ Lba(t, h, s) \in 0..(Total - 1) /\ (t * Heads + h) * Spt \in Nat
         /\ (t * Heads + h) * Spt + Spt <= Total
<1> DEFINE q == t * Heads
           p == (q + h) * Spt
<1>1. q \in Nat /\ q + h \in Nat /\ q + h < Tracks * Heads /\ Tracks * Heads \in Nat /\ h \in Nat
  BY TrackPlace, Geometry
<1>2. Lba(t, h, s) = q * Spt + h * Spt + s - 1
  BY DEF Lba
<1> HIDE DEF q
<1>3. p = q * Spt + h * Spt /\ q * Spt \in Nat /\ h * Spt \in Nat
  BY <1>1, Geometry, TimesSum
<1>4. p + Spt <= Total
  BY <1>1, Geometry, TimesNext DEF Total
<1> DEFINE a == q * Spt
           b == h * Spt
<1> HIDE DEF p, a, b
<1>5. p = a + b /\ a \in Nat /\ b \in Nat /\ Lba(t, h, s) = a + b + s - 1
  BY <1>2, <1>3 DEF a, b
<1>6. p \in Nat /\ Lba(t, h, s) = p + (s - 1)
  BY <1>5, Geometry
<1>7. Lba(t, h, s) \in 0..(Total - 1)
  BY <1>4, <1>6, Geometry
<1> QED
  BY <1>4, <1>6, <1>7 DEF p, q

\* No two sectors have one place, and every place is that of a sector.
LEMMA PlaceInjective ==
  ASSUME NEW b \in Grid, NEW c \in Grid, Place(b) = Place(c)
  PROVE  b = c
<1>1. /\ b[1] \in 0..(Tracks - 1) /\ b[2] \in 0..(Heads - 1) /\ b[3] - 1 \in 0..(Spt - 1) /\ b[3] \in Int
      /\ c[1] \in 0..(Tracks - 1) /\ c[2] \in 0..(Heads - 1) /\ c[3] - 1 \in 0..(Spt - 1) /\ c[3] \in Int
  BY Geometry DEF Grid
<1> DEFINE p == b[1] * Heads + b[2]
           q == c[1] * Heads + c[2]
           i == b[3] - 1
           j == c[3] - 1
<1>2. p = q /\ i = j
  <2>1. p \in Nat /\ q \in Nat /\ p * Spt + i = q * Spt + j /\ i \in 0..(Spt - 1) /\ j \in 0..(Spt - 1)
    BY <1>1, TrackPlace DEF Place
  <2> HIDE DEF p, q, i, j
  <2> QED
    BY <2>1, Geometry, DivUnique
<1>3. b[1] = c[1] /\ b[2] = c[2]
  BY <1>1, <1>2, TrackUnique
<1>4. b[3] = c[3]
  BY <1>1, <1>2
<1> QED
  BY <1>3, <1>4 DEF Grid

\* The digits of a place.
LEMMA Digits ==
  ASSUME NEW y \in 0..(Total - 1)
  PROVE  /\ y \div Spt \in Nat /\ y % Spt \in 0..(Spt - 1) /\ y = (y \div Spt) * Spt + (y % Spt)
         /\ (y \div Spt) \div Heads \in 0..(Tracks - 1) /\ (y \div Spt) % Heads \in 0..(Heads - 1)
         /\ y \div Spt = ((y \div Spt) \div Heads) * Heads + ((y \div Spt) % Heads)
         /\ y \div Spt < Tracks * Heads
<1> DEFINE q == y \div Spt
           s == y % Spt
           t == q \div Heads
           h == q % Heads
<1>1. y \in Nat /\ y < Total /\ Total \in Nat
  BY Geometry
<1>2. q \in Nat /\ s \in 0..(Spt - 1) /\ y = q * Spt + s
  BY <1>1, Geometry, DivMod
<1> HIDE DEF q, s
<1>3. q < Tracks * Heads
  <2>1. ~(Tracks * Heads <= q)
    <3>1. Tracks * Heads <= q => Total <= q * Spt
      BY <1>2, Geometry, TimesMonotone DEF Total
    <3>2. q * Spt \in Nat
      BY <1>2, Geometry
    <3> QED
      BY <1>1, <1>2, <3>1, <3>2
  <2> QED
    BY <1>2, <2>1, Geometry
<1>4. t \in Nat /\ h \in 0..(Heads - 1) /\ q = t * Heads + h
  BY <1>2, Geometry, DivMod
<1> HIDE DEF t, h
<1>5. t < Tracks
  <2>1. Tracks <= t => Tracks * Heads <= t * Heads
    BY <1>4, Geometry, TimesMonotone
  <2>2. t * Heads \in Nat /\ Tracks * Heads \in Nat
    BY <1>4, Geometry
  <2> QED
    BY <1>3, <1>4, <2>1, <2>2, Geometry
<1>6. t \in 0..(Tracks - 1)
  BY <1>4, <1>5, Geometry
<1> QED
  BY <1>2, <1>3, <1>4, <1>6 DEF t, h, q, s

LEMMA PlaceOnto ==
  ASSUME NEW y \in 0..(Total - 1) PROVE \E b \in Grid : Place(b) = y
<1> DEFINE q == y \div Spt
           s == y % Spt
           t == q \div Heads
           h == q % Heads
<1>1. /\ q \in Nat /\ s \in 0..(Spt - 1) /\ y = q * Spt + s
      /\ t \in 0..(Tracks - 1) /\ h \in 0..(Heads - 1) /\ q = t * Heads + h
  BY Digits
<1> HIDE DEF q, s, t, h
<1>2. <<t, h, s + 1>> \in Grid /\ (s + 1) - 1 = s
  BY <1>1, Geometry DEF Grid
<1> QED
  BY <1>1, <1>2 DEF Place

\* The place says which of two sectors comes first.
LEMMA PlaceOrder ==
  ASSUME NEW t \in 0..(Tracks - 1), NEW h \in 0..(Heads - 1), NEW s \in 1..Spt, NEW b \in Grid
  PROVE  Place(b) < (t * Heads + h) * Spt + (s - 1) <=>
           b[1] < t \/ (b[1] = t /\ b[2] < h) \/ (b[1] = t /\ b[2] = h /\ b[3] < s)
<1>1. b[1] \in 0..(Tracks - 1) /\ b[2] \in 0..(Heads - 1) /\ b[3] \in 1..Spt
  BY DEF Grid
<1> DEFINE p == b[1] * Heads + b[2]
           q == t * Heads + h
<1>2. p \in Nat /\ q \in Nat
  BY <1>1, TrackPlace
<1>3. p < q <=> b[1] < t \/ (b[1] = t /\ b[2] < h)
  <2>1. b[1] < t => b[1] * Heads + Heads <= t * Heads
    BY <1>1, Geometry, TimesNext
  <2>2. t < b[1] => t * Heads + Heads <= b[1] * Heads
    BY <1>1, Geometry, TimesNext
  <2>3. b[1] * Heads \in Nat /\ t * Heads \in Nat
    BY <1>1, Geometry
  <2> QED
    BY <1>1, <2>1, <2>2, <2>3, Geometry
<1>4. p = q <=> b[1] = t /\ b[2] = h
  <2>1. ASSUME p = q PROVE b[1] = t /\ b[2] = h
    BY <1>1, <2>1, TrackUnique
  <2> QED
    BY <2>1
<1> HIDE DEF p, q
<1>5. p * Spt + (b[3] - 1) < q * Spt + (s - 1) <=> p < q \/ (p = q /\ b[3] < s)
  <2>1. p < q => p * Spt + Spt <= q * Spt
    BY <1>2, Geometry, TimesNext
  <2>2. q < p => q * Spt + Spt <= p * Spt
    BY <1>2, Geometry, TimesNext
  <2>3. p * Spt \in Nat /\ q * Spt \in Nat
    BY <1>2, Geometry
  <2> QED
    BY <1>1, <1>2, <2>1, <2>2, <2>3, Geometry
<1> QED
  BY <1>3, <1>4, <1>5 DEF Place, p, q

Before(t, h, s) ==
  {b \in Grid : \/ b[1] < t
                \/ b[1] = t /\ b[2] < h
                \/ b[1] = t /\ b[2] = h /\ b[3] < s}

LEMMA BeforeFinite ==
  ASSUME NEW t, NEW h, NEW s
  PROVE  SectorsBefore(t, h, s) = Cardinality(Before(t, h, s)) /\ SectorsBefore(t, h, s) \in Nat
<1>1. SectorsBefore(t, h, s) = Cardinality(Before(t, h, s))
  BY DEF SectorsBefore, Before, Grid
<1> DEFINE B == Before(t, h, s)
           f == [b \in B |-> Place(b)]
<1>3. ASSUME NEW b \in Grid PROVE Place(b) \in 0..(Total - 1)
  <2>1. b[1] \in 0..(Tracks - 1) /\ b[2] \in 0..(Heads - 1) /\ b[3] \in 1..Spt
    BY DEF Grid
  <2>2. Lba(b[1], b[2], b[3]) = Place(b) /\ Lba(b[1], b[2], b[3]) \in 0..(Total - 1)
    BY <2>1, LbaFacts DEF Place
  <2> QED
    BY <2>2
<1>4. f \in Injection(B, 0..(Total - 1))
  <2>1. f \in [B -> 0..(Total - 1)]
    BY <1>3 DEF Before
  <2>2. \A b, c \in B : f[b] = f[c] => b = c
    BY PlaceInjective DEF Before
  <2> QED
    BY <2>1, <2>2 DEF Injection, IsInjective
<1>5. IsFiniteSet(0..(Total - 1))
  BY Geometry, FS_Interval
<1>6. IsFiniteSet(B)
  BY <1>4, <1>5, FS_Injection
<1> QED
  BY <1>1, <1>6, FS_CardinalityType

\* The LBA of the code is the number of sectors before, on any geometry.
LEMMA LbaCounts ==
  ASSUME NEW t \in 0..(Tracks - 1), NEW h \in 0..(Heads - 1), NEW s \in 1..Spt
  PROVE  SectorsBefore(t, h, s) = Lba(t, h, s)
<1> DEFINE n == Lba(t, h, s)
           B == Before(t, h, s)
           f == [b \in B |-> Place(b)]
<1>1. n \in Nat /\ n < Total /\ n = (t * Heads + h) * Spt + (s - 1)
  BY LbaFacts, Geometry
<1>2. \A b \in Grid : b \in B <=> Place(b) < n
  BY <1>1, PlaceOrder DEF Before
<1>3. \A b \in Grid : Place(b) \in Nat
  <2> SUFFICES ASSUME NEW b \in Grid PROVE Place(b) \in Nat
    OBVIOUS
  <2>1. b[1] \in 0..(Tracks - 1) /\ b[2] \in 0..(Heads - 1) /\ b[3] \in 1..Spt
    BY DEF Grid
  <2>2. Lba(b[1], b[2], b[3]) = Place(b) /\ Lba(b[1], b[2], b[3]) \in 0..(Total - 1)
    BY <2>1, LbaFacts DEF Place
  <2> QED
    BY <2>2
<1>8. B \subseteq Grid
  BY DEF Before
<1> HIDE DEF n, B
<1>4. f \in Injection(B, 0..(n - 1))
  <2>1. f \in [B -> 0..(n - 1)]
    BY <1>1, <1>2, <1>3, <1>8
  <2>2. \A b, c \in B : f[b] = f[c] => b = c
    BY <1>8, PlaceInjective
  <2> QED
    BY <2>1, <2>2 DEF Injection, IsInjective
<1>5. f \in Surjection(B, 0..(n - 1))
  <2>1. ASSUME NEW y \in 0..(n - 1) PROVE \E b \in B : f[b] = y
    <3>1. y \in 0..(Total - 1) /\ y < n
      BY <1>1, Geometry
    <3>2. PICK b \in Grid : Place(b) = y
      BY <3>1, PlaceOnto
    <3>3. b \in B
      BY <1>2, <3>1, <3>2
    <3> QED
      BY <3>2, <3>3
  <2> QED
    BY <1>4, <2>1 DEF Surjection, Injection
<1>6. IsFiniteSet(0..(n - 1)) /\ Cardinality(0..(n - 1)) = n
  <2>1. 0 \in Int /\ n - 1 \in Int
    BY <1>1
  <2>2. /\ IsFiniteSet(0..(n - 1))
        /\ Cardinality(0..(n - 1)) = IF 0 > n - 1 THEN 0 ELSE (n - 1) - 0 + 1
    BY <2>1, FS_Interval, Zenon
  <2> QED
    BY <1>1, <2>2
<1>7. Cardinality(B) = n
  BY <1>4, <1>5, <1>6, FS_Injection
<1> QED
  BY <1>7, BeforeFinite DEF n, B

\* wd279x.c's way back from the LBA to a sector is the way it came.
LEMMA WrittenBack ==
  ASSUME NEW y \in 0..(Total - 1) PROVE Written(y) = y
<1> DEFINE q == y \div Spt
           s == y % Spt
           t == q \div Heads
           h == q % Heads
           u == y \div (Heads * Spt)
<1>1. /\ q \in Nat /\ s \in 0..(Spt - 1) /\ y = q * Spt + s
      /\ t \in 0..(Tracks - 1) /\ h \in 0..(Heads - 1) /\ q = t * Heads + h
  BY Digits
<1>2. Written(y) = Lba(u, h, s + 1)
  BY DEF Written
<1>3. u = t
  <2> DEFINE k == Heads * Spt
             v == y % k
             w == h * Spt + s
  <2>1. k \in Nat \ {0}
    <3>1. 1 * Spt <= Heads * Spt /\ Heads * Spt \in Nat
      BY Geometry, TimesMonotone
    <3> QED
      BY <3>1, Geometry
  <2>2. y \in Nat
    BY Geometry
  <2> HIDE DEF k, q, s, t, h
  <2>3. u = y \div k
    BY DEF k
  <2>4. u \in Nat /\ v \in 0..(k - 1) /\ y = u * k + v
    BY <2>1, <2>2, <2>3, DivMod
  <2>5. w \in 0..(k - 1)
    <3>1. h * Spt + Spt <= k /\ h * Spt \in Nat
      BY <1>1, Geometry, TimesNext DEF k
    <3> QED
      BY <1>1, <2>1, <3>1, Geometry
  <2>6. y = t * k + w
    <3>1. (t * Heads + h) * Spt = (t * Heads) * Spt + h * Spt /\ t * Heads \in Nat /\ h \in Nat
      BY <1>1, Geometry, TimesSum
    <3>2. (t * Heads) * Spt = t * k /\ t * k \in Nat /\ h * Spt \in Nat
      BY <1>1, <2>1, Geometry DEF k
    <3> DEFINE a == t * k
               b == h * Spt
    <3>3. y = (a + b) + s /\ a \in Nat /\ b \in Nat
      BY <1>1, <3>1, <3>2
    <3> HIDE DEF a, b
    <3>4. y = a + (b + s)
      BY <1>1, <3>3, Geometry
    <3> QED
      BY <3>4 DEF a, b
  <2> HIDE DEF u, v, w
  <2> QED
    BY <1>1, <2>1, <2>4, <2>5, <2>6, Geometry, DivUnique
<1> HIDE DEF q, s, t, h, u
<1>4. s + 1 \in 1..Spt /\ (s + 1) - 1 = s
  BY <1>1, Geometry
<1>5. Lba(t, h, s + 1) = (t * Heads + h) * Spt + ((s + 1) - 1)
  BY <1>1, <1>4, LbaFacts
<1> QED
  BY <1>1, <1>2, <1>3, <1>4, <1>5
-----------------------------------------------------------------------------
(* Sectors one after another.                                               *)

SectorData == {w \in Seq(Words) : Len(w) = SecWords}

LEMMA FunctionIsSeq ==
  ASSUME NEW T, NEW n \in Nat, NEW f \in [1..n -> T] PROVE f \in Seq(T) /\ Len(f) = n
  OBVIOUS

\* Where the x-th word lies among sectors.
LEMMA WordPlace ==
  ASSUME NEW i \in Nat, NEW x \in 1..(i * SecWords)
  PROVE  /\ (x - 1) \div SecWords \in 0..(i - 1) /\ (x - 1) % SecWords \in 0..(SecWords - 1)
         /\ x - 1 = ((x - 1) \div SecWords) * SecWords + ((x - 1) % SecWords)
<1> DEFINE q == (x - 1) \div SecWords
           r == (x - 1) % SecWords
<1>1. i * SecWords \in Nat /\ x \in Int /\ 1 <= x /\ x <= i * SecWords
  BY Geometry
<1>2. x - 1 \in Nat
  BY <1>1
<1>3. q \in Nat /\ r \in 0..(SecWords - 1) /\ x - 1 = q * SecWords + r
  BY <1>2, Geometry, DivMod
<1> HIDE DEF q, r
<1>4. ASSUME i <= q PROVE FALSE
  <2>1. i * SecWords <= q * SecWords /\ q * SecWords \in Nat
    BY <1>3, <1>4, Geometry, TimesMonotone
  <2> QED
    BY <1>1, <1>3, <2>1
<1>5. q \in 0..(i - 1)
  BY <1>3, <1>4
<1> QED
  BY <1>3, <1>5 DEF q, r

\* The place of the y-th word of sector q.
LEMMA PlaceOfWord ==
  ASSUME NEW q \in Nat, NEW y \in 1..SecWords
  PROVE  /\ q * SecWords + y \in Nat
         /\ ((q * SecWords + y) - 1) \div SecWords = q
         /\ ((q * SecWords + y) - 1) % SecWords = y - 1
<1> DEFINE z == q * SecWords
           x == (z + y) - 1
           p == x \div SecWords
           r == x % SecWords
<1>1. z \in Nat /\ SecWords \in Nat \ {0} /\ y \in Nat /\ y >= 1 /\ y - 1 \in 0..(SecWords - 1)
  BY Geometry
<1> HIDE DEF z
<1>2. x \in Nat /\ x = z + (y - 1)
  BY <1>1
<1> HIDE DEF x
<1>3. p \in Nat /\ r \in 0..(SecWords - 1) /\ x = p * SecWords + r
  BY <1>1, <1>2, DivMod
<1> HIDE DEF p, r
<1>4. p * SecWords + r = q * SecWords + (y - 1)
  BY <1>2, <1>3 DEF z
<1>5. p = q /\ r = y - 1
  BY <1>1, <1>3, <1>4, DivUnique
<1> QED
  BY <1>1, <1>5 DEF p, r, x, z

\* The words of the first i sectors.
Word(seqs, x) == seqs[((x - 1) \div SecWords) + 1][((x - 1) % SecWords) + 1]
Joined(seqs, i) == [x \in 1..(i * SecWords) |-> Word(seqs, x)]

LEMMA JoinedFacts ==
  ASSUME NEW n \in Nat, NEW seqs \in [1..n -> SectorData], NEW i \in 0..n
  PROVE  /\ i * SecWords \in Nat
         /\ Joined(seqs, i) \in Seq(Words) /\ Len(Joined(seqs, i)) = i * SecWords
         /\ \A x \in 1..(i * SecWords) : Joined(seqs, i)[x] = Word(seqs, x)
<1>1. i * SecWords \in Nat
  BY Geometry
<1>2. ASSUME NEW x \in 1..(i * SecWords)
      PROVE  Word(seqs, x) \in Words
  <2> DEFINE q == (x - 1) \div SecWords
             r == (x - 1) % SecWords
  <2>1. q \in 0..(i - 1) /\ r \in 0..(SecWords - 1)
    BY WordPlace
  <2> HIDE DEF q, r
  <2>2. q + 1 \in 1..n /\ r + 1 \in 1..SecWords
    BY <2>1, Geometry
  <2>3. seqs[q + 1] \in Seq(Words) /\ Len(seqs[q + 1]) = SecWords
    BY <2>2 DEF SectorData
  <2>4. seqs[q + 1][r + 1] \in Words
    BY <2>2, <2>3
  <2> QED
    BY <2>4 DEF q, r, Word
<1>3. Joined(seqs, i) \in [1..(i * SecWords) -> Words]
  BY <1>2 DEF Joined
<1>4. Joined(seqs, i) \in Seq(Words) /\ Len(Joined(seqs, i)) = i * SecWords
  BY <1>1, <1>3, FunctionIsSeq
<1> QED
  BY <1>1, <1>4 DEF Joined

LEMMA Concatenation ==
  ASSUME NEW s \in Seq(Words), NEW t \in Seq(Words)
  PROVE  /\ s \o t \in Seq(Words) /\ Len(s \o t) = Len(s) + Len(t)
         /\ \A x \in 1..Len(s) : (s \o t)[x] = s[x]
         /\ \A y \in 1..Len(t) : (s \o t)[Len(s) + y] = t[y]
  OBVIOUS

LEMMA JoinedStep ==
  ASSUME NEW n \in Nat, NEW seqs \in [1..n -> SectorData], NEW i \in 1..n
  PROVE  Joined(seqs, i) = Joined(seqs, i - 1) \o seqs[i]
<1> DEFINE a == i * SecWords
           b == (i - 1) * SecWords
           f == Joined(seqs, i)
           g == Joined(seqs, i - 1)
           s == seqs[i]
<1>1. a = b + SecWords /\ a \in Nat /\ b \in Nat
  <2>1. i - 1 \in Nat /\ i = (i - 1) + 1
    OBVIOUS
  <2>2. ((i - 1) + 1) * SecWords = (i - 1) * SecWords + 1 * SecWords
    BY <2>1, Geometry, TimesSum
  <2> QED
    BY <2>1, <2>2, Geometry
<1>2. f \in Seq(Words) /\ Len(f) = a
  BY JoinedFacts
<1>11. \A x \in 1..a : f[x] = Word(seqs, x)
  BY JoinedFacts
<1>3. i - 1 \in 0..n
  OBVIOUS
<1>4. g \in Seq(Words) /\ Len(g) = b
  BY <1>3, JoinedFacts
<1>12. \A x \in 1..b : g[x] = Word(seqs, x)
  BY <1>3, JoinedFacts
<1>5. s \in Seq(Words) /\ Len(s) = SecWords
  BY DEF SectorData
<1>6. SecWords \in Nat
  BY Geometry
<1>7. ASSUME NEW y \in 1..SecWords PROVE f[b + y] = s[y]
  <2>1. i - 1 \in Nat
    OBVIOUS
  <2>2. ((b + y) - 1) \div SecWords = i - 1 /\ ((b + y) - 1) % SecWords = y - 1
    BY <2>1, PlaceOfWord
  <2> HIDE DEF a, b, f
  <2>3. b + y \in 1..a
    BY <1>1, <1>6
  <2>4. f[b + y] = Word(seqs, b + y)
    BY <1>11, <2>3
  <2>5. (i - 1) + 1 = i /\ (y - 1) + 1 = y
    OBVIOUS
  <2>6. Word(seqs, b + y) = seqs[(i - 1) + 1][(y - 1) + 1]
    BY <2>2, Zenon DEF Word
  <2> QED
    BY <2>4, <2>5, <2>6
<1> HIDE DEF a, b, f, g, s
<1>8. g \o s \in Seq(Words) /\ Len(g \o s) = a
  BY <1>1, <1>4, <1>5
<1>9. ASSUME NEW x \in 1..a PROVE f[x] = (g \o s)[x]
  <2>1. CASE x <= b
    <3>1. x \in 1..b
      BY <2>1, <1>1
    <3>2. (g \o s)[x] = g[x]
      BY <3>1, <1>4, <1>5
    <3> QED
      BY <3>1, <3>2, <1>11, <1>12
  <2>2. CASE ~(x <= b)
    <3>1. x - b \in 1..SecWords /\ x = b + (x - b)
      BY <2>2, <1>1, <1>6
    <3> DEFINE y == x - b
    <3>2. f[b + y] = s[y]
      BY <3>1, <1>7
    <3> HIDE DEF y
    <3>3. (g \o s)[b + y] = s[y]
      BY <1>4, <1>5, <3>1, Concatenation DEF y
    <3>4. x = b + y
      BY <3>1 DEF y
    <3> QED
      BY <3>2, <3>3, <3>4
  <2> QED
    BY <2>1, <2>2
<1> DEFINE gs == g \o s
<1>13. gs \in Seq(Words) /\ Len(gs) = a /\ \A x \in 1..a : f[x] = gs[x]
  BY <1>8, <1>9
<1> HIDE DEF gs
<1>14. f = gs
  BY <1>1, <1>2, <1>13
<1>10. f = g \o s
  BY <1>14 DEF gs
<1> QED
  BY <1>10 DEF f, g, s

LEMMA Lowest ==
  ASSUME NEW M \in SUBSET Nat, M # {}
  PROVE  \E i \in M : \A j \in M : i <= j
<1> DEFINE R == OpToRel(<, Nat)
<1>1. \A i, j \in Nat : <<j, i>> \in R <=> j < i
  BY Zenon DEF OpToRel
<1>2. IsWellFoundedOn(R, Nat)
  BY NatLessThanWellFounded, Zenon
<1> HIDE DEF R
<1>3. PICK i \in M : \A j \in M : ~ (<<j, i>> \in R)
  BY <1>2, WFMin, Zenon
<1>4. ASSUME NEW j \in M PROVE i <= j
  <2>1. i \in Nat /\ j \in Nat
    OBVIOUS
  <2>2. ~(j < i)
    BY <1>1, <1>3, <2>1, Zenon
  <2> QED
    BY <2>1, <2>2
<1> QED
  BY <1>4

\* FlattenSeq of n sectors has their words in order.
LEMMA FlattenFacts ==
  ASSUME NEW n \in Nat \ {0}, NEW seqs \in [1..n -> SectorData]
  PROVE  S!FlattenSeq(seqs) = Joined(seqs, n)
<1> DEFINE Eq(h) == h = [i \in 1..n |-> IF i = 1 THEN seqs[i] ELSE h[i - 1] \o seqs[i]]
           g == [i \in 1..n |-> Joined(seqs, i)]
           c == CHOOSE h : Eq(h)
<1>1. seqs \in Seq(SectorData) /\ Len(seqs) = n
  OBVIOUS
<1>2. ASSUME NEW i \in 1..n
      PROVE  Joined(seqs, i) = IF i = 1 THEN seqs[i] ELSE Joined(seqs, i - 1) \o seqs[i]
  <2>1. Joined(seqs, i) = Joined(seqs, i - 1) \o seqs[i]
    BY JoinedStep
  <2>2. CASE i = 1
    <3>1. i - 1 = 0 /\ 0 \in 0..n /\ 0 * SecWords = 0
      BY <2>2, Geometry
    <3>2. Joined(seqs, 0) \in Seq(Words) /\ Len(Joined(seqs, 0)) = 0
      BY <3>1, JoinedFacts
    <3>3. seqs[i] \in Seq(Words)
      BY DEF SectorData
    <3>4. Joined(seqs, 0) = << >>
      BY <3>2
    <3> QED
      BY <2>1, <2>2, <3>1, <3>3, <3>4
  <2>3. CASE i # 1
    BY <2>1, <2>3
  <2> QED
    BY <2>2, <2>3
<1>3. ASSUME NEW i \in 1..n PROVE g[i] = IF i = 1 THEN seqs[i] ELSE g[i - 1] \o seqs[i]
  <2>1. CASE i = 1
    BY <1>2, <2>1
  <2>2. CASE i # 1
    <3>1. i - 1 \in 1..n
      BY <2>2
    <3>2. g[i] = Joined(seqs, i) /\ g[i - 1] = Joined(seqs, i - 1)
      BY <3>1
    <3> QED
      BY <1>2, <2>2, <3>2
  <2> QED
    BY <2>1, <2>2
<1>4. Eq(g)
  <2>1. g = [i \in 1..n |-> g[i]]
    OBVIOUS
  <2> HIDE DEF g
  <2> QED
    BY <1>3, <2>1
<1>5. Eq(c)
  BY <1>4, Zenon
<1>6. DOMAIN g = 1..n
  OBVIOUS
<1> HIDE DEF g, c
<1>7. ASSUME NEW i \in 1..n PROVE c[i] = IF i = 1 THEN seqs[i] ELSE c[i - 1] \o seqs[i]
  BY <1>5
<1>8. ASSUME c # g PROVE FALSE
  <2> DEFINE M == {i \in 1..n : c[i] # g[i]}
  <2>1. DOMAIN c = 1..n /\ c = [i \in 1..n |-> c[i]] /\ g = [i \in 1..n |-> g[i]]
    BY <1>5, <1>6, <1>4
  <2>2. M \in SUBSET Nat
    OBVIOUS
  <2>3. M # {}
    <3>1. ASSUME \A i \in 1..n : c[i] = g[i] PROVE FALSE
      <4>1. [i \in 1..n |-> c[i]] = [i \in 1..n |-> g[i]]
        BY <3>1
      <4> QED
        BY <4>1, <2>1, <1>8
    <3> QED
      BY <3>1
  <2>4. PICK i \in M : \A j \in M : i <= j
    BY <2>2, <2>3, Lowest
  <2>5. i \in 1..n /\ c[i] # g[i]
    BY <2>4
  <2>6. i # 1
    BY <2>5, <1>7, <1>3
  <2>7. i - 1 \in 1..n /\ i - 1 \notin M
    BY <2>4, <2>5, <2>6
  <2>8. c[i - 1] = g[i - 1]
    BY <2>7
  <2> QED
    BY <2>5, <2>6, <2>8, <1>7, <1>3
<1>9. S!FlattenSeq(seqs) = IF Len(seqs) = 0 THEN seqs ELSE c[Len(seqs)]
  BY <1>1 DEF S!FlattenSeq, c
<1>10. S!FlattenSeq(seqs) = g[n]
  BY <1>1, <1>8, <1>9
<1> QED
  BY <1>10 DEF g

-----------------------------------------------------------------------------
(* The files.                                                               *)

Arrangements == Bijection(1..Spt, 1..Spt)
Records == [compressed : BOOLEAN, words : SectorData]
RawFiles == [format : {"raw"}, words : {w \in Seq(Words) : Len(w) >= Total * SecWords}]
ImdFiles == [format : {"IMD"}, maps : [1..(Tracks * Heads) -> Arrangements],
             records : [1..Total -> Records]]
Files == RawFiles \cup ImdFiles

\* The discs have all sectors of the geometry, each once.
WholeDiscs == Blank \in [Drives -> Files]

\* What a write leaves as it is.
SameShape(f, g) ==
  /\ f.format = g.format
  /\ f.format = "IMD" =>
       /\ f.maps = g.maps
       /\ \A r \in 1..Total : f.records[r].compressed = g.records[r].compressed

LEMMA FileFacts ==
  ASSUME NEW f \in Files
  PROVE  \/ /\ f \in RawFiles /\ f.format = "raw" /\ f.format # "IMD"
            /\ f.words \in Seq(Words) /\ Len(f.words) \in Nat /\ Len(f.words) >= Total * SecWords
         \/ /\ f \in ImdFiles /\ f.format = "IMD" /\ f.format # "raw"
            /\ f.maps \in [1..(Tracks * Heads) -> Arrangements]
            /\ f.records \in [1..Total -> Records]
<1>1. CASE f \in RawFiles
  <2>1. f.words \in {w \in Seq(Words) : Len(w) >= Total * SecWords} /\ f.format = "raw"
    BY <1>1 DEF RawFiles
  <2> QED
    BY <1>1, <2>1
<1>2. CASE f \in ImdFiles
  BY <1>2 DEF ImdFiles
<1> QED
  BY <1>1, <1>2 DEF Files

\* The track and the number of a sector.
LEMMA SectorDigits ==
  ASSUME NEW lba \in 0..(Total - 1)
  PROVE  /\ lba \div Spt \in Nat /\ lba % Spt \in 0..(Spt - 1)
         /\ lba = (lba \div Spt) * Spt + (lba % Spt)
         /\ (lba \div Spt) + 1 \in 1..(Tracks * Heads)
         /\ (lba \div Spt) * Spt \in Nat /\ (lba \div Spt) * Spt + Spt <= Total
<1> DEFINE t == lba \div Spt
           s == lba % Spt
           N == Tracks * Heads
<1>1. Total \in Nat /\ Spt \in Nat \ {0} /\ N \in Nat /\ Total = N * Spt
  BY Geometry DEF Total
<1>2. t \in Nat /\ s \in 0..(Spt - 1) /\ lba = t * Spt + s
  BY Digits
<1> HIDE DEF t, s, N
<1>3. t * Spt \in Nat
  BY <1>1, <1>2
<1>4. ASSUME N <= t PROVE FALSE
  <2>1. N * Spt <= t * Spt
    BY <1>1, <1>2, <1>4, TimesMonotone
  <2> QED
    BY <1>1, <1>2, <1>3, <2>1
<1>5. t < N
  BY <1>1, <1>2, <1>4
<1>6. t * Spt + Spt <= N * Spt
  BY <1>1, <1>2, <1>5, TimesNext
<1>7. t + 1 \in 1..N /\ t * Spt + Spt <= Total
  BY <1>1, <1>2, <1>5, <1>6
<1> QED
  BY <1>2, <1>3, <1>7 DEF t, s, N

LEMMA RecordFacts ==
  ASSUME NEW f \in ImdFiles, NEW lba \in 0..(Total - 1)
  PROVE  \E k \in 1..Spt :
           /\ Record(f, lba) = (lba \div Spt) * Spt + k
           /\ f.maps[(lba \div Spt) + 1][k] = (lba % Spt) + 1
<1> DEFINE m == f.maps[(lba \div Spt) + 1]
           s == (lba % Spt) + 1
           c == CHOOSE k \in 1..Spt : m[k] = s
<1>1. m \in Bijection(1..Spt, 1..Spt)
  BY SectorDigits DEF ImdFiles, Arrangements
<1>2. s \in 1..Spt
  BY SectorDigits, Geometry
<1> HIDE DEF m, s
<1>3. \E k \in 1..Spt : m[k] = s
  BY <1>1, <1>2 DEF Bijection, Surjection
<1>4. c \in 1..Spt /\ m[c] = s
  BY <1>3
<1>5. Record(f, lba) = (lba \div Spt) * Spt + c
  BY DEF Record, m, s
<1> HIDE DEF c
<1> QED
  BY <1>4, <1>5 DEF m, s

\* No two sectors have one record, and the record of a sector is in the file.
LEMMA RecordInjective ==
  ASSUME NEW f \in ImdFiles, NEW a \in 0..(Total - 1)
  PROVE  /\ Record(f, a) \in 1..Total
         /\ \A b \in 0..(Total - 1) : Record(f, a) = Record(f, b) => a = b
<1>1. PICK k \in 1..Spt : /\ Record(f, a) = (a \div Spt) * Spt + k
                          /\ f.maps[(a \div Spt) + 1][k] = (a % Spt) + 1
  BY RecordFacts
<1> DEFINE t == a \div Spt
<1>2. /\ t \in Nat /\ a % Spt \in 0..(Spt - 1) /\ a = t * Spt + (a % Spt)
      /\ t * Spt \in Nat /\ t * Spt + Spt <= Total
  BY SectorDigits
<1>3. Record(f, a) = t * Spt + k
  BY <1>1
<1>4. Spt \in Nat \ {0} /\ Total \in Nat
  BY Geometry
<1> HIDE DEF t
<1>5. Record(f, a) \in 1..Total
  BY <1>2, <1>3, <1>4
<1>6. ASSUME NEW b \in 0..(Total - 1), Record(f, a) = Record(f, b) PROVE a = b
  <2>1. PICK j \in 1..Spt : /\ Record(f, b) = (b \div Spt) * Spt + j
                            /\ f.maps[(b \div Spt) + 1][j] = (b % Spt) + 1
    BY RecordFacts
  <2> DEFINE u == b \div Spt
  <2>2. /\ u \in Nat /\ b % Spt \in 0..(Spt - 1) /\ b = u * Spt + (b % Spt)
        /\ u * Spt \in Nat
    BY SectorDigits
  <2>3. t * Spt + k = u * Spt + j
    BY <1>3, <1>6, <2>1
  <2> HIDE DEF u
  <2>4. t * Spt + (k - 1) = u * Spt + (j - 1) /\ k - 1 \in 0..(Spt - 1) /\ j - 1 \in 0..(Spt - 1)
    BY <1>2, <1>4, <2>2, <2>3
  <2>5. t = u /\ k - 1 = j - 1
    BY <1>2, <1>4, <2>2, <2>4, DivUnique
  <2>6. k = j
    BY <2>5
  <2>7. (a % Spt) + 1 = (b % Spt) + 1
    BY <1>1, <2>1, <2>5, <2>6 DEF t, u
  <2>8. a % Spt = b % Spt
    BY <1>2, <2>2, <2>7
  <2> QED
    BY <1>2, <2>2, <2>5, <2>8
<1> QED
  BY <1>5, <1>6

\* The map that is made when a disc is loaded leads to the records.
LEMMA SectorMapFacts ==
  ASSUME NEW f \in ImdFiles, NEW lba \in 0..(Total - 1)
  PROVE  SectorMap(f)[lba] = Record(f, lba)
<1> DEFINE At(r) == lba = ((r - 1) \div Spt) * Spt
                            + f.maps[((r - 1) \div Spt) + 1][((r - 1) % Spt) + 1] - 1
           c == CHOOSE r \in 1..Total : At(r)
           t == lba \div Spt
           s == lba % Spt
<1>1. DOMAIN f.records = 1..Total /\ f.maps \in [1..(Tracks * Heads) -> Arrangements]
  BY DEF ImdFiles
<1>2. SectorMap(f)[lba] = c
  BY <1>1 DEF SectorMap, Sectors, Total
<1>3. PICK k \in 1..Spt : Record(f, lba) = t * Spt + k /\ f.maps[t + 1][k] = s + 1
  BY RecordFacts
<1>4. /\ t \in Nat /\ s \in 0..(Spt - 1) /\ lba = t * Spt + s /\ t * Spt \in Nat
      /\ t + 1 \in 1..(Tracks * Heads) /\ t * Spt + Spt <= Total
  BY SectorDigits
<1>5. Spt \in Nat \ {0} /\ Total \in Nat
  BY Geometry
<1> HIDE DEF t, s
<1>6. Record(f, lba) \in 1..Total
  BY RecordInjective
<1>7. At(Record(f, lba))
  <2> DEFINE r == Record(f, lba)
             q == (r - 1) \div Spt
             p == (r - 1) % Spt
  <2>1. r - 1 \in Nat /\ r - 1 = t * Spt + (k - 1) /\ k - 1 \in 0..(Spt - 1)
    BY <1>3, <1>4, <1>5, <1>6
  <2> HIDE DEF r
  <2>2. q \in Nat /\ p \in 0..(Spt - 1) /\ r - 1 = q * Spt + p
    BY <1>5, <2>1, DivMod
  <2> HIDE DEF q, p
  <2>3. q * Spt + p = t * Spt + (k - 1)
    BY <2>1, <2>2
  <2>4. q = t /\ p = k - 1
    BY <1>4, <1>5, <2>1, <2>2, <2>3, DivUnique
  <2>5. p + 1 = k
    BY <2>4
  <2>6. f.maps[q + 1][p + 1] = s + 1
    BY <1>3, <2>4, <2>5
  <2>7. lba = q * Spt + f.maps[q + 1][p + 1] - 1
    BY <1>4, <2>4, <2>6
  <2> QED
    BY <2>7 DEF q, p, r
<1>8. ASSUME NEW r \in 1..Total, At(r) PROVE r = Record(f, lba)
  <2> DEFINE q == (r - 1) \div Spt
             p == (r - 1) % Spt
             z == f.maps[q + 1][p + 1]
  <2>1. r - 1 \in 0..(Total - 1)
    BY <1>5
  <2>2. /\ q \in Nat /\ p \in 0..(Spt - 1) /\ r - 1 = q * Spt + p /\ q * Spt \in Nat
        /\ q + 1 \in 1..(Tracks * Heads)
    BY <2>1, SectorDigits
  <2>3. lba = q * Spt + z - 1
    BY <1>8
  <2> HIDE DEF q, p
  <2>4. f.maps[q + 1] \in Bijection(1..Spt, 1..Spt)
    BY <1>1, <2>2 DEF Arrangements
  <2>5. p + 1 \in 1..Spt
    BY <1>5, <2>2
  <2>6. z \in 1..Spt
    BY <2>4, <2>5 DEF Bijection, Injection
  <2> HIDE DEF z
  <2>7. q * Spt + (z - 1) = t * Spt + s /\ z - 1 \in 0..(Spt - 1)
    BY <1>4, <1>5, <2>2, <2>3, <2>6
  <2>8. q = t /\ z - 1 = s
    BY <1>4, <1>5, <2>2, <2>7, DivUnique
  <2>9. z = s + 1
    BY <1>4, <2>6, <2>8
  <2>10. f.maps[q + 1][p + 1] = f.maps[q + 1][k]
    BY <1>3, <2>8, <2>9 DEF z
  <2>11. p + 1 = k
    BY <2>4, <2>5, <2>10 DEF Bijection, Injection, IsInjective
  <2> QED
    BY <1>3, <1>4, <1>5, <2>2, <2>8, <2>11
<1>9. c \in 1..Total /\ At(c)
  BY <1>6, <1>7, Zenon
<1> HIDE DEF c, At
<1> QED
  BY <1>2, <1>8, <1>9

\* The words of an ImageDisk file, sector by sector.
LEMMA ImdContents ==
  ASSUME NEW f \in ImdFiles
  PROVE  /\ Contents(f) \in Seq(Words) /\ Len(Contents(f)) = Total * SecWords
         /\ Total * SecWords \in Nat
         /\ \A x \in 1..(Total * SecWords) :
              Contents(f)[x] = f.records[Record(f, (x - 1) \div SecWords)].words[((x - 1) % SecWords) + 1]
<1>1. f.format # "raw" /\ f.records \in [1..Total -> Records]
  BY DEF ImdFiles
<1>2. Contents(f) = [x \in 1..(Total * SecWords) |->
         f.records[Record(f, (x - 1) \div SecWords)].words[((x - 1) % SecWords) + 1]]
  BY <1>1 DEF Contents, Total
<1>3. ASSUME NEW x \in 1..(Total * SecWords)
      PROVE  f.records[Record(f, (x - 1) \div SecWords)].words[((x - 1) % SecWords) + 1] \in Words
  <2> DEFINE q == (x - 1) \div SecWords
             r == (x - 1) % SecWords
  <2>1. q \in 0..(Total - 1) /\ r \in 0..(SecWords - 1)
    BY Geometry, WordPlace
  <2> HIDE DEF q, r
  <2>2. Record(f, q) \in 1..Total /\ r + 1 \in 1..SecWords
    BY <2>1, Geometry, RecordInjective
  <2>3. f.records[Record(f, q)] \in Records
    BY <1>1, <2>2
  <2>4. f.records[Record(f, q)].words \in Seq(Words) /\ Len(f.records[Record(f, q)].words) = SecWords
    BY <2>3 DEF Records, SectorData
  <2>5. f.records[Record(f, q)].words[r + 1] \in Words
    BY <2>2, <2>4
  <2> QED
    BY <2>5 DEF q, r
<1>4. Contents(f) \in [1..(Total * SecWords) -> Words]
  BY <1>2, <1>3
<1>5. Total * SecWords \in Nat
  BY Geometry
<1>6. Contents(f) \in Seq(Words) /\ Len(Contents(f)) = Total * SecWords
  BY <1>4, <1>5, FunctionIsSeq
<1> QED
  BY <1>2, <1>5, <1>6

LEMMA ContentsFacts ==
  ASSUME NEW f \in Files
  PROVE  /\ Contents(f) \in Seq(Words) /\ Len(Contents(f)) >= Total * SecWords
         /\ Total * SecWords \in Nat
<1>1. Total * SecWords \in Nat
  BY Geometry
<1>2. CASE f \in ImdFiles
  BY <1>1, <1>2, ImdContents
<1>3. CASE f \in RawFiles
  BY <1>1, <1>3 DEF RawFiles, Contents
<1> QED
  BY <1>2, <1>3 DEF Files

\* Sector lba is the words from lba * SecWords + 1 on.
LEMMA SectorWithin ==
  ASSUME NEW lba \in 0..(Total - 1)
  PROVE  /\ lba * SecWords \in Nat /\ lba * SecWords + SecWords <= Total * SecWords
         /\ (lba + 1) * SecWords = lba * SecWords + SecWords
         /\ Total * SecWords \in Nat
<1>1. lba \in Nat /\ Total \in Nat /\ SecWords \in Nat /\ lba < Total
  BY Geometry
<1>2. lba * SecWords + SecWords <= Total * SecWords
  BY <1>1, TimesNext
<1>3. (lba + 1) * SecWords = lba * SecWords + 1 * SecWords
  BY <1>1, TimesSum
<1> QED
  BY <1>1, <1>2, <1>3

\* A sector reads as the words at its place, in either format.
LEMMA ReadFacts ==
  ASSUME NEW f \in Files, NEW lba \in 0..(Total - 1)
  PROVE  /\ ReadSector(f, LoadedMap(f), lba) \in SectorData
         /\ \A j \in 1..SecWords :
              ReadSector(f, LoadedMap(f), lba)[j] = Contents(f)[lba * SecWords + j]
<1> DEFINE a == lba * SecWords
           w == ReadSector(f, LoadedMap(f), lba)
<1>1. /\ a \in Nat /\ a + SecWords <= Total * SecWords /\ (lba + 1) * SecWords = a + SecWords
      /\ Total * SecWords \in Nat /\ SecWords \in Nat
  BY SectorWithin, Geometry
<1>2. CASE f \in RawFiles
  <2>1. /\ f.words \in Seq(Words) /\ Len(f.words) \in Nat /\ Len(f.words) >= Total * SecWords
        /\ f.format = "raw" /\ f.format # "IMD"
    BY <1>2 DEF RawFiles
  <2>2. w = ReadRaw(f, lba) /\ Contents(f) = f.words
    BY <2>1 DEF ReadSector, Contents
  <2>3. ReadRaw(f, lba) = SubSeq(f.words, a + 1, a + SecWords)
    <3>1. ~((lba + 1) * SecWords > Len(f.words))
      BY <1>1, <2>1
    <3> QED
      BY <1>1, <3>1 DEF ReadRaw
  <2> DEFINE s == f.words
  <2>4. w = SubSeq(s, a + 1, a + SecWords) /\ s \in Seq(Words) /\ a + SecWords <= Len(s)
    BY <1>1, <2>1, <2>2, <2>3
  <2> HIDE DEF s, a, w
  <2>5. w \in Seq(Words) /\ Len(w) = SecWords
    BY <1>1, <2>4
  <2>6. ASSUME NEW j \in 1..SecWords PROVE w[j] = s[a + j]
    BY <1>1, <2>4
  <2> QED
    BY <2>2, <2>5, <2>6 DEF SectorData, s, a, w
<1>3. CASE f \in ImdFiles
  <2>1. f.format = "IMD" /\ f.records \in [1..Total -> Records]
    BY <1>3 DEF ImdFiles
  <2>2. w = f.records[Record(f, lba)].words
    BY <1>3, <2>1, SectorMapFacts DEF ReadSector, ReadImd, LoadedMap
  <2>3. Record(f, lba) \in 1..Total
    BY <1>3, RecordInjective
  <2>4. w \in SectorData
    BY <2>1, <2>2, <2>3 DEF Records
  <2>5. ASSUME NEW j \in 1..SecWords PROVE w[j] = Contents(f)[a + j]
    <3>1. a + j \in 1..(Total * SecWords)
      BY <1>1
    <3>2. Contents(f)[a + j] = f.records[Record(f, ((a + j) - 1) \div SecWords)].words[(((a + j) - 1) % SecWords) + 1]
      BY <1>3, <3>1, ImdContents
    <3>3. ((a + j) - 1) \div SecWords = lba /\ ((a + j) - 1) % SecWords = j - 1
      BY PlaceOfWord
    <3>4. (j - 1) + 1 = j
      OBVIOUS
    <3> QED
      BY <2>2, <3>2, <3>3, <3>4
  <2> QED
    BY <2>4, <2>5
<1> QED
  BY <1>2, <1>3 DEF Files

-----------------------------------------------------------------------------
(* Words laid over words.                                                   *)

LEMMA OverwriteFacts ==
  ASSUME NEW s \in Seq(Words), NEW t \in Seq(Words), NEW k \in 0..Len(s)
  PROVE  /\ BD!Overwrite(s, k, t) \in Seq(Words)
         /\ Len(BD!Overwrite(s, k, t)) = IF k + Len(t) > Len(s) THEN k + Len(t) ELSE Len(s)
<1> DEFINE n == IF k + Len(t) > Len(s) THEN k + Len(t) ELSE Len(s)
           f == [i \in 1..n |-> IF i \in (k + 1)..(k + Len(t)) THEN t[i - k] ELSE s[i]]
<1>1. n \in Nat
  OBVIOUS
<1>2. ASSUME NEW i \in 1..n PROVE f[i] \in Words
  <2>1. CASE i \in (k + 1)..(k + Len(t))
    <3>1. i - k \in 1..Len(t) /\ f[i] = t[i - k]
      BY <2>1
    <3> QED
      BY <3>1
  <2>2. CASE i \notin (k + 1)..(k + Len(t))
    <3>1. i \in 1..Len(s) /\ f[i] = s[i]
      BY <2>2
    <3> QED
      BY <3>1
  <2> QED
    BY <2>1, <2>2
<1>3. f \in [1..n -> Words]
  BY <1>2
<1> HIDE DEF n
<1>4. f \in Seq(Words) /\ Len(f) = n
  BY <1>1, <1>3
<1>5. BD!Overwrite(s, k, t) = f
  BY DEF BD!Overwrite, n
<1> QED
  BY <1>4, <1>5 DEF n

LEMMA OverwriteAppends ==
  ASSUME NEW s \in Seq(Words), NEW w \in Words
  PROVE  BD!Overwrite(s, Len(s), <<w>>) = Append(s, w)
<1> DEFINE o == BD!Overwrite(s, Len(s), <<w>>)
<1>1. o \in Seq(Words) /\ Len(o) = Len(s) + 1
  <2> DEFINE t == <<w>>
  <2>1. t \in Seq(Words) /\ Len(t) = 1 /\ Len(s) \in 0..Len(s) /\ Len(s) \in Nat
    OBVIOUS
  <2>2. o = BD!Overwrite(s, Len(s), t)
    OBVIOUS
  <2> HIDE DEF t, o
  <2>3. /\ o \in Seq(Words)
        /\ Len(o) = IF Len(s) + Len(t) > Len(s) THEN Len(s) + Len(t) ELSE Len(s)
    BY <2>1, <2>2, OverwriteFacts
  <2> QED
    BY <2>1, <2>3
<1>2. ASSUME NEW i \in 1..(Len(s) + 1)
      PROVE  o[i] = IF i \in (Len(s) + 1)..(Len(s) + 1) THEN <<w>>[i - Len(s)] ELSE s[i]
  BY DEF BD!Overwrite
<1> HIDE DEF o
<1>3. ASSUME NEW i \in 1..(Len(s) + 1) PROVE o[i] = Append(s, w)[i]
  BY <1>2
<1>4. Append(s, w) \in Seq(Words) /\ Len(Append(s, w)) = Len(s) + 1
  OBVIOUS
<1>5. o = Append(s, w)
  BY <1>1, <1>3, <1>4
<1> QED
  BY <1>5 DEF o

-----------------------------------------------------------------------------
(* Writes to a file.                                                        *)

LEMMA OneByteTwice ==
  ASSUME NEW x \in Nat, x < 256 * 256
  PROVE  x = 256 * (x \div 256) + (x \div 256) <=> x % 257 = 0
<1> DEFINE q == x \div 257
           d == x \div 256
           r == x % 256
           s == x % 257
<1>1. /\ x = 257 * q + s /\ q \in Nat /\ s \in Nat /\ s < 257
      /\ x = 256 * d + r /\ d \in Nat /\ r \in Nat /\ r < 256
  OBVIOUS
<1> HIDE DEF q, d, r, s
<1>2. ASSUME s = 0 PROVE x = 256 * d + d
  <2>1. x = 256 * q + q /\ q <= 255
    BY <1>1, <1>2
  <2>2. d = q
    BY <1>1, <2>1
  <2> QED
    BY <2>1, <2>2
<1>3. ASSUME x = 256 * d + d PROVE s = 0
  BY <1>1, <1>3
<1> QED
  BY <1>2, <1>3 DEF d, s

\* What write_sector_imd asks of the data of a compressed record is that it is
\* one byte, over and over.
LEMMA UniformFacts ==
  ASSUME NEW data \in SectorData
  PROVE  Uniform(data) <=> \A i \in DOMAIN data : data[i] = data[1] /\ data[i] % 257 = 0
<1> DEFINE fill == data[1] \div 256
<1>1. /\ data \in Seq(Words) /\ Len(data) = SecWords /\ SecWords \in Nat \ {0}
      /\ DOMAIN data = 1..SecWords /\ 1 \in 1..SecWords
  BY Geometry DEF SectorData
<1>2. data[1] \in Words
  BY <1>1
<1>3. data[1] \in Nat /\ data[1] < 256 * 256
  <2>1. Words \subseteq Nat /\ \A w \in Words : w < 256 * 256
    BY WD2797Assumption, Zenon
  <2> QED
    BY <1>2, <2>1, Zenon
<1>4. Uniform(data) <=> \A i \in DOMAIN data : data[i] = 256 * fill + fill
  BY DEF Uniform
<1>6. data[1] = 256 * fill + fill <=> data[1] % 257 = 0
  <2> DEFINE x == data[1]
  <2>1. x \in Nat /\ x < 256 * 256
    BY <1>3
  <2> HIDE DEF x
  <2>2. x = 256 * (x \div 256) + (x \div 256) <=> x % 257 = 0
    BY <2>1, OneByteTwice, Zenon
  <2> QED
    BY <2>2, Zenon DEF x
<1> HIDE DEF fill
<1>7. ASSUME \A i \in DOMAIN data : data[i] = 256 * fill + fill
      PROVE  \A i \in DOMAIN data : data[i] = data[1] /\ data[i] % 257 = 0
  <2>1. data[1] = 256 * fill + fill
    BY <1>1, <1>7
  <2>2. \A i \in DOMAIN data : data[i] = data[1]
    BY <1>7, <2>1
  <2> QED
    BY <1>6, <2>1, <2>2
<1>8. ASSUME \A i \in DOMAIN data : data[i] = data[1] /\ data[i] % 257 = 0
      PROVE  \A i \in DOMAIN data : data[i] = 256 * fill + fill
  <2>1. data[1] % 257 = 0
    BY <1>1, <1>8
  <2>2. \A i \in DOMAIN data : data[i] = data[1]
    BY <1>8
  <2> QED
    BY <1>6, <2>1, <2>2
<1> QED
  BY <1>4, <1>7, <1>8

LEMMA SameShapeFacts ==
  ASSUME NEW f \in Files, NEW g \in Files, SameShape(f, g)
  PROVE  /\ LoadedMap(f) = LoadedMap(g)
         /\ \A lba \in 0..(Total - 1) : \A data : HasRoom(f, lba, data) <=> HasRoom(g, lba, data)
<1>1. CASE f.format = "IMD"
  <2>1. f \in ImdFiles /\ g \in ImdFiles /\ g.format = "IMD" /\ f.maps = g.maps
    BY <1>1, FileFacts DEF SameShape
  <2>2. DOMAIN f.records = 1..Total /\ DOMAIN g.records = 1..Total
    BY <2>1 DEF ImdFiles
  <2>3. SectorMap(f) = SectorMap(g)
    BY <2>1, <2>2 DEF SectorMap
  <2>4. ASSUME NEW lba \in 0..(Total - 1)
        PROVE  f.records[Record(f, lba)].compressed = g.records[Record(g, lba)].compressed
    <3>1. Record(f, lba) = Record(g, lba)
      BY <2>1 DEF Record
    <3>2. Record(f, lba) \in 1..Total
      BY <2>1, RecordInjective
    <3> QED
      BY <1>1, <3>1, <3>2 DEF SameShape
  <2> QED
    BY <1>1, <2>1, <2>3, <2>4 DEF LoadedMap, HasRoom
<1>2. CASE f.format # "IMD"
  BY <1>2 DEF SameShape, LoadedMap, HasRoom
<1> QED
  BY <1>1, <1>2

\* Words laid over others, one at a time.
LEMMA OverwriteWithin ==
  ASSUME NEW s \in Seq(Words), NEW t \in SectorData, NEW k \in Nat, k + SecWords <= Len(s)
  PROVE  /\ BD!Overwrite(s, k, t) \in Seq(Words) /\ Len(BD!Overwrite(s, k, t)) = Len(s)
         /\ \A x \in 1..Len(s) : BD!Overwrite(s, k, t)[x] =
              IF x \in (k + 1)..(k + SecWords) THEN t[x - k] ELSE s[x]
<1>1. t \in Seq(Words) /\ Len(t) = SecWords /\ SecWords \in Nat
  BY Geometry DEF SectorData
<1>2. k \in 0..Len(s) /\ Len(s) \in Nat /\ ~(k + Len(t) > Len(s))
  BY <1>1
<1>3. BD!Overwrite(s, k, t) \in Seq(Words) /\ Len(BD!Overwrite(s, k, t)) = Len(s)
  BY <1>1, <1>2, OverwriteFacts
<1>4. BD!Overwrite(s, k, t) =
        [i \in 1..Len(s) |-> IF i \in (k + 1)..(k + SecWords) THEN t[i - k] ELSE s[i]]
  BY <1>1, <1>2 DEF BD!Overwrite
<1> QED
  BY <1>3, <1>4

LEMMA SameWords ==
  ASSUME NEW s \in Seq(Words), NEW t \in Seq(Words), Len(s) = Len(t),
         \A x \in 1..Len(s) : s[x] = t[x]
  PROVE  s = t
  OBVIOUS

LEMMA WriteRawFacts ==
  ASSUME NEW f \in RawFiles, NEW lba \in 0..(Total - 1), NEW data \in SectorData
  PROVE  /\ WriteRaw(f, lba, data) \in RawFiles
         /\ WriteRaw(f, lba, data).words = BD!Overwrite(f.words, lba * SecWords, data)
<1> DEFINE a == lba * SecWords
           s == f.words
           p == SubSeq(s, 1, a)
           q == SubSeq(s, a + SecWords + 1, Len(s))
           w == p \o data \o q
           o == BD!Overwrite(s, a, data)
<1>1. /\ a \in Nat /\ a + SecWords <= Total * SecWords /\ (lba + 1) * SecWords = a + SecWords
      /\ Total * SecWords \in Nat /\ SecWords \in Nat
  BY SectorWithin, Geometry
<1>2. /\ s \in Seq(Words) /\ Len(s) \in Nat /\ Len(s) >= Total * SecWords
      /\ f.format = "raw"
  BY DEF RawFiles
<1>3. WriteRaw(f, lba, data) = [f EXCEPT !.words = w]
  BY <1>1 DEF WriteRaw
<1>4. data \in Seq(Words) /\ Len(data) = SecWords
  BY DEF SectorData
<1> HIDE DEF a, s
<1>5. p \in Seq(Words) /\ Len(p) = a /\ \A x \in 1..a : p[x] = s[x]
  BY <1>1, <1>2
<1>6. /\ q \in Seq(Words) /\ Len(q) = Len(s) - (a + SecWords)
      /\ \A x \in 1..(Len(s) - (a + SecWords)) : q[x] = s[a + SecWords + x]
  BY <1>1, <1>2
<1> HIDE DEF p, q
<1> DEFINE pd == p \o data
<1>12. /\ pd \in Seq(Words) /\ Len(pd) = a + SecWords
       /\ \A x \in 1..a : pd[x] = p[x]
       /\ \A x \in (a + 1)..(a + SecWords) : pd[x] = data[x - a]
  <2>1. /\ pd \in Seq(Words) /\ Len(pd) = Len(p) + Len(data)
        /\ \A x \in 1..Len(p) : pd[x] = p[x]
        /\ \A y \in 1..Len(data) : pd[Len(p) + y] = data[y]
    BY <1>4, <1>5, Concatenation
  <2> HIDE DEF pd
  <2>2. ASSUME NEW x \in (a + 1)..(a + SecWords) PROVE pd[x] = data[x - a]
    <3>1. x - a \in 1..SecWords /\ x = a + (x - a)
      BY <1>1
    <3>2. pd[a + (x - a)] = data[x - a]
      BY <1>4, <1>5, <2>1, <3>1
    <3> QED
      BY <3>1, <3>2
  <2> QED
    BY <1>4, <1>5, <2>1, <2>2
<1>13. w = pd \o q
  OBVIOUS
<1> HIDE DEF pd, w
<1>15. /\ w \in Seq(Words) /\ Len(w) = Len(pd) + Len(q)
       /\ \A x \in 1..Len(pd) : w[x] = pd[x]
       /\ \A y \in 1..Len(q) : w[Len(pd) + y] = q[y]
  BY <1>6, <1>12, <1>13, Concatenation
<1>7. w \in Seq(Words) /\ Len(w) = Len(s)
  <2>1. Len(w) = (a + SecWords) + (Len(s) - (a + SecWords))
    BY <1>6, <1>12, <1>15
  <2> QED
    BY <1>1, <1>2, <1>15, <2>1
<1>14. /\ \A x \in 1..(a + SecWords) : w[x] = pd[x]
       /\ \A y \in 1..(Len(s) - (a + SecWords)) : w[a + SecWords + y] = q[y]
  BY <1>6, <1>12, <1>15
<1>8. /\ o \in Seq(Words) /\ Len(o) = Len(s)
      /\ \A x \in 1..Len(s) : o[x] = IF x \in (a + 1)..(a + SecWords) THEN data[x - a] ELSE s[x]
  BY <1>1, <1>2, OverwriteWithin
<1>9. ASSUME NEW x \in 1..Len(s) PROVE w[x] = o[x]
  <2>1. CASE x <= a
    <3>3. x \in 1..a /\ x \in 1..(a + SecWords)
      BY <2>1, <1>1
    <3>1. w[x] = p[x] /\ p[x] = s[x]
      BY <3>3, <1>5, <1>12, <1>14
    <3>2. x \notin (a + 1)..(a + SecWords)
      BY <2>1, <1>1
    <3> QED
      BY <3>1, <3>2, <1>8
  <2>2. CASE a < x /\ x <= a + SecWords
    <3>1. x \in 1..(a + SecWords) /\ x \in (a + 1)..(a + SecWords)
      BY <2>2, <1>1
    <3>2. w[x] = data[x - a]
      BY <3>1, <1>12, <1>14
    <3> QED
      BY <3>1, <3>2, <1>8
  <2>3. CASE a + SecWords < x
    <3> DEFINE y == x - (a + SecWords)
    <3>1. y \in 1..(Len(s) - (a + SecWords)) /\ a + SecWords + y = x
      BY <2>3, <1>1, <1>2
    <3>2. w[x] = q[y]
      BY <3>1, <1>14
    <3>3. q[y] = s[x]
      BY <3>1, <1>6
    <3>4. x \notin (a + 1)..(a + SecWords)
      BY <2>3, <1>1
    <3> QED
      BY <3>2, <3>3, <3>4, <1>8
  <2> QED
    BY <2>1, <2>2, <2>3, <1>1, <1>2
<1> HIDE DEF o
<1>10. w = o
  BY <1>2, <1>7, <1>8, <1>9
<1>11. [f EXCEPT !.words = w] \in RawFiles /\ [f EXCEPT !.words = w].words = w
  BY <1>1, <1>2, <1>7 DEF RawFiles
<1> QED
  BY <1>3, <1>10, <1>11 DEF o, a, s, w, pd, p, q

\* The words of sector lba are those between its place and the next.
LEMMA InSector ==
  ASSUME NEW lba \in 0..(Total - 1), NEW x \in 1..(Total * SecWords)
  PROVE  IF x \in (lba * SecWords + 1)..(lba * SecWords + SecWords)
         THEN (x - 1) \div SecWords = lba /\ ((x - 1) % SecWords) + 1 = x - lba * SecWords
         ELSE (x - 1) \div SecWords # lba
<1> DEFINE a == lba * SecWords
           q == (x - 1) \div SecWords
           r == (x - 1) % SecWords
<1>1. a \in Nat /\ a + SecWords <= Total * SecWords /\ Total * SecWords \in Nat /\ SecWords \in Nat \ {0}
  BY SectorWithin, Geometry
<1>2. q \in 0..(Total - 1) /\ r \in 0..(SecWords - 1) /\ x - 1 = q * SecWords + r
  BY Geometry, WordPlace
<1> HIDE DEF a, q, r
<1>3. CASE x \in (a + 1)..(a + SecWords)
  <2> DEFINE y == x - a
  <2>1. y \in 1..SecWords /\ a + y = x
    BY <1>1, <1>3
  <2> HIDE DEF y
  <2>2. ((a + y) - 1) \div SecWords = lba /\ ((a + y) - 1) % SecWords = y - 1
    BY <2>1, PlaceOfWord DEF a
  <2>3. q = lba /\ r = y - 1
    BY <2>1, <2>2 DEF q, r
  <2>4. r + 1 = y
    BY <2>1, <2>3
  <2> QED
    BY <1>3, <2>3, <2>4 DEF q, r, y, a
<1>4. CASE x \notin (a + 1)..(a + SecWords)
  <2>1. ASSUME q = lba PROVE FALSE
    <3>1. x - 1 = a + r
      BY <1>2, <2>1 DEF a
    <3> QED
      BY <1>1, <1>2, <1>4, <3>1
  <2> QED
    BY <1>4, <2>1 DEF q, a
<1> QED
  BY <1>3, <1>4

LEMMA StoreInRecord ==
  ASSUME NEW f \in ImdFiles, NEW lba \in 0..(Total - 1), NEW data \in SectorData,
         NEW g, g = [f EXCEPT !.records[Record(f, lba)].words = data]
  PROVE  /\ g \in ImdFiles /\ SameShape(g, f)
         /\ Contents(g) = BD!Overwrite(Contents(f), lba * SecWords, data)
<1> DEFINE r == Record(f, lba)
           a == lba * SecWords
           c == Contents(f)
           o == BD!Overwrite(c, a, data)
           N == Total * SecWords
           rec == [f.records[r] EXCEPT !.words = data]
           recs == [f.records EXCEPT ![r] = rec]
<1>1. f.records \in [1..Total -> Records] /\ r \in 1..Total /\ f.format = "IMD"
  BY RecordInjective DEF ImdFiles
<1>2. rec \in Records /\ rec.words = data /\ rec.compressed = f.records[r].compressed
  BY <1>1 DEF Records
<1>3. g = [f EXCEPT !.records = recs]
  BY DEF ImdFiles
<1> HIDE DEF r, rec
<1>4. /\ recs \in [1..Total -> Records] /\ recs[r] = rec
      /\ \A p \in 1..Total : p # r => recs[p] = f.records[p]
  BY <1>1, <1>2
<1> HIDE DEF recs
<1>5. /\ g \in ImdFiles /\ g.records = recs /\ g.maps = f.maps /\ g.format = f.format
  BY <1>1, <1>3, <1>4 DEF ImdFiles
<1>6. ASSUME NEW p \in 1..Total PROVE recs[p].compressed = f.records[p].compressed
  BY <1>2, <1>4
<1>7. SameShape(g, f)
  BY <1>5, <1>6 DEF SameShape
<1>8. \A l : Record(g, l) = Record(f, l)
  BY <1>5 DEF Record
<1>9. c \in Seq(Words) /\ Len(c) = N /\ N \in Nat /\ Contents(g) \in Seq(Words) /\ Len(Contents(g)) = N
  BY <1>5, ImdContents
<1>10. a \in Nat /\ a + SecWords <= N
  BY SectorWithin
<1>11. /\ o \in Seq(Words) /\ Len(o) = N
       /\ \A x \in 1..N : o[x] = IF x \in (a + 1)..(a + SecWords) THEN data[x - a] ELSE c[x]
  <2> HIDE DEF a, c, N
  <2> QED
    BY <1>9, <1>10, OverwriteWithin
<1>12. ASSUME NEW x \in 1..N PROVE Contents(g)[x] = o[x]
  <2> DEFINE q == (x - 1) \div SecWords
             y == ((x - 1) % SecWords) + 1
  <2>1. Contents(g)[x] = recs[Record(f, q)].words[y] /\ c[x] = f.records[Record(f, q)].words[y]
    BY <1>5, <1>8, ImdContents
  <2>2. q \in 0..(Total - 1)
    BY Geometry, WordPlace
  <2>3. IF x \in (a + 1)..(a + SecWords) THEN q = lba /\ y = x - a ELSE q # lba
    BY InSector
  <2> HIDE DEF q, y, a, c, o, N
  <2>4. CASE x \in (a + 1)..(a + SecWords)
    <3>1. Contents(g)[x] = data[x - a]
      BY <2>1, <2>3, <2>4, <1>2, <1>4 DEF r
    <3> QED
      BY <3>1, <2>4, <1>11
  <2>5. CASE x \notin (a + 1)..(a + SecWords)
    <3>1. Record(f, q) # r /\ Record(f, q) \in 1..Total
      BY <2>2, <2>3, <2>5, RecordInjective DEF r
    <3>2. Contents(g)[x] = c[x]
      BY <2>1, <3>1, <1>4
    <3> QED
      BY <3>2, <2>5, <1>11
  <2> QED
    BY <2>4, <2>5
<1> HIDE DEF o, N, c
<1>13. Contents(g) = o
  BY <1>9, <1>11, <1>12, SameWords
<1> QED
  BY <1>5, <1>7, <1>13 DEF o, a, c

\* A write replaces the words of its sector, or none if the file has no room.
LEMMA WriteFacts ==
  ASSUME NEW f \in Files, NEW lba \in 0..(Total - 1), NEW data \in SectorData,
         NEW g, g = WriteSector(f, LoadedMap(f), lba, data)
  PROVE  /\ g \in Files /\ SameShape(g, f)
         /\ Contents(g) = IF HasRoom(f, lba, data)
                          THEN BD!Overwrite(Contents(f), lba * SecWords, data) ELSE Contents(f)
<1>1. CASE f \in RawFiles
  <2>1. f.format = "raw" /\ f.format # "IMD"
    BY <1>1 DEF RawFiles
  <2>2. g = WriteRaw(f, lba, data)
    BY <2>1 DEF WriteSector
  <2>3. g \in RawFiles /\ g.words = BD!Overwrite(f.words, lba * SecWords, data)
    BY <1>1, <2>2, WriteRawFacts
  <2>4. g.format = "raw" /\ g \in Files
    BY <2>3 DEF RawFiles, Files
  <2>5. HasRoom(f, lba, data)
    BY <2>1 DEF HasRoom
  <2> QED
    BY <2>1, <2>3, <2>4, <2>5 DEF SameShape, Contents
<1>2. CASE f \in ImdFiles
  <2>1. f.format = "IMD" /\ f.records \in [1..Total -> Records] /\ Record(f, lba) \in 1..Total
    BY <1>2, RecordInjective DEF ImdFiles
  <2>2. LoadedMap(f)[lba] = Record(f, lba)
    BY <1>2, <2>1, SectorMapFacts DEF LoadedMap
  <2>3. g = IF f.records[Record(f, lba)].compressed /\ ~Uniform(data) THEN f
            ELSE [f EXCEPT !.records[Record(f, lba)].words = data]
    BY <2>1, <2>2 DEF WriteSector, WriteImd
  <2>4. HasRoom(f, lba, data) <=> (f.records[Record(f, lba)].compressed => Uniform(data))
    BY <2>1, UniformFacts DEF HasRoom
  <2>5. CASE HasRoom(f, lba, data)
    <3>1. g = [f EXCEPT !.records[Record(f, lba)].words = data]
      BY <2>3, <2>4, <2>5
    <3>2. /\ g \in ImdFiles /\ SameShape(g, f)
          /\ Contents(g) = BD!Overwrite(Contents(f), lba * SecWords, data)
      BY <1>2, <3>1, StoreInRecord
    <3> QED
      BY <2>5, <3>2 DEF Files
  <2>6. CASE ~HasRoom(f, lba, data)
    <3>1. g = f
      BY <2>3, <2>4, <2>6
    <3> QED
      BY <1>2, <2>6, <3>1 DEF SameShape, Files
  <2> QED
    BY <2>5, <2>6
<1> QED
  BY <1>1, <1>2 DEF Files

\* READ_SECTOR's words, sector after sector, are those of the disc from the
\* addressed sector on.
Run(f, t, h, s, n) ==
  S!FlattenSeq([i \in 1..n |-> ReadSector(f, LoadedMap(f), Lba(t, h, s + i - 1))])

LEMMA ReadRun ==
  ASSUME NEW f \in Files, NEW t \in 0..(Tracks - 1), NEW h \in 0..(Heads - 1), NEW s \in 1..Spt,
         NEW n \in Nat \ {0}, s + n <= Spt + 1,
         NEW data, data = Run(f, t, h, s, n)
  PROVE  /\ data \in Seq(Words) /\ Len(data) = n * SecWords
         /\ \A x \in 1..(n * SecWords) : data[x] = Contents(f)[Lba(t, h, s) * SecWords + x]
<1> DEFINE seqs == [i \in 1..n |-> ReadSector(f, LoadedMap(f), Lba(t, h, s + i - 1))]
           l == Lba(t, h, s)
<1>1. ASSUME NEW i \in 1..n
      PROVE  Lba(t, h, s + i - 1) = l + (i - 1) /\ l + (i - 1) \in 0..(Total - 1)
  <2> DEFINE z == (t * Heads + h) * Spt
             u == s + i - 1
  <2>1. s \in 1..Spt /\ u \in 1..Spt /\ u - 1 = (s - 1) + (i - 1)
    BY Geometry
  <2>2. l = z + (s - 1) /\ z \in Nat
    BY LbaFacts
  <2> HIDE DEF u
  <2>3. Lba(t, h, u) = z + (u - 1) /\ Lba(t, h, u) \in 0..(Total - 1)
    BY <2>1, LbaFacts
  <2> HIDE DEF z, l
  <2>4. Lba(t, h, u) = l + (i - 1)
    BY <2>1, <2>2, <2>3
  <2> QED
    BY <2>3, <2>4 DEF u
<1>2. ASSUME NEW i \in 1..n
      PROVE  /\ seqs[i] \in SectorData
             /\ \A j \in 1..SecWords : seqs[i][j] = Contents(f)[(l + (i - 1)) * SecWords + j]
  <2> DEFINE v == l + (i - 1)
  <2>1. Lba(t, h, s + i - 1) = v /\ v \in 0..(Total - 1)
    BY <1>1
  <2>2. seqs[i] = ReadSector(f, LoadedMap(f), v)
    BY <2>1
  <2> HIDE DEF v, seqs
  <2>3. /\ ReadSector(f, LoadedMap(f), v) \in SectorData
        /\ \A j \in 1..SecWords : ReadSector(f, LoadedMap(f), v)[j] = Contents(f)[v * SecWords + j]
    BY <2>1, ReadFacts
  <2>4. seqs[i] \in SectorData /\ \A j \in 1..SecWords : seqs[i][j] = Contents(f)[v * SecWords + j]
    BY <2>2, <2>3
  <2> QED
    BY <2>4 DEF v
<1>3. seqs \in [1..n -> SectorData]
  BY <1>2
<1>4. l \in Nat
  BY LbaFacts
<1>5. data = S!FlattenSeq(seqs)
  BY DEF Run
<1> HIDE DEF seqs, l
<1>6. data = Joined(seqs, n)
  BY <1>3, <1>5, FlattenFacts
<1>7. n \in 0..n /\ n \in Nat
  OBVIOUS
<1>8. /\ data \in Seq(Words) /\ Len(data) = n * SecWords
      /\ \A x \in 1..(n * SecWords) : data[x] = Word(seqs, x)
  BY <1>3, <1>6, <1>7, JoinedFacts
<1>9. ASSUME NEW x \in 1..(n * SecWords) PROVE Word(seqs, x) = Contents(f)[l * SecWords + x]
  <2> DEFINE q == (x - 1) \div SecWords
             r == (x - 1) % SecWords
  <2>1. q \in 0..(n - 1) /\ r \in 0..(SecWords - 1) /\ x - 1 = q * SecWords + r
    BY <1>7, WordPlace
  <2>2. Word(seqs, x) = seqs[q + 1][r + 1]
    BY DEF Word
  <2> HIDE DEF q, r
  <2>3. q + 1 \in 1..n /\ r + 1 \in 1..SecWords /\ (q + 1) - 1 = q /\ q \in Nat
    BY <2>1, Geometry
  <2>4. seqs[q + 1][r + 1] = Contents(f)[(l + q) * SecWords + (r + 1)]
    BY <1>2, <2>3
  <2>5. (l + q) * SecWords = l * SecWords + q * SecWords
    BY <1>4, <2>3, Geometry, TimesSum
  <2>6. l * SecWords \in Nat /\ q * SecWords \in Nat /\ x \in Nat
    BY <1>4, <2>3, Geometry
  <2> DEFINE a == l * SecWords
             b == q * SecWords
             c == (l + q) * SecWords
  <2>7. c = a + b /\ a \in Nat /\ b \in Nat /\ x - 1 = b + r
    BY <2>1, <2>5, <2>6
  <2> HIDE DEF a, b, c
  <2>8. c + (r + 1) = a + x
    BY <2>1, <2>6, <2>7
  <2> QED
    BY <2>2, <2>4, <2>8 DEF a, c
<1> QED
  BY <1>8, <1>9 DEF l

-----------------------------------------------------------------------------
(* The invariant.                                                           *)

HeadTyped ==
  /\ track \in 0..(Tracks - 1)
  /\ regs \in [track : 0..(Tracks - 1), sector : 0..(Spt + 1), data : Nat]
  /\ step_dir \in {-1, 1}

Typed ==
  /\ HeadTyped
  /\ xfer \in [pos : Nat, len : Nat, write_pos : Int, formatting : BOOLEAN]
  /\ buf \in Seq(Words) /\ moved \in Seq(Words)
  /\ image \in [Drives -> Files] /\ disc \in Drives \cup {NoDisc}
  /\ drv \in {"idle", "wait"} /\ dma \in [en : BOOLEAN, reading : BOOLEAN]
  /\ req \in BD!Requests

\* Files keep their shape, and with it the map of the disc that is loaded.
Loaded ==
  /\ \A d \in Drives : SameShape(image[d], Blank[d])
  /\ disc # NoDisc => sector_map = LoadedMap(image[disc])

\* Words are asked for only while a driver waits for them, for a disc that is
\* in the drive; a format that lost its buffer has the DMA engine off for good.
Asking ==
  /\ drv = "idle" \/ disc = NoDisc => ~GetDrq
  /\ ~GetDrq => req = BD!NoRequest /\ buf = << >>
  /\ xfer.formatting => ~dma.en \/ (GetDrq /\ req.op = "format")
  /\ irq => ~GetDrq

\* While a word is asked for, the buffer and the position are those of the
\* request: what was read lies in the buffer, what was accepted lies there and
\* is to go to the sector of the request.
Serving ==
  GetDrq =>
    /\ req.op \in {"read", "address", "write", "format"}
    /\ dma.reading <=> req.op \in {"write", "format"}
    /\ Len(moved) = xfer.pos /\ asked = xfer.len
    /\ req.op # "address" => xfer.len = req.n * SecWords
    /\ req.op \in {"write", "format"} => xfer.len <= 2 * SecWords
    /\ req.op \in {"read", "address"} => Len(buf) = xfer.len
    /\ req.op = "read" =>
         /\ req.drive = disc
         /\ \A i \in 1..xfer.len : buf[i] = Contents(image[disc])[req.lba * SecWords + i]
    /\ req.op = "write" =>
         /\ req.drive = disc /\ req.n = 1 /\ req.lba \in 0..(Total - 1)
         /\ xfer.write_pos = req.lba /\ buf = moved
    /\ req.op = "format" => xfer.formatting

\* A transfer that is over and is not complete has left its mark in the status.
Answered ==
  drv = "wait" /\ ~GetDrq =>
    status \cap {7, 6, 4} # {} \/ Len(moved) = asked \/ (2 \in status /\ asked # 0)

IInv == Typed /\ Loaded /\ Asking /\ Serving /\ Answered

-----------------------------------------------------------------------------
(* Registers, commands that ask for no word, and resets.                    *)

LEMMA NoRequestTyped == BD!NoRequest \in BD!Requests
  BY WD2797Assumption DEF BD!NoRequest, BD!Requests

\* Where no word is asked for nothing is being served.
LEMMA Resting ==
  ASSUME ~GetDrq', req' = BD!NoRequest, buf' = << >>, xfer'.formatting => ~dma'.en,
         drv' = "wait" =>
           status' \cap {7, 6, 4} # {} \/ Len(moved') = asked' \/ (2 \in status' /\ asked' # 0)
  PROVE  Asking' /\ Serving' /\ Answered'
  BY DEF Asking, Serving, Answered

LEMMA FormatsOff == ASSUME IInv, ~GetDrq PROVE xfer.formatting => ~dma.en
  BY DEF IInv, Asking

LEMMA HeadKeeps ==
  ASSUME IInv, HeadTyped', UNCHANGED <<transfer, lines, media, guest, ghosts>>
  PROVE  IInv' /\ UNCHANGED BD!bdvars
<1> USE DEF transfer, lines, media, guest, ghosts
<1>1. Typed'
  BY DEF IInv, Typed
<1>2. Loaded'
  BY DEF IInv, Loaded
<1>3. GetDrq' <=> GetDrq
  BY DEF GetDrq
<1>4. Asking'
  BY <1>3 DEF IInv, Asking
<1>5. Serving'
  BY <1>3 DEF IInv, Serving
<1>6. Answered'
  BY <1>3 DEF IInv, Answered
<1>7. UNCHANGED BD!bdvars
  BY DEF BD!bdvars
<1> QED
  BY <1>1, <1>2, <1>4, <1>5, <1>6, <1>7 DEF IInv

LEMMA RegistersKeep ==
  ASSUME IInv
  PROVE  /\ \A v \in 0..(Tracks - 1) : WriteTrackReg(v) => IInv' /\ UNCHANGED BD!bdvars
         /\ \A v \in 0..(Spt + 1) : WriteSectorReg(v) => IInv' /\ UNCHANGED BD!bdvars
         /\ \A v \in 0..Tracks : WriteDataReg(v) => IInv' /\ UNCHANGED BD!bdvars
<1>1. HeadTyped /\ Tracks \in Nat
  BY Geometry DEF IInv, Typed
<1>2. ASSUME NEW v \in 0..(Tracks - 1), WriteTrackReg(v) PROVE IInv' /\ UNCHANGED BD!bdvars
  <2>1. HeadTyped'
    BY <1>1, <1>2 DEF WriteTrackReg, HeadTyped
  <2> QED
    BY <1>2, <2>1, HeadKeeps DEF WriteTrackReg
<1>3. ASSUME NEW v \in 0..(Spt + 1), WriteSectorReg(v) PROVE IInv' /\ UNCHANGED BD!bdvars
  <2>1. HeadTyped'
    BY <1>1, <1>3 DEF WriteSectorReg, HeadTyped
  <2> QED
    BY <1>3, <2>1, HeadKeeps DEF WriteSectorReg
<1>4. ASSUME NEW v \in 0..Tracks, WriteDataReg(v) PROVE IInv' /\ UNCHANGED BD!bdvars
  <2>1. HeadTyped' /\ UNCHANGED <<transfer, lines, media, guest, ghosts>>
    <3>1. v \in Nat
      BY <1>1
    <3> QED
      BY <1>1, <1>4, <3>1 DEF WriteDataReg, HeadTyped
  <2> QED
    BY <2>1, HeadKeeps
<1> QED
  BY <1>2, <1>3, <1>4

\* What Issue leaves to each command.
LEMMA IssueFacts ==
  ASSUME IInv, NEW cmd, NEW side, Issue(cmd, side), req' \in BD!Requests
  PROVE  /\ UNCHANGED <<disc, sector_map, image>> /\ Loaded'
         /\ moved' = << >> /\ moved' \in Seq(Words) /\ Len(moved') = 0
         /\ drv' \in {"idle", "wait"} /\ dma' \in [en : BOOLEAN, reading : BOOLEAN]
         /\ dma'.en = dma.en /\ (dma'.reading <=> cmd \in Writes)
         /\ (cmd # "FORCE_INTERRUPT" => ~GetDrq /\ drv' = "wait")
         /\ (cmd = "FORCE_INTERRUPT" => drv' = "idle")
         /\ BD!Begin
<1> USE DEF Issue
<1>1. UNCHANGED <<disc, sector_map, image>>
  BY DEF media
<1>2. Loaded'
  BY <1>1 DEF IInv, Loaded
<1>3. moved' = << >> /\ moved' \in Seq(Words) /\ Len(moved') = 0
  OBVIOUS
<1>4. dma \in [en : BOOLEAN, reading : BOOLEAN]
  BY DEF IInv, Typed
<1>5. /\ dma' \in [en : BOOLEAN, reading : BOOLEAN]
      /\ dma'.en = dma.en /\ (dma'.reading <=> cmd \in Writes)
  <2>1. (cmd \in Writes) \in BOOLEAN
    OBVIOUS
  <2> QED
    BY <1>4, <2>1
<1>6. drv' \in {"idle", "wait"}
  OBVIOUS
<1>7. cmd # "FORCE_INTERRUPT" => ~GetDrq /\ drv' = "wait"
  BY DEF IInv, Asking
<1>8. cmd = "FORCE_INTERRUPT" => drv' = "idle"
  OBVIOUS
<1>9. BD!Begin
  BY <1>1 DEF BD!Begin
<1> QED
  BY <1>1, <1>2, <1>3, <1>5, <1>6, <1>7, <1>8, <1>9

\* A command that ends at once.
LEMMA EndsAtOnce ==
  ASSUME IInv, NEW cmd, NEW side, Issue(cmd, side), HeadTyped',
         xfer' \in [pos : Nat, len : Nat, write_pos : Int, formatting : BOOLEAN],
         ~GetDrq', req' = BD!NoRequest, buf' = << >>, xfer'.formatting => ~dma.en,
         drv' = "wait" => status' \cap {7, 6, 4} # {} \/ asked' = 0
  PROVE  IInv' /\ BD!Begin
<1>1. req' \in BD!Requests
  BY NoRequestTyped
<1>2. /\ UNCHANGED <<disc, sector_map, image>> /\ Loaded'
      /\ moved' = << >> /\ moved' \in Seq(Words) /\ Len(moved') = 0
      /\ drv' \in {"idle", "wait"} /\ dma' \in [en : BOOLEAN, reading : BOOLEAN]
      /\ dma'.en = dma.en /\ BD!Begin
  BY <1>1, IssueFacts
<1>3. buf' \in Seq(Words)
  OBVIOUS
<1>4. Typed'
  BY <1>1, <1>2, <1>3 DEF IInv, Typed
<1>5. drv' = "wait" =>
        status' \cap {7, 6, 4} # {} \/ Len(moved') = asked' \/ (2 \in status' /\ asked' # 0)
  BY <1>2
<1>6. xfer'.formatting => ~dma'.en
  BY <1>2
<1>7. Asking' /\ Serving' /\ Answered'
  BY <1>5, <1>6, Resting
<1> QED
  BY <1>2, <1>4, <1>7 DEF IInv

LEMMA UntouchedTransfer ==
  ASSUME IInv, UNCHANGED <<head, transfer>>, ~GetDrq
  PROVE  /\ HeadTyped' /\ ~GetDrq' /\ buf' = << >> /\ (xfer'.formatting => ~dma.en)
         /\ xfer' \in [pos : Nat, len : Nat, write_pos : Int, formatting : BOOLEAN]
<1> USE DEF head, transfer
<1>1. HeadTyped'
  BY DEF IInv, Typed, HeadTyped
<1>2. ~GetDrq' /\ xfer' = xfer /\ buf' = buf
  BY DEF GetDrq
<1>3. buf = << >> /\ (xfer.formatting => ~dma.en)
  BY DEF IInv, Asking
<1>4. xfer \in [pos : Nat, len : Nat, write_pos : Int, formatting : BOOLEAN]
  BY DEF IInv, Typed
<1> QED
  BY <1>1, <1>2, <1>3, <1>4

LEMMA NotReadyKeeps ==
  ASSUME IInv, NEW cmd, NEW side, Issue(cmd, side), NotReady PROVE IInv' /\ BD!Begin
<1>1. ~GetDrq
  BY DEF NotReady, IInv, Asking
<1>2. UNCHANGED <<head, transfer>>
  BY DEF NotReady
<1>3. req' = BD!NoRequest /\ status' \cap {7, 6, 4} # {}
  BY DEF NotReady
<1> QED
  BY <1>1, <1>2, <1>3, UntouchedTransfer, EndsAtOnce

LEMMA FailKeeps ==
  ASSUME IInv, NEW cmd, NEW side, Issue(cmd, side), cmd # "FORCE_INTERRUPT",
         NEW bit \in {6, 4}, NEW n, Fail(bit, n)
  PROVE  IInv' /\ BD!Begin
<1>1. ~GetDrq
  BY DEF Issue, IInv, Asking
<1>2. UNCHANGED <<head, transfer>>
  BY DEF Fail
<1>3. req' = BD!NoRequest /\ status' \cap {7, 6, 4} # {}
  <2>1. req' = BD!NoRequest /\ status' = {bit}
    BY DEF Fail
  <2> QED
    BY <2>1
<1> QED
  BY <1>1, <1>2, <1>3, UntouchedTransfer, EndsAtOnce

LEMMA SteppedTyped ==
  ASSUME track \in 0..(Tracks - 1), NEW dir \in {-1, 1} PROVE Stepped(dir) \in 0..(Tracks - 1)
<1>1. Tracks \in Nat \ {0} /\ track \in Int /\ 0 <= track /\ track <= Tracks - 1
  BY Geometry
<1> DEFINE x == track + dir
<1>2. x \in Int
  BY <1>1
<1> HIDE DEF x
<1>3. CASE x < 0
  <2>1. ~(x >= Tracks) /\ ~(x \in 0..(Tracks - 1))
    BY <1>1, <1>2, <1>3
  <2>2. Stepped(dir) = 0
    BY <1>3, <2>1 DEF Stepped, x
  <2> QED
    BY <1>1, <2>2
<1>4. CASE x >= Tracks
  <2>1. ~(x < 0) /\ ~(x \in 0..(Tracks - 1))
    BY <1>1, <1>2, <1>4
  <2>2. Stepped(dir) = Tracks - 1
    BY <1>4, <2>1 DEF Stepped, x
  <2> QED
    BY <1>1, <2>2
<1>5. CASE x \in 0..(Tracks - 1)
  <2>1. ~(x < 0) /\ ~(x >= Tracks)
    BY <1>1, <1>2, <1>5
  <2>2. Stepped(dir) = x
    BY <1>5, <2>1 DEF Stepped, x
  <2> QED
    BY <1>5, <2>2
<1> QED
  BY <1>1, <1>2, <1>3, <1>4, <1>5

LEMMA PositionedTyped ==
  ASSUME IInv, NEW cmd, Positioned(cmd) PROVE HeadTyped'
<1> DEFINE dir == CASE cmd \in {"STEPIN", "STEPIN_TU"} -> 1
                    [] cmd \in {"STEPOUT", "STEPOUT_TU"} -> -1
                    [] cmd \notin {"STEPIN", "STEPIN_TU", "STEPOUT", "STEPOUT_TU"} -> step_dir
           found == cmd = "SEEK" /\ regs.data < Tracks
           steps == cmd \in Type1 \ {"RESTORE", "SEEK", "STEP"}
           T == 0..(Tracks - 1)
<1>1. HeadTyped /\ Tracks \in Nat \ {0}
  BY Geometry DEF IInv, Typed
<1>2. dir \in {-1, 1}
  BY <1>1 DEF HeadTyped
<1>3. /\ step_dir' = dir
      /\ track' = CASE cmd = "RESTORE" -> 0 [] found -> regs.data [] steps -> Stepped(dir)
                   [] ~(cmd = "RESTORE" \/ found \/ steps) -> track
      /\ regs' = IF cmd = "RESTORE" \/ found \/ cmd \in {"STEP_TU", "STEPIN_TU", "STEPOUT_TU"}
                 THEN [regs EXCEPT !.track = track'] ELSE regs
  BY DEF Positioned
<1>4. track \in T /\ regs \in [track : T, sector : 0..(Spt + 1), data : Nat]
  BY <1>1 DEF HeadTyped
<1>5. Stepped(dir) \in T
  BY <1>2, <1>4, SteppedTyped
<1>6. found => regs.data \in T
  <2>1. regs.data \in Nat
    BY <1>4
  <2> QED
    BY <1>1, <2>1
<1>7. 0 \in T
  BY <1>1
<1>8. (found => cmd = "SEEK") /\ (steps => cmd # "RESTORE" /\ cmd # "SEEK")
  OBVIOUS
<1> HIDE DEF dir, found, steps, T
<1>9. track' \in T
  BY <1>3, <1>4, <1>5, <1>6, <1>7, <1>8
<1>10. regs' \in [track : T, sector : 0..(Spt + 1), data : Nat]
  <2>1. regs' = regs \/ regs' = [regs EXCEPT !.track = track']
    BY <1>3
  <2> QED
    BY <1>4, <1>9, <2>1
<1> QED
  BY <1>2, <1>3, <1>9, <1>10 DEF HeadTyped, T

LEMMA Emptied ==
  ASSUME IInv, xfer' = [xfer EXCEPT !.pos = 0, !.len = 0]
  PROVE  /\ xfer' \in [pos : Nat, len : Nat, write_pos : Int, formatting : BOOLEAN]
         /\ ~GetDrq' /\ xfer'.formatting = xfer.formatting
<1>1. xfer \in [pos : Nat, len : Nat, write_pos : Int, formatting : BOOLEAN]
  BY DEF IInv, Typed
<1>2. xfer' \in [pos : Nat, len : Nat, write_pos : Int, formatting : BOOLEAN]
  BY <1>1
<1>3. xfer'.pos = 0 /\ xfer'.len = 0 /\ xfer'.formatting = xfer.formatting
  BY <1>1
<1> QED
  BY <1>2, <1>3 DEF GetDrq

LEMMA PositionKeeps ==
  ASSUME IInv, NEW cmd, NEW side, Issue(cmd, side), Position(cmd) PROVE IInv' /\ BD!Begin
<1>1. HeadTyped'
  BY PositionedTyped DEF Position
<1>2. /\ xfer' \in [pos : Nat, len : Nat, write_pos : Int, formatting : BOOLEAN]
      /\ ~GetDrq' /\ xfer'.formatting = xfer.formatting
  BY Emptied DEF Position
<1>3. cmd # "FORCE_INTERRUPT"
  BY DEF Position, Type1
<1>4. xfer'.formatting => ~dma.en
  BY <1>2, <1>3, FormatsOff DEF Issue, IInv, Asking
<1>5. req' = BD!NoRequest /\ asked' = 0 /\ buf' = << >>
  BY DEF Position
<1> QED
  BY <1>1, <1>2, <1>4, <1>5, EndsAtOnce

LEMMA ForceInterruptKeeps ==
  ASSUME ~GuestLeavesFormats, IInv, NEW cmd, NEW side, Issue(cmd, side), ForceInterrupt(cmd)
  PROVE  IInv' /\ BD!Begin
<1>1. HeadTyped'
  BY DEF ForceInterrupt, head, IInv, Typed, HeadTyped
<1>2. /\ xfer' \in [pos : Nat, len : Nat, write_pos : Int, formatting : BOOLEAN]
      /\ ~GetDrq' /\ xfer'.formatting = xfer.formatting
  BY Emptied DEF ForceInterrupt
<1>3. ~xfer.formatting
  BY DEF ForceInterrupt, Issue, MayLeave
<1>4. req' = BD!NoRequest /\ asked' = 0 /\ buf' = << >>
  BY DEF ForceInterrupt
<1> QED
  BY <1>1, <1>2, <1>3, <1>4, EndsAtOnce

-----------------------------------------------------------------------------
(* Commands that ask for words.                                             *)

\* What must be shown of a command that begins a transfer.
LEMMA TransferBegins ==
  ASSUME IInv, NEW cmd, NEW side, Issue(cmd, side), cmd # "FORCE_INTERRUPT", disc # NoDisc,
         HeadTyped', buf' \in Seq(Words), req' \in BD!Requests,
         xfer' \in [pos : Nat, len : Nat, write_pos : Int, formatting : BOOLEAN],
         xfer'.pos = 0, xfer'.len > 0, asked' = xfer'.len, irq' = FALSE,
         xfer'.formatting => ~dma.en \/ req'.op = "format",
         Serving'
  PROVE  IInv' /\ BD!Begin
<1>1. /\ UNCHANGED <<disc, sector_map, image>> /\ Loaded'
      /\ moved' = << >> /\ moved' \in Seq(Words) /\ Len(moved') = 0
      /\ drv' \in {"idle", "wait"} /\ dma' \in [en : BOOLEAN, reading : BOOLEAN]
      /\ dma'.en = dma.en /\ drv' = "wait" /\ BD!Begin
  BY IssueFacts
<1>2. Typed'
  BY <1>1 DEF IInv, Typed
<1>3. GetDrq'
  BY DEF GetDrq
<1>4. Asking'
  BY <1>1, <1>3 DEF Asking
<1>5. Answered'
  BY <1>3 DEF Answered
<1> QED
  BY <1>1, <1>2, <1>4, <1>5 DEF IInv

LEMMA HeadUntouched ==
  ASSUME IInv, UNCHANGED head
  PROVE  /\ HeadTyped' /\ track \in 0..(Tracks - 1) /\ regs.sector \in 0..(Spt + 1)
         /\ disc \in Drives \cup {NoDisc}
  BY DEF IInv, Typed, HeadTyped, head

LEMMA ReadKeeps ==
  ASSUME IInv, NEW cmd, NEW side \in 0..1, Issue(cmd, side), Read(cmd, side)
  PROVE  IInv' /\ BD!Begin
<1> DEFINE n == IF cmd = "READ_SECTOR_MULTI" THEN Spt ELSE 1
           file == image[disc]
           data == S!FlattenSeq([i \in 1..n |->
                     ReadSector(file, sector_map, Lba(track, side, regs.sector + i - 1))])
           l == Lba(track, side, regs.sector)
<1>1. /\ cmd \in Reads /\ disc # NoDisc /\ side < Heads /\ regs.sector \in 1..Spt
      /\ buf' = data /\ xfer' = [xfer EXCEPT !.pos = 0, !.len = Len(data)]
      /\ req' = Request("read", side, n) /\ asked' = n * SecWords
      /\ status' = {} /\ irq' = FALSE /\ UNCHANGED head
  BY DEF Read
<1>2. HeadTyped' /\ track \in 0..(Tracks - 1) /\ disc \in Drives
  BY <1>1, HeadUntouched
<1>3. cmd # "FORCE_INTERRUPT" /\ ~(cmd \in Writes) /\ (cmd = "READ_SECTOR_MULTI" => regs.sector <= 1)
  BY <1>1 DEF Reads, Writes, Issue
<1>4. /\ ~GetDrq /\ UNCHANGED <<disc, sector_map, image>> /\ moved' = << >> /\ Len(moved') = 0
      /\ (dma'.reading <=> cmd \in Writes)
  <2>1. BD!NoRequest \in BD!Requests
    BY NoRequestTyped
  <2> QED
    BY <1>3 DEF Issue, media, IInv, Asking, Typed
<1>5. file \in Files /\ sector_map = LoadedMap(file)
  BY <1>1, <1>2 DEF IInv, Typed, Loaded
<1>6. side \in 0..(Heads - 1) /\ Spt \in Nat \ {0} /\ SecWords \in Nat \ {0}
  BY <1>1, Geometry
<1>7. n \in Nat \ {0} /\ regs.sector + n <= Spt + 1
  BY <1>1, <1>3, <1>6
<1> HIDE DEF file, n
<1>8. data = Run(file, track, side, regs.sector, n)
  BY <1>5 DEF Run
<1> HIDE DEF data
<1>9. /\ data \in Seq(Words) /\ Len(data) = n * SecWords
      /\ \A x \in 1..(n * SecWords) : data[x] = Contents(file)[l * SecWords + x]
  BY <1>1, <1>2, <1>5, <1>6, <1>7, <1>8, ReadRun
<1>10. n * SecWords \in Nat /\ n * SecWords > 0
  <2>1. 1 * SecWords <= n * SecWords
    BY <1>6, <1>7, TimesMonotone
  <2> QED
    BY <1>6, <1>7, <2>1
<1>11. l \in Nat /\ SectorsBefore(track, side, regs.sector) = l
  BY <1>1, <1>2, <1>6, LbaCounts, LbaFacts
<1> HIDE DEF l
<1>12. /\ req' = [op |-> "read", drive |-> disc, lba |-> l, n |-> n]
       /\ req' \in BD!Requests
  <2>1. req' = [op |-> "read", drive |-> disc, lba |-> l, n |-> n]
    BY <1>1, <1>11 DEF Request
  <2> QED
    BY <1>2, <1>7, <1>11, <2>1 DEF BD!Requests
<1>13. /\ xfer' \in [pos : Nat, len : Nat, write_pos : Int, formatting : BOOLEAN]
       /\ xfer'.pos = 0 /\ xfer'.len = n * SecWords /\ xfer'.formatting = xfer.formatting
  <2>1. xfer \in [pos : Nat, len : Nat, write_pos : Int, formatting : BOOLEAN]
    BY DEF IInv, Typed
  <2> QED
    BY <1>1, <1>9, <1>10, <2>1
<1>14. xfer'.formatting => ~dma.en
  BY <1>4, <1>13, FormatsOff
<1>15. \A i \in 1..xfer'.len : buf'[i] = Contents(image'[disc'])[req'.lba * SecWords + i]
  BY <1>1, <1>4, <1>9, <1>12, <1>13 DEF file
<1>16. Serving'
  BY <1>1, <1>3, <1>4, <1>9, <1>12, <1>13, <1>15 DEF Serving
<1> QED
  BY <1>1, <1>2, <1>3, <1>9, <1>10, <1>12, <1>13, <1>14, <1>16, TransferBegins

LEMMA WriteKeeps ==
  ASSUME IInv, NEW cmd, NEW side \in 0..1, Issue(cmd, side), Write(cmd, side)
  PROVE  IInv' /\ BD!Begin
<1> DEFINE sector == cmd = "WRITE_SECTOR"
           len == IF sector THEN SecWords ELSE 2 * SecWords
           before == SectorsBefore(track, side, regs.sector)
<1>1. /\ cmd \in {"WRITE_SECTOR", "FORMAT_TRACK"} /\ disc # NoDisc
      /\ xfer' = [xfer EXCEPT !.pos = 0, !.len = len,
                    !.write_pos = IF sector THEN Lba(track, side, regs.sector) ELSE @,
                    !.formatting = @ \/ cmd = "FORMAT_TRACK"]
      /\ req' = IF sector THEN Request("write", side, 1) ELSE Request("format", side, 2)
      /\ asked' = xfer'.len /\ status' = {} /\ irq' = FALSE /\ UNCHANGED head /\ buf' = buf
  BY DEF Write, Writes
<1>2. HeadTyped' /\ track \in 0..(Tracks - 1) /\ disc \in Drives
  BY <1>1, HeadUntouched
<1>3. cmd # "FORCE_INTERRUPT" /\ cmd \in Writes /\ (sector => regs.sector \in 1..Spt /\ side < Heads)
  BY <1>1 DEF Writes, Issue
<1>4. /\ ~GetDrq /\ UNCHANGED <<disc, sector_map, image>> /\ moved' = << >> /\ Len(moved') = 0
      /\ (dma'.reading <=> cmd \in Writes) /\ buf = << >>
  BY <1>3 DEF Issue, media, IInv, Asking, Typed
<1>5. SecWords \in Nat \ {0} /\ len \in Nat /\ len > 0 /\ len <= 2 * SecWords
  BY Geometry
<1>6. before \in Nat
  BY BeforeFinite
<1>7. sector => /\ Lba(track, side, regs.sector) = before
                /\ before \in 0..(Total - 1) /\ before \in Int
  <2> SUFFICES ASSUME sector PROVE /\ Lba(track, side, regs.sector) = before
                                   /\ before \in 0..(Total - 1) /\ before \in Int
    OBVIOUS
  <2>1. side \in 0..(Heads - 1) /\ regs.sector \in 1..Spt
    BY <1>3, Geometry
  <2> QED
    BY <1>2, <1>6, <2>1, LbaCounts, LbaFacts
<1>8. xfer \in [pos : Nat, len : Nat, write_pos : Int, formatting : BOOLEAN]
  BY DEF IInv, Typed
<1>9. (sector <=> cmd # "FORMAT_TRACK") /\ (cmd = "FORMAT_TRACK") \in BOOLEAN
  BY <1>1
<1> HIDE DEF len, before
<1>10. /\ xfer' \in [pos : Nat, len : Nat, write_pos : Int, formatting : BOOLEAN]
       /\ xfer'.pos = 0 /\ xfer'.len = len
       /\ sector => xfer'.write_pos = before /\ xfer'.formatting = xfer.formatting
       /\ ~sector => xfer'.formatting = TRUE
  <2>1. CASE sector
    BY <1>1, <1>5, <1>7, <1>8, <1>9, <2>1
  <2>2. CASE ~sector
    BY <1>1, <1>5, <1>8, <1>9, <2>2
  <2> QED
    BY <2>1, <2>2
<1>11. req' = IF sector THEN [op |-> "write", drive |-> disc, lba |-> before, n |-> 1]
              ELSE [op |-> "format", drive |-> disc, lba |-> before, n |-> 2]
  BY <1>1 DEF Request, before
<1>12. req' \in BD!Requests
  BY <1>2, <1>6, <1>11 DEF BD!Requests
<1>13. xfer'.formatting => ~dma.en \/ req'.op = "format"
  <2>1. xfer.formatting => ~dma.en
    BY <1>4, FormatsOff
  <2> QED
    BY <1>10, <1>11, <2>1
<1>14. xfer'.len = req'.n * SecWords
  <2>1. 1 * SecWords = SecWords
    BY <1>5
  <2> QED
    BY <1>10, <1>11, <2>1 DEF len
<1>15. buf' = moved' /\ buf' \in Seq(Words)
  BY <1>1, <1>4
<1>16. Serving'
  <2>1. CASE sector
    <3>1. /\ req'.op = "write" /\ req'.drive = disc /\ req'.n = 1 /\ req'.lba = before
          /\ xfer'.write_pos = before /\ before \in 0..(Total - 1)
      BY <1>7, <1>10, <1>11, <2>1
    <3> QED
      BY <1>1, <1>3, <1>4, <1>5, <1>10, <1>14, <1>15, <3>1 DEF Serving
  <2>2. CASE ~sector
    <3>1. req'.op = "format" /\ xfer'.formatting = TRUE
      BY <1>10, <1>11, <2>2
    <3> QED
      BY <1>1, <1>3, <1>4, <1>5, <1>10, <1>14, <3>1 DEF Serving
  <2> QED
    BY <2>1, <2>2
<1> QED
  BY <1>1, <1>2, <1>3, <1>5, <1>10, <1>12, <1>13, <1>15, <1>16, TransferBegins

LEMMA ReadAddressKeeps ==
  ASSUME IInv, NEW cmd, NEW side \in 0..1, Issue(cmd, side), ReadAddress(cmd, side)
  PROVE  IInv' /\ BD!Begin
<1>1. /\ cmd = "READ_ADDRESS" /\ disc # NoDisc
      /\ buf' = <<256 * track + side, 256 * regs.sector + 2, 0>>
      /\ xfer' = [xfer EXCEPT !.pos = 0, !.len = 3]
      /\ req' = [BD!NoRequest EXCEPT !.op = "address"] /\ asked' = 3
      /\ irq' = FALSE /\ UNCHANGED head
  BY DEF ReadAddress
<1>2. HeadTyped' /\ track \in 0..(Tracks - 1) /\ regs.sector \in 0..(Spt + 1)
  BY <1>1, HeadUntouched
<1>3. cmd # "FORCE_INTERRUPT" /\ ~(cmd \in Writes)
  BY <1>1 DEF Writes
<1>4. ~GetDrq /\ moved' = << >> /\ Len(moved') = 0 /\ (dma'.reading <=> cmd \in Writes)
  BY <1>3 DEF Issue, IInv, Asking, Typed
<1>5. {256 * track + side, 256 * regs.sector + 2, 0} \subseteq Words
  <2>1. \A t \in 0..(Tracks - 1), h \in 0..1, s \in 0..(Spt + 1) :
          {256 * t + h, 256 * s + 2, 0} \subseteq Words
    BY WD2797Assumption, Zenon
  <2>2. side \in 0..1 /\ regs.sector \in 0..(Spt + 1)
    BY <1>2
  <2>3. \A h \in 0..1, s \in 0..(Spt + 1) : {256 * track + h, 256 * s + 2, 0} \subseteq Words
    BY <1>2, <2>1, Zenon
  <2>4. \A s \in 0..(Spt + 1) : {256 * track + side, 256 * s + 2, 0} \subseteq Words
    BY <2>2, <2>3, Zenon
  <2> QED
    BY <2>2, <2>4, Zenon
<1>6. buf' \in Seq(Words) /\ Len(buf') = 3
  <2> DEFINE a == 256 * track + side
             b == 256 * regs.sector + 2
  <2>1. a \in Words /\ b \in Words /\ 0 \in Words
    BY <1>5
  <2>2. buf' = <<a, b, 0>>
    BY <1>1
  <2> HIDE DEF a, b
  <2> QED
    BY <2>1, <2>2
<1>7. req' = [op |-> "address", drive |-> 0, lba |-> 0, n |-> 0] /\ req' \in BD!Requests
  <2>1. req' = [op |-> "address", drive |-> 0, lba |-> 0, n |-> 0]
    BY <1>1 DEF BD!NoRequest
  <2> QED
    BY <2>1, WD2797Assumption DEF BD!Requests
<1>8. /\ xfer' \in [pos : Nat, len : Nat, write_pos : Int, formatting : BOOLEAN]
      /\ xfer'.pos = 0 /\ xfer'.len = 3 /\ xfer'.formatting = xfer.formatting
  <2>1. xfer \in [pos : Nat, len : Nat, write_pos : Int, formatting : BOOLEAN]
    BY DEF IInv, Typed
  <2> QED
    BY <1>1, <2>1
<1>9. xfer'.formatting => ~dma.en
  BY <1>4, <1>8, FormatsOff
<1>10. Serving'
  BY <1>1, <1>3, <1>4, <1>6, <1>7, <1>8 DEF Serving
<1>11. xfer'.len > 0 /\ asked' = xfer'.len /\ irq' = FALSE /\ disc # NoDisc
  BY <1>1, <1>8
<1> QED
  BY <1>2, <1>3, <1>6, <1>7, <1>8, <1>9, <1>10, <1>11, TransferBegins

LEMMA WriteCommandKeeps ==
  ASSUME ~GuestLeavesFormats, IInv, NEW cmd, NEW side \in 0..1, WriteCommand(cmd, side)
  PROVE  IInv' /\ BD!Begin
<1>1. Issue(cmd, side)
  BY DEF WriteCommand
<1>2. CASE NotReady
  BY <1>1, <1>2, NotReadyKeeps
<1>3. CASE Position(cmd)
  BY <1>1, <1>3, PositionKeeps
<1>4. CASE WriteProtected(cmd)
  <2>1. cmd # "FORCE_INTERRUPT" /\ Fail(6, SecWords)
    BY <1>4 DEF WriteProtected, Writes
  <2> QED
    BY <1>1, <2>1, FailKeeps
<1>5. CASE BadAddress(cmd, side)
  <2>1. cmd # "FORCE_INTERRUPT" /\ Fail(4, SecWords)
    BY <1>5 DEF BadAddress, Reads
  <2> QED
    BY <1>1, <2>1, FailKeeps
<1>6. CASE Read(cmd, side)
  BY <1>1, <1>6, ReadKeeps
<1>7. CASE Write(cmd, side)
  BY <1>1, <1>7, WriteKeeps
<1>8. CASE ReadAddress(cmd, side)
  BY <1>1, <1>8, ReadAddressKeeps
<1>9. CASE ForceInterrupt(cmd)
  BY <1>1, <1>9, ForceInterruptKeeps
<1> QED
  BY <1>2, <1>3, <1>4, <1>5, <1>6, <1>7, <1>8, <1>9 DEF WriteCommand

-----------------------------------------------------------------------------
(* Words.                                                                   *)

Xfers == [pos : Nat, len : Nat, write_pos : Int, formatting : BOOLEAN]

\* Where a transfer is when a word is asked for, and one on.
LEMMA Position1 ==
  ASSUME IInv, GetDrq
  PROVE  /\ xfer \in Xfers /\ xfer.pos \in Nat /\ xfer.len \in Nat /\ xfer.pos < xfer.len
         /\ xfer.len # 0 /\ moved \in Seq(Words) /\ Len(moved) = xfer.pos
         /\ \A w \in Words : Append(moved, w) \in Seq(Words) /\ Len(Append(moved, w)) = xfer.pos + 1
         /\ disc \in Drives /\ disc # NoDisc /\ drv = "wait" /\ irq # TRUE /\ asked = xfer.len
<1>1. xfer \in Xfers /\ moved \in Seq(Words) /\ drv \in {"idle", "wait"} /\ disc \in Drives \cup {NoDisc}
  BY DEF IInv, Typed, Xfers
<1>2. Len(moved) = xfer.pos /\ asked = xfer.len
  BY DEF IInv, Serving
<1>3. xfer.pos \in Nat /\ xfer.len \in Nat /\ xfer.pos < xfer.len
  BY <1>1 DEF GetDrq, Xfers
<1>4. \A w \in Words : Append(moved, w) \in Seq(Words) /\ Len(Append(moved, w)) = Len(moved) + 1
  BY <1>1
<1>5. disc # NoDisc /\ drv # "idle" /\ irq # TRUE
  BY DEF IInv, Asking
<1>6. \A w \in Words : Append(moved, w) \in Seq(Words) /\ Len(Append(moved, w)) = xfer.pos + 1
  BY <1>2, <1>4, Zenon
<1>7. disc \in Drives /\ drv = "wait"
  BY <1>1, <1>5
<1>8. xfer.len # 0
  BY <1>3
<1> QED
  BY <1>1, <1>2, <1>3, <1>5, <1>6, <1>7, <1>8, Zenon

\* After the last word nothing is asked for, and all have moved.
LEMMA LastWordRests ==
  ASSUME IInv, GetDrq, Last, UNCHANGED <<disc, sector_map, status, guest, asked>>,
         NEW w \in Words, moved' = Append(moved, w), HeadTyped', buf' = << >>, req' = BD!NoRequest,
         xfer' \in Xfers, xfer'.pos = xfer.pos + 1, xfer'.len = xfer.len,
         xfer'.formatting => ~dma.en, image' \in [Drives -> Files], Loaded'
  PROVE  IInv'
<1>1. /\ xfer.pos + 1 = xfer.len /\ moved' \in Seq(Words) /\ Len(moved') = xfer.len /\ asked' = xfer.len
  BY Position1 DEF Last
<1>2. ~GetDrq'
  BY <1>1, Position1 DEF GetDrq
<1>3. Typed'
  <2>1. drv' = drv /\ dma' = dma /\ buf' \in Seq(Words)
    BY DEF guest
  <2> QED
    BY <1>1, <2>1, NoRequestTyped DEF IInv, Typed, Xfers
<1>4. xfer'.formatting => ~dma'.en
  BY DEF guest
<1>5. Len(moved') = asked'
  BY <1>1
<1>6. Asking' /\ Serving' /\ Answered'
  BY <1>2, <1>4, <1>5, Resting
<1> QED
  BY <1>3, <1>6 DEF IInv

LEMMA DmaReadKeeps == ASSUME IInv, DmaRead PROVE IInv' /\ (BD!Deliver \/ BD!Identify)
<1> DEFINE w == buf[xfer.pos + 1]
<1>1. /\ GetDrq /\ ~dma.reading /\ xfer' = [xfer EXCEPT !.pos = @ + 1]
      /\ moved' = Append(moved, w) /\ buf' = IF Last THEN << >> ELSE buf
      /\ IF Last THEN irq' = TRUE /\ req' = BD!NoRequest ELSE UNCHANGED <<irq, req>>
      /\ UNCHANGED <<head, status, media, guest, asked>>
  BY DEF DmaRead
<1>2. /\ xfer \in Xfers /\ xfer.pos \in Nat /\ xfer.len \in Nat /\ xfer.pos < xfer.len
      /\ moved \in Seq(Words) /\ Len(moved) = xfer.pos /\ irq # TRUE
      /\ disc \in Drives /\ disc # NoDisc /\ drv = "wait" /\ asked = xfer.len
  BY <1>1, Position1
<1>3. req.op \in {"read", "address"} /\ buf \in Seq(Words) /\ Len(buf) = xfer.len
  BY <1>1 DEF IInv, Serving, Typed
<1>4. w \in Words
  <2>1. xfer.pos + 1 \in 1..Len(buf)
    BY <1>2, <1>3
  <2> QED
    BY <1>3, <2>1
<1>5. moved' \in Seq(Words) /\ Len(moved') = xfer.pos + 1
  BY <1>1, <1>4, Position1
<1>6. /\ xfer' \in Xfers /\ xfer'.pos = xfer.pos + 1 /\ xfer'.len = xfer.len
      /\ xfer'.formatting = xfer.formatting
  BY <1>1, <1>2 DEF Xfers
<1>7. UNCHANGED <<disc, sector_map, image, status, guest, asked>> /\ HeadTyped' /\ Loaded'
  <2>1. UNCHANGED <<disc, sector_map, image, status, guest, asked>>
    BY <1>1 DEF media
  <2>2. Loaded'
    BY <2>1 DEF IInv, Loaded
  <2> QED
    BY <1>1, <2>1, <2>2, HeadUntouched
<1>8. xfer.formatting => ~dma.en
  BY <1>3 DEF IInv, Asking
<1>9. IInv'
  <2>1. CASE Last
    <3>1. image' \in [Drives -> Files]
      BY <1>7 DEF IInv, Typed
    <3> QED
      BY <1>1, <1>4, <1>6, <1>7, <1>8, <2>1, <3>1, LastWordRests
  <2>2. CASE ~Last
    <3>1. buf' = buf /\ req' = req /\ irq' = irq
      BY <1>1, <2>2
    <3>2. xfer.pos + 1 < xfer.len
      BY <1>2, <2>2 DEF Last
    <3>3. GetDrq'
      BY <1>6, <3>2 DEF GetDrq
    <3>4. Typed'
      BY <1>5, <1>6, <1>7, <3>1 DEF IInv, Typed, guest, Xfers
    <3>5. Asking'
      BY <1>2, <1>6, <1>7, <1>8, <3>1, <3>3 DEF Asking, guest
    <3>6. Answered'
      BY <3>3 DEF Answered
    <3>7. Serving'
      BY <1>1, <1>3, <1>5, <1>6, <1>7, <3>1 DEF IInv, Serving, guest
    <3> QED
      BY <1>7, <3>4, <3>5, <3>6, <3>7 DEF IInv
  <2> QED
    BY <2>1, <2>2
<1>10. UNCHANGED [d \in Drives |-> Contents(image[d])]
  BY <1>7
<1>11. CASE req.op = "read"
  <2>1. /\ req.drive = disc /\ xfer.len = req.n * SecWords
        /\ \A i \in 1..xfer.len : buf[i] = Contents(image[disc])[req.lba * SecWords + i]
    BY <1>1, <1>11 DEF IInv, Serving
  <2>2. Len(moved) < BD!Size(req)
    BY <1>2, <2>1 DEF BD!Size
  <2>3. w = Contents(image[disc])[req.lba * SecWords + (xfer.pos + 1)]
    <3>1. xfer.pos + 1 \in 1..xfer.len
      BY <1>2
    <3> QED
      BY <2>1, <3>1
  <2>4. req.lba * SecWords + Len(moved) + 1 = req.lba * SecWords + (xfer.pos + 1)
    <3>1. req.lba \in Nat
      BY DEF IInv, Typed, BD!Requests
    <3>2. req.lba * SecWords \in Nat
      BY <3>1, Geometry
    <3> QED
      BY <1>2, <3>2
  <2>5. req' = IF Len(moved) + 1 = BD!Size(req) THEN BD!NoRequest ELSE req
    BY <1>1, <1>2, <2>1 DEF BD!Size, Last
  <2>6. [d \in Drives |-> Contents(image[d])][req.drive] = Contents(image[disc])
    BY <1>2, <2>1
  <2> HIDE DEF w
  <2>7. moved' = Append(moved, [d \in Drives |-> Contents(image[d])][req.drive]
                                 [req.lba * SecWords + Len(moved) + 1])
    BY <1>1, <2>3, <2>4, <2>6
  <2> QED
    BY <1>9, <1>10, <1>11, <2>2, <2>5, <2>7 DEF BD!Deliver
<1>12. CASE req.op = "address"
  <2>1. req' \in {req, BD!NoRequest}
    BY <1>1
  <2> HIDE DEF w
  <2>2. \E v \in Words : moved' = Append(moved, v)
    BY <1>1, <1>4
  <2> QED
    BY <1>9, <1>10, <1>12, <2>1, <2>2 DEF BD!Identify
<1> QED
  BY <1>3, <1>11, <1>12

LEMMA FromMemoryTyped ==
  ASSUME IInv, GetDrq, dma.reading, NEW w \in FromMemory PROVE w \in Words
<1>1. xfer.pos \in Nat /\ xfer.len \in Nat /\ xfer.pos < xfer.len
  BY Position1
<1>2. xfer.len <= 2 * SecWords
  BY DEF IInv, Serving
<1>3. xfer.pos + 1 \in 1..(2 * SecWords)
  BY <1>1, <1>2, Geometry
<1>4. MemoryWords[xfer.pos + 1] \in SUBSET Words
  BY <1>3, WD2797Assumption
<1> QED
  BY <1>4 DEF FromMemory

\* What every word of a write has.
LEMMA DmaWriteFacts ==
  ASSUME IInv, NEW w \in FromMemory, DmaWrite(w)
  PROVE  /\ GetDrq /\ w \in Words /\ HeadTyped' /\ req.op \in {"write", "format"}
         /\ req.op = "write" => xfer.formatting = FALSE /\ xfer.write_pos \in Nat
         /\ req.op = "format" => xfer.formatting = TRUE
         /\ dma.en /\ xfer.len = req.n * SecWords
         /\ xfer' = [xfer EXCEPT !.pos = @ + 1, !.write_pos = IF Last THEN NoWrite ELSE @,
                       !.formatting = @ /\ ~Last]
         /\ moved' = Append(moved, w)
         /\ IF Last THEN irq' = TRUE /\ req' = BD!NoRequest ELSE UNCHANGED <<irq, req>>
         /\ UNCHANGED <<track, step_dir, status, disc, sector_map, guest, asked>>
<1>1. GetDrq /\ dma.en /\ dma.reading
  BY DEF DmaWrite
<1>2. w \in Words
  BY <1>1, FromMemoryTyped
<1>3. HeadTyped'
  <2>1. HeadTyped /\ regs' = [regs EXCEPT !.data = w % 256] /\ track' = track /\ step_dir' = step_dir
    BY DEF DmaWrite, IInv, Typed
  <2>2. w \in Nat
    <3>1. Words \subseteq Nat
      BY WD2797Assumption, Zenon
    <3> QED
      BY <1>2, <3>1, Zenon
  <2>3. w % 256 \in Nat
    BY <2>2
  <2> QED
    BY <2>1, <2>3 DEF HeadTyped
<1>4. req.op \in {"write", "format"} /\ xfer.len = req.n * SecWords
  BY <1>1 DEF IInv, Serving
<1>5. xfer.formatting \in BOOLEAN /\ (xfer.formatting => req.op = "format")
  BY <1>1 DEF IInv, Asking, Typed
<1>6. req.op = "write" => xfer.formatting = FALSE /\ xfer.write_pos \in Nat
  <2>1. req.op = "write" => xfer.write_pos = req.lba /\ req.lba \in 0..(Total - 1)
    BY <1>1 DEF IInv, Serving
  <2> QED
    BY <1>5, <2>1, Geometry
<1>7. req.op = "format" => xfer.formatting = TRUE
  BY <1>1, <1>5 DEF IInv, Serving
<1>8. xfer.formatting \/ xfer.write_pos >= 0
  BY <1>4, <1>6, <1>7
<1>9. /\ xfer' = [xfer EXCEPT !.pos = @ + 1, !.write_pos = IF Last THEN NoWrite ELSE @,
                       !.formatting = @ /\ ~Last]
      /\ moved' = Append(moved, w)
      /\ IF Last THEN irq' = TRUE /\ req' = BD!NoRequest ELSE UNCHANGED <<irq, req>>
      /\ UNCHANGED <<track, step_dir, status, disc, sector_map, guest, asked>>
  BY <1>8 DEF DmaWrite
<1> QED
  BY <1>1, <1>2, <1>3, <1>4, <1>6, <1>7, <1>9

\* The buffer and the file after a word of a write.
LEMMA DmaWriteBuffer ==
  ASSUME IInv, NEW w \in FromMemory, DmaWrite(w)
  PROVE  /\ buf' = IF Last THEN << >> ELSE IF req.op = "format" THEN buf ELSE moved'
         /\ image' = IF Last /\ req.op = "write"
                     THEN [image EXCEPT ![disc] = WriteSector(@, sector_map, req.lba, moved')]
                     ELSE image
<1>1. /\ GetDrq /\ w \in Words /\ req.op \in {"write", "format"} /\ moved' = Append(moved, w)
      /\ req.op = "write" => xfer.formatting = FALSE /\ xfer.write_pos \in Nat
      /\ req.op = "format" => xfer.formatting = TRUE
  BY DmaWriteFacts
<1> DEFINE b == IF xfer.formatting THEN buf ELSE BD!Overwrite(buf, xfer.pos, <<w>>)
<1>2. xfer.formatting \/ xfer.write_pos >= 0
  BY <1>1
<1>3. /\ buf' = IF Last THEN << >> ELSE b
      /\ image' = IF Last /\ ~xfer.formatting
                  THEN [image EXCEPT ![disc] = WriteSector(@, sector_map, Written(xfer.write_pos), b)]
                  ELSE image
  BY <1>2 DEF DmaWrite
<1>4. CASE req.op = "format"
  BY <1>1, <1>3, <1>4
<1>5. CASE req.op = "write"
  <2>1. buf = moved /\ moved \in Seq(Words) /\ Len(moved) = xfer.pos
        /\ xfer.write_pos = req.lba /\ req.lba \in 0..(Total - 1)
    BY <1>1, <1>5 DEF IInv, Serving, Typed
  <2>2. BD!Overwrite(buf, xfer.pos, <<w>>) = moved'
    BY <1>1, <2>1, OverwriteAppends
  <2>3. b = moved'
    BY <1>1, <1>5, <2>2
  <2>4. Written(xfer.write_pos) = req.lba
    BY <2>1, WrittenBack
  <2> HIDE DEF b
  <2> QED
    BY <1>1, <1>3, <1>5, <2>3, <2>4
<1> QED
  BY <1>1, <1>4, <1>5

LEMMA AcceptKeeps ==
  ASSUME IInv, NEW w \in FromMemory, DmaWrite(w), ~Last PROVE IInv' /\ BD!Accept
<1>1. /\ GetDrq /\ w \in Words /\ HeadTyped' /\ req.op \in {"write", "format"}
      /\ req.op = "write" => xfer.formatting = FALSE
      /\ req.op = "format" => xfer.formatting = TRUE
      /\ dma.en /\ xfer.len = req.n * SecWords
      /\ xfer' = [xfer EXCEPT !.pos = @ + 1, !.write_pos = IF Last THEN NoWrite ELSE @,
                    !.formatting = @ /\ ~Last]
      /\ moved' = Append(moved, w) /\ UNCHANGED <<irq, req>>
      /\ UNCHANGED <<status, disc, sector_map, guest, asked>>
  BY DmaWriteFacts
<1>2. /\ xfer \in Xfers /\ xfer.pos \in Nat /\ xfer.len \in Nat /\ xfer.pos < xfer.len
      /\ Len(moved) = xfer.pos /\ moved' \in Seq(Words) /\ Len(moved') = xfer.pos + 1
      /\ disc \in Drives /\ disc # NoDisc /\ drv = "wait" /\ irq # TRUE /\ asked = xfer.len
  BY <1>1, Position1
<1>3. buf' = (IF req.op = "format" THEN buf ELSE moved') /\ image' = image
  BY DmaWriteBuffer
<1>4. /\ xfer' \in Xfers /\ xfer'.pos = xfer.pos + 1 /\ xfer'.len = xfer.len
      /\ xfer'.formatting = xfer.formatting /\ xfer'.write_pos = xfer.write_pos
  <2>1. (xfer.formatting /\ ~Last) = xfer.formatting
    BY <1>1
  <2> DEFINE p == xfer.pos + 1
             v == xfer.write_pos
             b == xfer.formatting
  <2>2. xfer' = [xfer EXCEPT !.pos = p, !.write_pos = v, !.formatting = b]
    BY <1>1, <2>1, <1>2
  <2>3. p \in Nat /\ v \in Int /\ b \in BOOLEAN
    BY <1>2 DEF Xfers
  <2> HIDE DEF p, v, b
  <2>4. /\ xfer'.pos = p /\ xfer'.len = xfer.len
        /\ xfer'.write_pos = v /\ xfer'.formatting = b
    BY <1>2, <2>2 DEF Xfers
  <2>5. xfer' \in Xfers
    BY <1>2, <2>2, <2>3 DEF Xfers
  <2> QED
    BY <2>4, <2>5 DEF p, v, b
<1>5. xfer.pos + 1 < xfer.len
  BY <1>2 DEF Last
<1>6. GetDrq'
  BY <1>4, <1>5 DEF GetDrq
<1>7. Typed'
  <2>1. buf' \in Seq(Words)
    BY <1>2, <1>3 DEF IInv, Typed
  <2> QED
    BY <1>1, <1>2, <1>3, <1>4, <2>1 DEF IInv, Typed, guest, Xfers
<1>8. Loaded'
  BY <1>1, <1>3 DEF IInv, Loaded
<1>9. Asking'
  BY <1>1, <1>2, <1>4, <1>6 DEF Asking, guest
<1>10. Answered'
  BY <1>6 DEF Answered
<1>11. Serving'
  <2>1. /\ dma.reading <=> req.op \in {"write", "format"}
        /\ xfer.len <= 2 * SecWords
        /\ req.op = "write" =>
             /\ req.drive = disc /\ req.n = 1 /\ req.lba \in 0..(Total - 1)
             /\ xfer.write_pos = req.lba
    BY <1>1 DEF IInv, Serving
  <2> QED
    BY <1>1, <1>2, <1>3, <1>4, <2>1 DEF Serving, guest
<1>12. BD!Accept
  <2>1. Len(moved) + 1 < BD!Size(req)
    BY <1>1, <1>2, <1>5 DEF BD!Size
  <2>2. \E v \in Words : moved' = Append(moved, v)
    BY <1>1
  <2>3. UNCHANGED <<[d \in Drives |-> Contents(image[d])], req>>
    BY <1>1, <1>3
  <2> QED
    BY <1>1, <2>1, <2>2, <2>3 DEF BD!Accept
<1> QED
  BY <1>7, <1>8, <1>9, <1>10, <1>11, <1>12 DEF IInv

\* The last word of a write: the sector is written out whole, or, of a format,
\* nothing is.
LEMMA StoreKeeps ==
  ASSUME WholeDiscs, IInv, NEW w \in FromMemory, DmaWrite(w), Last PROVE IInv' /\ BD!Store
<1>1. /\ GetDrq /\ w \in Words /\ HeadTyped' /\ req.op \in {"write", "format"}
      /\ dma.en /\ xfer.len = req.n * SecWords
      /\ xfer' = [xfer EXCEPT !.pos = @ + 1, !.write_pos = IF Last THEN NoWrite ELSE @,
                    !.formatting = @ /\ ~Last]
      /\ moved' = Append(moved, w) /\ irq' = TRUE /\ req' = BD!NoRequest
      /\ UNCHANGED <<status, disc, sector_map, guest, asked>>
  BY DmaWriteFacts
<1>2. /\ xfer \in Xfers /\ xfer.pos \in Nat /\ xfer.len \in Nat
      /\ Len(moved) = xfer.pos /\ moved' \in Seq(Words) /\ Len(moved') = xfer.pos + 1
      /\ disc \in Drives /\ disc # NoDisc
  BY <1>1, Position1
<1>3. /\ buf' = << >>
      /\ image' = IF req.op = "write"
                  THEN [image EXCEPT ![disc] = WriteSector(@, sector_map, req.lba, moved')]
                  ELSE image
  BY DmaWriteBuffer
<1>4. /\ xfer' \in Xfers /\ xfer'.pos = xfer.pos + 1 /\ xfer'.len = xfer.len
      /\ xfer'.formatting = FALSE
  <2> DEFINE p == xfer.pos + 1
             b == FALSE
  <2>1. xfer' = [xfer EXCEPT !.pos = p, !.write_pos = NoWrite, !.formatting = b]
    <3>1. (xfer.formatting /\ ~Last) = FALSE
      OBVIOUS
    <3> QED
      BY <1>1, <3>1
  <2>2. p \in Nat /\ NoWrite \in Int /\ b \in BOOLEAN
    BY <1>2 DEF NoWrite
  <2> HIDE DEF p, b
  <2>3. xfer'.pos = p /\ xfer'.len = xfer.len /\ xfer'.formatting = b
    BY <1>2, <2>1 DEF Xfers
  <2>4. xfer' \in Xfers
    BY <1>2, <2>1, <2>2 DEF Xfers
  <2> QED
    BY <2>3, <2>4 DEF p, b
<1>5. /\ Blank \in [Drives -> Files] /\ image \in [Drives -> Files]
      /\ \A d \in Drives : SameShape(image[d], Blank[d])
      /\ sector_map = LoadedMap(image[disc])
  BY <1>2 DEF WholeDiscs, IInv, Typed, Loaded
<1> DEFINE discs == [d \in Drives |-> Contents(image[d])]
<1>6. Len(moved) + 1 = BD!Size(req)
  BY <1>1, <1>2 DEF Last, BD!Size
<1>7. ASSUME image' \in [Drives -> Files], Loaded' PROVE IInv'
  <2>1. xfer'.formatting => ~dma.en
    BY <1>4
  <2> QED
    BY <1>1, <1>2, <1>3, <1>4, <1>7, <2>1, LastWordRests
<1>8. CASE req.op = "format"
  <2>1. image' = image
    BY <1>3, <1>8
  <2>2. Loaded'
    BY <1>1, <2>1 DEF IInv, Loaded
  <2>3. IInv'
    BY <1>5, <1>7, <2>1, <2>2
  <2>4. \E v \in Words : moved' = Append(moved, v)
    BY <1>1
  <2>5. discs' = discs
    BY <2>1
  <2> QED
    BY <1>1, <1>6, <1>8, <2>3, <2>4, <2>5 DEF BD!Store
<1>9. CASE req.op = "write"
  <2> DEFINE f == image[disc]
             g == WriteSector(f, LoadedMap(f), req.lba, moved')
  <2>1. req.drive = disc /\ req.n = 1 /\ req.lba \in 0..(Total - 1)
    BY <1>1, <1>9 DEF IInv, Serving
  <2>2. f \in Files /\ Blank[disc] \in Files /\ SameShape(f, Blank[disc])
    BY <1>2, <1>5
  <2>3. moved' \in SectorData
    <3>1. xfer.len = SecWords
      BY <1>1, <2>1, Geometry
    <3> QED
      BY <1>2, <3>1 DEF SectorData, Last
  <2>4. image' = [image EXCEPT ![disc] = g]
    BY <1>3, <1>5, <1>9
  <2>5. /\ g \in Files /\ SameShape(g, f)
        /\ Contents(g) = IF HasRoom(f, req.lba, moved')
                         THEN BD!Overwrite(Contents(f), req.lba * SecWords, moved')
                         ELSE Contents(f)
    BY <2>1, <2>2, <2>3, WriteFacts
  <2>6. HasRoom(f, req.lba, moved') <=> Fits(disc, req.lba, moved')
    BY <2>1, <2>2, SameShapeFacts DEF Fits
  <2>7. SameShape(g, Blank[disc]) /\ LoadedMap(g) = LoadedMap(f)
    <3>1. SameShape(g, Blank[disc])
      BY <2>2, <2>5 DEF SameShape
    <3> QED
      BY <2>2, <2>5, <3>1, SameShapeFacts
  <2> HIDE DEF f, g
  <2>8. /\ image' \in [Drives -> Files] /\ image'[disc] = g
        /\ \A d \in Drives \ {disc} : image'[d] = image[d]
    BY <1>2, <1>5, <2>4, <2>5
  <2>9. Loaded'
    <3>1. \A d \in Drives : SameShape(image'[d], Blank[d])
      BY <1>5, <2>7, <2>8
    <3>2. disc' = disc /\ sector_map' = sector_map /\ sector_map = LoadedMap(f)
      BY <1>1, <1>5 DEF f
    <3>3. image'[disc'] = g
      BY <2>8, <3>2
    <3>4. sector_map' = LoadedMap(g)
      BY <2>7, <3>2
    <3>5. sector_map' = LoadedMap(image'[disc'])
      BY <3>3, <3>4
    <3> QED
      BY <3>1, <3>5 DEF Loaded
  <2>10. IInv'
    BY <1>7, <2>8, <2>9
  <2>11. discs' = IF ~Fits(req.drive, req.lba, moved') THEN discs
                  ELSE [discs EXCEPT ![req.drive] =
                          BD!Overwrite(@, req.lba * SecWords, moved')]
    <3>1. discs' = [d \in Drives |-> IF d = disc THEN Contents(g) ELSE discs[d]]
      BY <2>8
    <3>2. discs[disc] = Contents(f)
      BY <1>2 DEF f
    <3>3. discs' = [discs EXCEPT ![disc] = Contents(g)]
      BY <3>1
    <3>4. discs = [discs EXCEPT ![disc] = discs[disc]]
      OBVIOUS
    <3>5. CASE Fits(disc, req.lba, moved')
      <4>1. Contents(g) = BD!Overwrite(discs[disc], req.lba * SecWords, moved')
        BY <2>5, <2>6, <3>2, <3>5
      <4> HIDE DEF discs
      <4> QED
        BY <2>1, <3>3, <3>5, <4>1
    <3>6. CASE ~Fits(disc, req.lba, moved')
      <4>1. Contents(g) = discs[disc]
        BY <2>5, <2>6, <3>2, <3>6
      <4> HIDE DEF discs
      <4> QED
        BY <2>1, <3>3, <3>4, <3>6, <4>1
    <3> QED
      BY <3>5, <3>6
  <2>12. \E v \in Words : moved' = Append(moved, v)
    BY <1>1
  <2> HIDE DEF discs
  <2>13. req.op # "format"
    BY <1>9
  <2>14. discs' = IF req.op = "format" \/ ~Fits(req.drive, req.lba, moved') THEN discs
                  ELSE [discs EXCEPT ![req.drive] =
                          BD!Overwrite(@, req.lba * SecWords, moved')]
    BY <2>11, <2>13
  <2> QED
    BY <1>1, <1>6, <2>10, <2>12, <2>14 DEF BD!Store, discs
<1> QED
  BY <1>1, <1>8, <1>9

-----------------------------------------------------------------------------
(* Misses, the DMA engine's switch, status reads, resets and the user.      *)

LEMMA DmaMissKeeps == ASSUME IInv, DmaMiss PROVE IInv' /\ BD!GiveUp
<1>1. /\ ~dma.en /\ GetDrq /\ xfer' = [xfer EXCEPT !.pos = xfer.len, !.write_pos = 0]
      /\ status' = {2} /\ irq' = TRUE /\ req' = BD!NoRequest /\ buf' = << >>
      /\ UNCHANGED <<head, media, guest, moved, asked>>
  BY DEF DmaMiss
<1>2. xfer \in Xfers /\ xfer.len \in Nat /\ xfer.len # 0 /\ asked = xfer.len
  BY <1>1, Position1
<1>3. xfer' \in Xfers /\ xfer'.pos = xfer.len /\ xfer'.len = xfer.len
  <2> DEFINE p == xfer.len
             v == 0
  <2>1. xfer' = [xfer EXCEPT !.pos = p, !.write_pos = v] /\ p \in Nat /\ v \in Int
    BY <1>1, <1>2
  <2> HIDE DEF p, v
  <2>2. xfer' \in Xfers
    BY <1>2, <2>1 DEF Xfers
  <2>3. xfer'.pos = p /\ xfer'.len = xfer.len
    BY <1>2, <2>1 DEF Xfers
  <2> QED
    BY <2>2, <2>3 DEF p
<1>4. Typed'
  <2>1. HeadTyped'
    BY <1>1, HeadUntouched DEF IInv, Typed
  <2>2. UNCHANGED <<moved, image, disc, drv, dma>> /\ buf' \in Seq(Words)
    BY <1>1 DEF media, guest
  <2> QED
    BY <1>1, <1>3, <2>1, <2>2, NoRequestTyped DEF IInv, Typed, Xfers
<1>5. Loaded'
  BY <1>1 DEF IInv, Loaded, media
<1>6. ~GetDrq'
  BY <1>2, <1>3 DEF GetDrq
<1>7. ~dma'.en /\ 2 \in status' /\ asked' # 0
  BY <1>1, <1>2 DEF guest
<1>8. Asking' /\ Serving' /\ Answered'
  BY <1>1, <1>6, <1>7, Resting
<1>9. BD!GiveUp
  BY <1>1 DEF BD!GiveUp, media
<1> QED
  BY <1>4, <1>5, <1>8, <1>9 DEF IInv

LEMMA SetDmaEnableKeeps ==
  ASSUME ~GuestLeavesFormats, IInv, NEW b \in BOOLEAN, SetDmaEnable(b)
  PROVE  IInv' /\ UNCHANGED BD!bdvars
<1>1. /\ ~xfer.formatting /\ dma' = [dma EXCEPT !.en = b]
      /\ UNCHANGED <<track, regs, step_dir, xfer, buf, irq, status, disc, sector_map, image>>
      /\ UNCHANGED <<drv, req, moved, asked>>
  BY DEF SetDmaEnable, MayLeave, head, transfer, lines, media, ghosts
<1>2. dma' \in [en : BOOLEAN, reading : BOOLEAN] /\ dma'.reading = dma.reading
  BY <1>1 DEF IInv, Typed
<1>3. GetDrq' <=> GetDrq
  BY <1>1 DEF GetDrq
<1>4. Typed'
  <2>1. HeadTyped'
    BY <1>1 DEF IInv, Typed, HeadTyped
  <2> QED
    BY <1>1, <1>2, <2>1 DEF IInv, Typed
<1>5. Loaded'
  BY <1>1 DEF IInv, Loaded
<1>6. Asking' /\ Answered'
  BY <1>1, <1>3 DEF IInv, Asking, Answered
<1>7. Serving'
  BY <1>1, <1>2, <1>3 DEF IInv, Serving
<1>8. UNCHANGED BD!bdvars
  BY <1>1 DEF BD!bdvars
<1> QED
  BY <1>4, <1>5, <1>6, <1>7, <1>8 DEF IInv

LEMMA ReadStatusKeeps ==
  ASSUME IInv, ReadStatus PROVE IInv' /\ (BD!GiveUp \/ UNCHANGED BD!bdvars)
<1>1. /\ irq' = FALSE
      /\ UNCHANGED <<track, regs, step_dir, xfer, buf, status, disc, sector_map, image, dma>>
  BY DEF ReadStatus, head, transfer, media
<1>2. GetDrq' <=> GetDrq
  BY <1>1 DEF GetDrq
<1>3. HeadTyped' /\ Loaded'
  BY <1>1 DEF IInv, Typed, HeadTyped, Loaded
<1>4. CASE GetDrq
  <2>1. UNCHANGED <<drv, req, moved, asked>>
    BY <1>4 DEF ReadStatus, ghosts
  <2>2. Typed'
    BY <1>1, <1>3, <2>1 DEF IInv, Typed
  <2>3. Asking' /\ Answered'
    BY <1>1, <1>2, <1>4, <2>1 DEF IInv, Asking, Answered
  <2>4. Serving'
    BY <1>1, <1>2, <2>1 DEF IInv, Serving
  <2>5. UNCHANGED BD!bdvars
    BY <1>1, <2>1 DEF BD!bdvars
  <2> QED
    BY <1>3, <2>2, <2>3, <2>4, <2>5 DEF IInv
<1>5. CASE ~GetDrq
  <2>1. drv' = "idle" /\ moved' = << >> /\ asked' = 0 /\ req' = BD!NoRequest
    BY <1>5 DEF ReadStatus
  <2>2. Typed'
    <3>1. moved' \in Seq(Words)
      BY <2>1
    <3> QED
      BY <1>1, <1>3, <2>1, <3>1, NoRequestTyped DEF IInv, Typed
  <2>3. buf' = << >> /\ (xfer'.formatting => ~dma'.en)
    BY <1>1, <1>5, FormatsOff DEF IInv, Asking
  <2>4. Asking' /\ Serving' /\ Answered'
    BY <1>2, <1>5, <2>1, <2>3, Resting
  <2>5. BD!GiveUp
    BY <1>1, <2>1 DEF BD!GiveUp
  <2> QED
    BY <1>3, <2>2, <2>4, <2>5 DEF IInv
<1> QED
  BY <1>4, <1>5

LEMMA ResetKeeps == ASSUME ~GuestLeavesFormats, IInv, Reset PROVE IInv' /\ BD!GiveUp
<1>1. /\ ~xfer.formatting /\ xfer' = [xfer EXCEPT !.pos = 0, !.len = 0]
      /\ drv' = "idle" /\ req' = BD!NoRequest /\ moved' = << >> /\ buf' = << >>
      /\ UNCHANGED <<disc, sector_map, image, dma>>
  BY DEF Reset, MayLeave, media
<1>2. xfer' \in Xfers /\ xfer'.pos = 0 /\ xfer'.len = 0 /\ ~xfer'.formatting
  BY <1>1 DEF IInv, Typed, Xfers
<1>3. HeadTyped'
  BY Geometry DEF Reset, HeadTyped
<1>4. Typed'
  <2>1. moved' \in Seq(Words) /\ buf' \in Seq(Words)
    BY <1>1
  <2> QED
    BY <1>1, <1>2, <1>3, <2>1, NoRequestTyped DEF IInv, Typed, Xfers
<1>5. Loaded'
  BY <1>1 DEF IInv, Loaded
<1>6. ~GetDrq'
  BY <1>2 DEF GetDrq
<1>7. Asking' /\ Serving' /\ Answered'
  BY <1>1, <1>2, <1>6, Resting
<1>8. BD!GiveUp
  BY <1>1 DEF BD!GiveUp
<1> QED
  BY <1>4, <1>5, <1>7, <1>8 DEF IInv

\* The user acts while no word is asked for.
LEMMA DiscChanges ==
  ASSUME IInv, ~GetDrq, UNCHANGED <<head, transfer, lines, image, guest, ghosts>>,
         disc' \in Drives \cup {NoDisc},
         disc' # NoDisc => sector_map' = LoadedMap(image[disc'])
  PROVE  IInv' /\ UNCHANGED BD!bdvars
<1> USE DEF transfer, lines, guest, ghosts
<1>1. Typed'
  <2>1. HeadTyped'
    BY HeadUntouched DEF IInv, Typed
  <2> QED
    BY <2>1 DEF IInv, Typed
<1>2. Loaded'
  BY DEF IInv, Loaded
<1>3. ~GetDrq'
  BY DEF GetDrq
<1>4. req' = BD!NoRequest /\ buf' = << >> /\ (xfer'.formatting => ~dma'.en)
  BY FormatsOff DEF IInv, Asking
<1>5. drv' = "wait" =>
        status' \cap {7, 6, 4} # {} \/ Len(moved') = asked' \/ (2 \in status' /\ asked' # 0)
  BY DEF IInv, Answered
<1>6. Asking' /\ Serving' /\ Answered'
  BY <1>3, <1>4, <1>5, Resting
<1>7. UNCHANGED BD!bdvars
  BY DEF BD!bdvars
<1> QED
  BY <1>1, <1>2, <1>6, <1>7 DEF IInv

LEMMA EjectKeeps == ASSUME IInv, Eject PROVE IInv' /\ UNCHANGED BD!bdvars
  BY DiscChanges DEF Eject

LEMMA InsertKeeps == ASSUME IInv, NEW d \in Drives, Insert(d) PROVE IInv' /\ UNCHANGED BD!bdvars
<1>1. ~GetDrq
  BY DEF Insert, IInv, Asking
<1> QED
  BY <1>1, DiscChanges DEF Insert

-----------------------------------------------------------------------------
(* The theorems.                                                            *)

LEMMA InitIInv == ASSUME WholeDiscs, Init PROVE IInv /\ BD!BDInit
<1>1. /\ track = 0 /\ regs = [track |-> 0, sector |-> 0, data |-> 0] /\ step_dir = -1
      /\ xfer = [pos |-> 0, len |-> 0, write_pos |-> 0, formatting |-> FALSE]
      /\ buf = << >> /\ irq = FALSE /\ disc = 0 /\ image = Blank
      /\ sector_map = LoadedMap(image[0])
      /\ drv = "idle" /\ dma = [en |-> TRUE, reading |-> FALSE]
      /\ req = BD!NoRequest /\ moved = << >>
  BY DEF Init
<1>2. Typed
  <2>1. HeadTyped
    BY <1>1, Geometry DEF HeadTyped
  <2>2. buf \in Seq(Words) /\ moved \in Seq(Words)
    BY <1>1
  <2>3. disc \in Drives /\ image \in [Drives -> Files]
    BY <1>1, WD2797Assumption DEF WholeDiscs
  <2> QED
    BY <1>1, <2>1, <2>2, <2>3, NoRequestTyped DEF Typed
<1>3. Loaded
  BY <1>1 DEF Loaded, SameShape
<1>4. ~GetDrq
  BY <1>1 DEF GetDrq
<1>5. Asking /\ Serving /\ Answered
  BY <1>1, <1>4 DEF Asking, Serving, Answered
<1>6. BD!BDInit
  BY <1>1 DEF BD!BDInit
<1> QED
  BY <1>2, <1>3, <1>5, <1>6 DEF IInv

\* Every step keeps the invariant, and is one of the block device or a stutter.
LEMMA NextIInv ==
  ASSUME WholeDiscs, ~GuestLeavesFormats, IInv, [Next]_vars PROVE IInv' /\ [BD!BDNext]_(BD!bdvars)
<1>1. CASE UNCHANGED vars
  <2>1. UNCHANGED <<head, transfer, lines, media, guest, ghosts>>
    BY <1>1 DEF vars
  <2>2. HeadTyped'
    BY <2>1, HeadUntouched DEF IInv, Typed
  <2> QED
    BY <2>1, <2>2, HeadKeeps
<1>2. ASSUME NEW v \in 0..(Tracks - 1), WriteTrackReg(v) PROVE IInv' /\ UNCHANGED BD!bdvars
  BY <1>2, RegistersKeep
<1>3. ASSUME NEW v \in 0..(Spt + 1), WriteSectorReg(v) PROVE IInv' /\ UNCHANGED BD!bdvars
  BY <1>3, RegistersKeep
<1>4. ASSUME NEW v \in 0..Tracks, WriteDataReg(v) PROVE IInv' /\ UNCHANGED BD!bdvars
  BY <1>4, RegistersKeep
<1>5. ASSUME NEW cmd \in Commands, NEW side \in 0..1, WriteCommand(cmd, side)
      PROVE  IInv' /\ BD!Begin
  BY <1>5, WriteCommandKeeps
<1>6. CASE DmaRead
  BY <1>6, DmaReadKeeps DEF BD!BDNext
<1>7. ASSUME NEW w \in FromMemory, DmaWrite(w) PROVE IInv' /\ (BD!Accept \/ BD!Store)
  BY <1>7, AcceptKeeps, StoreKeeps
<1>8. CASE DmaMiss
  BY <1>8, DmaMissKeeps DEF BD!BDNext
<1>9. ASSUME NEW b \in BOOLEAN, SetDmaEnable(b) PROVE IInv' /\ UNCHANGED BD!bdvars
  BY <1>9, SetDmaEnableKeeps
<1>10. CASE ReadStatus
  BY <1>10, ReadStatusKeeps DEF BD!BDNext
<1>11. CASE Reset
  BY <1>11, ResetKeeps DEF BD!BDNext
<1>12. CASE Eject
  BY <1>12, EjectKeeps
<1>13. ASSUME NEW d \in Drives, Insert(d) PROVE IInv' /\ UNCHANGED BD!bdvars
  BY <1>13, InsertKeeps
<1> QED
  BY <1>1, <1>2, <1>3, <1>4, <1>5, <1>6, <1>7, <1>8, <1>9, <1>10, <1>11, <1>12, <1>13
     DEF Next, BD!BDNext

LEMMA AlwaysIInv == ASSUME WholeDiscs, ~GuestLeavesFormats PROVE Spec => []IInv
  BY InitIInv, NextIInv, PTL DEF Spec

\* For drives of any geometry, discs of either format in any order of records and
\* any commands, what the user and the driver do to the controller looks to those
\* who move words like a block device: reads hand over the sectors addressed,
\* writes reach them whole or not at all, if the driver lets its formats run to
\* their end.
THEOREM ControllerIsBlockDevice ==
  ASSUME WholeDiscs, ~GuestLeavesFormats
  PROVE  Spec => ImplementsBlockDevice
<1>1. Spec => BD!BDSpec
  BY InitIInv, NextIInv, PTL DEF Spec, BD!BDSpec
<1> QED
  BY <1>1 DEF ImplementsBlockDevice

\* While the interrupt is up the command is over: nothing is being served and no
\* word is asked for, if the driver lets its formats run to their end
\* (wd2797_read_reg, wd2797_write_reg and wd2797_dma_miss).
THEOREM InterruptMeansDone ==
  ASSUME WholeDiscs, ~GuestLeavesFormats
  PROVE  Spec => []IrqMeansDone
<1>1. IInv => IrqMeansDone
  BY DEF IInv, Asking, IrqMeansDone, BD!NoRequest
<1> QED
  BY <1>1, AlwaysIInv, PTL

\* The bound of commands counts them.
LEMMA CommandsCounted == Spec => [](commands \in Nat)
<1>1. Init => commands \in Nat
  BY DEF Init
<1>2. commands \in Nat /\ [Next]_vars => (commands \in Nat)'
  <2> SUFFICES ASSUME commands \in Nat, [Next]_vars PROVE commands' \in Nat
    OBVIOUS
  <2>1. commands' \in {commands, commands + 1}
    BY DEF Next, vars, guest, WriteTrackReg, WriteSectorReg, WriteDataReg, WriteCommand, Issue,
           DmaRead, DmaWrite, DmaMiss, SetDmaEnable, ReadStatus, Reset, Eject, Insert
  <2> QED
    BY <2>1
<1> QED
  BY <1>1, <1>2, PTL DEF Spec

\* A driver that reads a status without an error has had every word of its
\* transfer, if it lets its formats run to their end: a lost word, a reset or a
\* disc that cannot be read leaves a mark
\* (wd2797_read_reg, wd2797_dma_miss).
THEOREM NoErrorMeansAllMoved ==
  ASSUME WholeDiscs, ~GuestLeavesFormats
  PROVE  Spec => SuccessMeansMoved
<1> DEFINE Taken == drv = "wait" /\ drv' = "idle" /\ UNCHANGED <<commands, xfer, status>>
           Clean == status \cap {7, 6, 4} = {} /\ (asked = 0 \/ 2 \notin status)
<1>1. ASSUME IInv, commands \in Nat, Next, Taken PROVE ~GetDrq
  <2>1. ReadStatus \/ Reset
    <3>1. drv' # drv /\ commands' # commands + 1
      BY <1>1
    <3> QED
      BY <1>1, <3>1
         DEF Next, guest, WriteTrackReg, WriteSectorReg, WriteDataReg, WriteCommand, Issue,
             DmaRead, DmaWrite, DmaMiss, SetDmaEnable, Eject, Insert
  <2>2. CASE ReadStatus
    BY <1>1, <2>2 DEF ReadStatus
  <2>3. CASE Reset
    <3>1. xfer' = [xfer EXCEPT !.pos = 0, !.len = 0]
      BY <2>3 DEF Reset
    <3>2. xfer \in Xfers
      BY <1>1 DEF IInv, Typed, Xfers
    <3>3. xfer'.pos = 0 /\ xfer'.len = 0
      BY <3>1, <3>2 DEF Xfers
    <3> QED
      BY <1>1, <3>3 DEF GetDrq
  <2> QED
    BY <2>1, <2>2, <2>3
<1>2. ASSUME IInv, commands \in Nat, Next, Taken, Clean PROVE Len(moved) = asked
  BY <1>1, <1>2 DEF IInv, Answered
<1>3. IInv /\ commands \in Nat /\ [Next]_vars
        => [drv = "wait" /\ drv' = "idle" /\ UNCHANGED <<commands, xfer, status>>
            /\ status \cap {7, 6, 4} = {} /\ (asked = 0 \/ 2 \notin status)
              => Len(moved) = asked]_vars
  BY <1>2
<1> QED
  BY <1>3, AlwaysIInv, CommandsCounted, PTL DEF Spec, SuccessMeansMoved
=============================================================================
