--------------------------- MODULE KeyboardProofs ---------------------------
(***************************************************************************)
(* Proofs about the keyboard: that its ring carries messages whole, in     *)
(* order and once, for a ring of any size, any keymap and any number of    *)
(* events; that the guest's idea of the keys is the keyboard's; and, of    *)
(* the interrupts the keyboard shares the CPU with, that the clock's comes *)
(* once for a tick.                                                        *)
(***************************************************************************)
EXTENDS Keyboard, FiniteSetTheorems, FunctionTheorems, SequenceTheorems, WellFoundedInduction, TLAPS

-----------------------------------------------------------------------------
(* What lies in the ring.                                                   *)

Rings == [buffer : [0..(BufferSize - 1) -> Bytes], readp : 0..(BufferSize - 1),
          writep : 0..(BufferSize - 1), buflen : 0..BufferSize]

\* The j-th byte that the guest has not read.
Ahead(f, j) == f.buffer[(f.readp + (j - 1)) % BufferSize]

InStep(f) == f.writep = (f.readp + f.buflen) % BufferSize

IsMove(m) == m.move # << >>

\* The messages that are sent: key lists, and mouse events.
Sendable == {KeysMessage(S) : S \in SUBSET Scancodes} \cup {MoveMessage(t) : t \in Bytes \X Bytes \X Bytes}

\* The bytes of a message; a key list says that the mouse is over.
Encoded(m, after) ==
  IF IsMove(m)
  THEN <<BeginMouse>> \o m.move \o (IF m.move[3] = BeginKeyboard THEN <<BeginKeyboard>> ELSE << >>)
  ELSE (IF after THEN <<BeginKeyboard>> ELSE << >>) \o KeyList(m.keys)

\* Whether the message before the j-th is a mouse event.
AfterMove(s, first, j) == IF j = 1 THEN first ELSE IsMove(s[j - 1])
Coded(s, first, j) == Encoded(s[j], AfterMove(s, first, j))

Lead(after) == IF after THEN 1 ELSE 0

\* The decoder before a message, among the codes K of a list, among the bytes t
\* of a mouse event.
Waiting(after) == [mode |-> IF after THEN "mouse" ELSE "keys", keys |-> {}, move |-> << >>]
Hearing(K) == [mode |-> "keys", keys |-> K, move |-> << >>]
Moving(t) == [mode |-> "move", keys |-> {}, move |-> t]

\* The decoder after the first q bytes of a message.
Heard(m, after, q) ==
  IF q = 0 THEN Waiting(after)
  ELSE IF IsMove(m) THEN Moving(SubSeq(Encoded(m, after), 2, q))
  ELSE Hearing({KeyList(m.keys)[i] : i \in 1..(q - Lead(after))})

\* The bytes of c end at the z-th unread byte; those up to a place before the
\* first were read.
Lies(f, c, a, z) ==
  /\ z \in 1..f.buflen /\ z = a + Len(c)
  /\ \A i \in 1..Len(c) : a + i >= 1 => Ahead(f, a + i) = c[i]

\* The unread bytes are those of the messages on their way, of which the first may
\* have been read in part: message j ends at the e[j]-th unread byte.
Cuts(f, s, d, l, e, first) ==
  /\ e \in [0..Len(s) -> Int] /\ e[0] <= 0 /\ e[Len(s)] = f.buflen
  /\ \A j \in 1..Len(s) : Lies(f, Coded(s, first, j), e[j - 1], e[j])
  /\ l = AfterMove(s, first, Len(s) + 1)
  /\ d = IF s = << >> THEN Waiting(first) ELSE Heard(s[1], first, -e[0])

Streaming(f, s, d, l) == InStep(f) /\ \E first \in BOOLEAN : \E e : Cuts(f, s, d, l, e, first)

-----------------------------------------------------------------------------
(* The inductive invariant.                                                 *)

Typed ==
  /\ fifo \in Rings /\ keystate \subseteq Scancodes
  /\ update_flag \in BOOLEAN /\ lastdata_mouse \in BOOLEAN /\ intact \in BOOLEAN
  /\ sent \in Seq(Sendable)

InStream == intact => Streaming(fifo, sent, decoder, lastdata_mouse)

\* The last keys sent are the keyboard's, unless a scan is due.
KeyLists == {j \in 1..Len(sent) : ~IsMove(sent[j])}
KeysUpToDate ==
  intact /\ ~update_flag =>
    \/ KeyLists = {} /\ seen \in {keystate, Unknown}
    \/ \E j \in KeyLists : sent[j].keys = keystate /\ \A k \in KeyLists : k <= j

RingInv == Typed /\ InStream /\ KeysUpToDate

-----------------------------------------------------------------------------
(* Arithmetic of the ring's pointers.                                       *)

LEMMA Size == BufferSize \in Nat /\ BufferSize > 4
  BY KeyboardAssumption

LEMMA ModOnce ==
  ASSUME NEW n \in Nat, n > 0, NEW x \in 0..(2 * n - 1)
  PROVE  x % n = IF x < n THEN x ELSE x - n
  OBVIOUS

LEMMA ModBehind ==
  ASSUME NEW n \in Nat, n > 0, NEW x \in (-n)..(-1)
  PROVE  x % n = x + n
  OBVIOUS

\* Bytes put in lie behind those that were there.
LEMMA PutFacts ==
  ASSUME NEW f \in Rings, NEW bytes \in Seq(Bytes)
  PROVE  /\ Put(f, bytes) \in Rings
         /\ InStep(f) /\ f.buflen + Len(bytes) <= BufferSize =>
              /\ InStep(Put(f, bytes)) /\ Put(f, bytes).buflen = f.buflen + Len(bytes)
              /\ \A j \in 1..f.buflen : Ahead(Put(f, bytes), j) = Ahead(f, j)
              /\ \A j \in 1..Len(bytes) : Ahead(Put(f, bytes), f.buflen + j) = bytes[j]
<1> DEFINE n == BufferSize
           r == f.readp
           w == f.writep
           b == f.buflen
           z == Len(bytes)
           K(i) == ((i - w) % n) + 1
           g == [i \in 0..(n - 1) |-> IF K(i) <= z THEN bytes[K(i)] ELSE f.buffer[i]]
<1>1. /\ n \in Nat /\ n > 0 /\ r \in 0..(n - 1) /\ w \in 0..(n - 1) /\ b \in 0..n
      /\ f.buffer \in [0..(n - 1) -> Bytes] /\ z \in Nat
  BY Size DEF Rings
<1>2. Put(f, bytes) = [buffer |-> g, readp |-> r, writep |-> (w + z) % n, buflen |-> Smaller(n, b + z)]
  BY DEF Put
<1>3. ASSUME NEW i \in 0..(n - 1) PROVE K(i) = IF i < w THEN i - w + n + 1 ELSE i - w + 1
  <2>1. CASE i < w
    <3>1. i - w \in (-n)..(-1)
      BY <1>1, <2>1
    <3>2. (i - w) % n = (i - w) + n
      BY <1>1, <3>1, ModBehind
    <3> QED
      BY <1>1, <2>1, <3>2
  <2>2. CASE ~(i < w)
    <3>1. i - w \in 0..(2 * n - 1) /\ i - w < n
      BY <1>1, <2>2
    <3>2. (i - w) % n = i - w
      BY <1>1, <3>1, ModOnce
    <3> QED
      BY <1>1, <2>2, <3>2
  <2> QED
    BY <2>1, <2>2
<1> HIDE DEF n, r, w, b, z, K
<1>4. g \in [0..(n - 1) -> Bytes]
  <2>1. ASSUME NEW i \in 0..(n - 1) PROVE K(i) \in Nat /\ K(i) >= 1
    <3>1. K(i) = IF i < w THEN i - w + n + 1 ELSE i - w + 1
      BY <1>3
    <3> QED
      BY <1>1, <3>1
  <2>2. ASSUME NEW i \in 0..(n - 1) PROVE (IF K(i) <= z THEN bytes[K(i)] ELSE f.buffer[i]) \in Bytes
    BY <1>1, <2>1 DEF z
  <2> QED
    BY <2>2
<1>5. /\ (w + z) % n \in 0..(n - 1) /\ Smaller(n, b + z) \in 0..n
      /\ b + z <= n => Smaller(n, b + z) = b + z
  BY <1>1 DEF Smaller
<1>6. Put(f, bytes) \in Rings
  BY <1>2, <1>4, <1>5 DEF Rings, n, r
<1>7. ASSUME InStep(f), b + z <= n
      PROVE  /\ InStep(Put(f, bytes)) /\ Put(f, bytes).buflen = b + z
             /\ \A j \in 1..b : Ahead(Put(f, bytes), j) = Ahead(f, j)
             /\ \A j \in 1..z : Ahead(Put(f, bytes), b + j) = bytes[j]
  <2>1. w = IF r + b < n THEN r + b ELSE r + b - n
    <3>1. w = (r + b) % n
      BY <1>7 DEF InStep, n, r, b, w
    <3>2. r + b \in 0..(2 * n - 1)
      BY <1>1
    <3>3. (r + b) % n = IF r + b < n THEN r + b ELSE r + b - n
      BY <1>1, <3>2, ModOnce
    <3> QED
      BY <3>1, <3>3
  <2>2. (w + z) % n = (r + (b + z)) % n
    <3>1. w + z \in 0..(2 * n - 1) /\ r + (b + z) \in 0..(2 * n - 1)
      BY <1>1, <1>7
    <3>2. /\ (w + z) % n = IF w + z < n THEN w + z ELSE w + z - n
          /\ (r + (b + z)) % n = IF r + (b + z) < n THEN r + (b + z) ELSE r + (b + z) - n
      BY <1>1, <3>1, ModOnce
    <3> QED
      BY <1>1, <1>7, <2>1, <3>2
  <2>3. InStep(Put(f, bytes)) /\ Put(f, bytes).buflen = b + z
    BY <1>2, <1>5, <1>7, <2>2 DEF InStep, n
  <2>4. ASSUME NEW j \in 1..n
        PROVE  /\ (r + (j - 1)) % n \in 0..(n - 1)
               /\ j <= b => K((r + (j - 1)) % n) > z
               /\ j > b => K((r + (j - 1)) % n) = j - b
    <3> DEFINE i == (r + (j - 1)) % n
    <3>1. r + (j - 1) \in 0..(2 * n - 1)
      BY <1>1
    <3>2. i = IF r + (j - 1) < n THEN r + (j - 1) ELSE r + (j - 1) - n
      BY <1>1, <3>1, ModOnce
    <3> HIDE DEF i
    <3>3. i \in 0..(n - 1)
      BY <1>1, <3>2
    <3>4. K(i) = IF i < w THEN i - w + n + 1 ELSE i - w + 1
      BY <1>3, <3>3
    <3>5. j <= b => K(i) > z
      BY <1>1, <1>7, <2>1, <3>2, <3>4
    <3>6. j > b => K(i) = j - b
      BY <1>1, <1>7, <2>1, <3>2, <3>4
    <3> QED
      BY <3>3, <3>5, <3>6 DEF i
  <2>5. ASSUME NEW j \in 1..n
        PROVE  Ahead(Put(f, bytes), j) = LET i == (r + (j - 1)) % n
                                         IN IF K(i) <= z THEN bytes[K(i)] ELSE f.buffer[i]
    BY <1>2, <2>4 DEF Ahead, n
  <2>6. ASSUME NEW j \in 1..b PROVE Ahead(Put(f, bytes), j) = Ahead(f, j)
    <3>1. j \in 1..n /\ j <= b
      BY <1>1
    <3>2. ~(K((r + (j - 1)) % n) <= z)
      <4> DEFINE k == K((r + (j - 1)) % n)
      <4>1. k \in Int
        <5> DEFINE i == (r + (j - 1)) % n
        <5>1. i \in 0..(n - 1)
          BY <2>4, <3>1
        <5> HIDE DEF i
        <5>2. K(i) = IF i < w THEN i - w + n + 1 ELSE i - w + 1
          BY <1>3, <5>1
        <5>3. K(i) \in Int
          BY <1>1, <5>1, <5>2
        <5> QED
          BY <5>3 DEF i
      <4>2. k > z
        BY <2>4, <3>1
      <4> HIDE DEF k
      <4>3. ~(k <= z)
        BY <1>1, <4>1, <4>2
      <4> QED
        BY <4>3 DEF k
    <3> QED
      BY <2>5, <3>1, <3>2 DEF Ahead, n, r
  <2>7. ASSUME NEW j \in 1..z PROVE Ahead(Put(f, bytes), b + j) = bytes[j]
    <3>1. b + j \in 1..n /\ b + j > b /\ (b + j) - b = j /\ j <= z
      BY <1>1, <1>7
    <3>2. K((r + ((b + j) - 1)) % n) = j
      BY <2>4, <3>1
    <3> QED
      BY <2>5, <3>1, <3>2
  <2> QED
    BY <2>3, <2>6, <2>7
<1> QED
  BY <1>6, <1>7 DEF n, b, z

\* The ring after a byte was read.
Got(f) == [f EXCEPT !.readp = (f.readp + 1) % BufferSize, !.buflen = IF f.buflen > 0 THEN f.buflen - 1 ELSE 0]

LEMMA GetFacts ==
  ASSUME NEW f \in Rings
  PROVE  /\ Got(f) \in Rings
         /\ f.buflen > 0 =>
              /\ Got(f).buflen = f.buflen - 1 /\ f.buffer[f.readp] = Ahead(f, 1)
              /\ InStep(f) => InStep(Got(f))
              /\ \A j \in 1..(f.buflen - 1) : Ahead(Got(f), j) = Ahead(f, j + 1)
<1> DEFINE n == BufferSize
           r == f.readp
           b == f.buflen
           q == (r + 1) % n
           g == [buffer |-> f.buffer, readp |-> q, writep |-> f.writep,
                 buflen |-> IF b > 0 THEN b - 1 ELSE 0]
<1>1. /\ n \in Nat /\ n > 0 /\ r \in 0..(n - 1) /\ f.writep \in 0..(n - 1) /\ b \in 0..n
      /\ f.buffer \in [0..(n - 1) -> Bytes]
  BY Size DEF Rings
<1>2. Got(f) = g
  <2>1. f \in [buffer : [0..(BufferSize - 1) -> Bytes], readp : 0..(BufferSize - 1),
               writep : 0..(BufferSize - 1), buflen : 0..BufferSize]
    BY DEF Rings
  <2>2. f = [buffer |-> f.buffer, readp |-> f.readp, writep |-> f.writep, buflen |-> f.buflen]
    BY <2>1
  <2>3. Got(f) = [f EXCEPT !.readp = q, !.buflen = IF b > 0 THEN b - 1 ELSE 0]
    BY DEF Got
  <2> HIDE DEF q, b
  <2> QED
    BY <2>2, <2>3
<1>3. q = IF r + 1 < n THEN r + 1 ELSE 0
  <2>1. r + 1 \in 0..(2 * n - 1)
    BY <1>1
  <2> HIDE DEF n, r
  <2>2. \A x \in 0..(2 * n - 1) : x % n = IF x < n THEN x ELSE x - n
    BY <1>1, ModOnce
  <2>3. (r + 1) % n = IF r + 1 < n THEN r + 1 ELSE r + 1 - n
    BY <1>1, <2>1, <2>2
  <2>4. ~(r + 1 < n) => r + 1 - n = 0
    BY <1>1
  <2> QED
    BY <2>3, <2>4
<1> HIDE DEF q, n, r, b
<1>4. g \in Rings
  BY <1>1, <1>3 DEF Rings, n
<1>5. ASSUME b > 0
      PROVE  /\ Got(f).buflen = b - 1 /\ f.buffer[r] = Ahead(f, 1)
             /\ InStep(f) => InStep(Got(f))
             /\ \A j \in 1..(b - 1) : Ahead(Got(f), j) = Ahead(f, j + 1)
  <2>1. ASSUME NEW j \in 0..(b - 1) PROVE (q + j) % n = (r + (j + 1)) % n
    <3> DEFINE x == q + j
               y == r + (j + 1)
    <3>1. x \in 0..(2 * n - 1) /\ y \in 0..(2 * n - 1)
      BY <1>1, <1>3
    <3>2. y = IF q = 0 THEN n + x ELSE x
      BY <1>1, <1>3
    <3> HIDE DEF x, y
    <3>3. x % n = IF x < n THEN x ELSE x - n
      BY <1>1, <3>1, ModOnce
    <3>4. y % n = IF y < n THEN y ELSE y - n
      BY <1>1, <3>1, ModOnce
    <3>5. x % n = y % n
      BY <1>1, <3>1, <3>2, <3>3, <3>4
    <3> QED
      BY <3>5 DEF x, y
  <2>2. Got(f).buflen = b - 1
    BY <1>2, <1>5
  <2>3. f.buffer[r] = Ahead(f, 1)
    <3>1. r + (1 - 1) \in 0..(2 * n - 1) /\ r + (1 - 1) = r /\ r < n
      BY <1>1
    <3>2. (r + (1 - 1)) % n = r
      BY <1>1, <3>1, ModOnce
    <3> QED
      BY <3>2 DEF Ahead, n, r
  <2>4. ASSUME InStep(f) PROVE InStep(Got(f))
    <3>1. b - 1 \in 0..(b - 1) /\ (b - 1) + 1 = b
      BY <1>1, <1>5
    <3>2. (q + (b - 1)) % n = (r + b) % n
      BY <2>1, <3>1
    <3> QED
      BY <1>2, <1>5, <2>4, <3>2 DEF InStep, n, r, b
  <2>5. ASSUME NEW j \in 1..(b - 1) PROVE Ahead(Got(f), j) = Ahead(f, j + 1)
    <3>1. j - 1 \in 0..(b - 1) /\ (j - 1) + 1 = (j + 1) - 1
      BY <1>1
    <3>2. (q + (j - 1)) % n = (r + ((j + 1) - 1)) % n
      BY <2>1, <3>1
    <3> QED
      BY <1>2, <3>2 DEF Ahead, n, r
  <2> QED
    BY <2>2, <2>3, <2>4, <2>5
<1> QED
  BY <1>2, <1>4, <1>5 DEF b, r

-----------------------------------------------------------------------------
(* The key lists.                                                           *)

LEMMA CodesFinite ==
  ASSUME NEW S \in SUBSET Scancodes
  PROVE  IsFiniteSet(S) /\ Cardinality(S) \in Nat /\ S \subseteq Nat /\ (S # {} => Cardinality(S) >= 1)
<1>1. S \subseteq 1..127
  BY KeyboardAssumption
<1>2. IsFiniteSet(1..127)
  <2>1. 1 \in Int /\ 127 \in Int
    OBVIOUS
  <2> QED
    BY <2>1, FS_Interval, Zenon
<1>3. IsFiniteSet(S)
  BY <1>1, <1>2, FS_Subset
<1>4. Cardinality(S) \in Nat
  BY <1>3, FS_CardinalityType
<1>5. Cardinality(S) = 0 => S = {}
  BY <1>3, FS_EmptySet
<1>6. S \subseteq Nat
  BY <1>1
<1>7. S # {} => Cardinality(S) >= 1
  BY <1>4, <1>5
<1> QED
  BY <1>3, <1>4, <1>6, <1>7

Below(S, c) == {d \in S : d < c}
Rank(S, c) == Cardinality(Below(S, c)) + 1

\* The place of a code counts those below it.
LEMMA Ranks ==
  ASSUME NEW S \in SUBSET Scancodes, NEW c \in S
  PROVE  /\ Rank(S, c) \in 1..Cardinality(S)
         /\ \A d \in S : Rank(S, d) < Rank(S, c) => d < c
         /\ \A d \in S : Rank(S, d) = Rank(S, c) => d = c
<1>1. IsFiniteSet(S) /\ Cardinality(S) \in Nat /\ S \subseteq Nat
  BY CodesFinite
<1>2. ASSUME NEW d \in S
      PROVE  IsFiniteSet(Below(S, d)) /\ Cardinality(Below(S, d)) \in Nat
  <2>1. Below(S, d) \in SUBSET S
    BY DEF Below
  <2> QED
    BY <1>1, <2>1, FS_Subset, FS_CardinalityType
<1>3. ASSUME NEW d \in S, NEW e \in S, d < e PROVE Rank(S, d) < Rank(S, e)
  <2>1. Below(S, d) \in SUBSET Below(S, e) /\ d \in Below(S, e) /\ d \notin Below(S, d)
    <3>1. \A x \in S : x < d => x < e
      BY <1>1, <1>3
    <3>2. ~(d < d)
      BY <1>1
    <3> QED
      BY <1>3, <3>1, <3>2 DEF Below
  <2>2. Cardinality(Below(S, d)) <= Cardinality(Below(S, e))
        /\ Cardinality(Below(S, d)) # Cardinality(Below(S, e))
    BY <1>2, <2>1, FS_Subset
  <2> QED
    BY <1>2, <2>2 DEF Rank
<1>4. Rank(S, c) \in 1..Cardinality(S)
  <2>1. Below(S, c) \in SUBSET S /\ c \notin Below(S, c)
    BY <1>1 DEF Below
  <2>2. Cardinality(Below(S, c)) <= Cardinality(S) /\ Cardinality(Below(S, c)) # Cardinality(S)
    BY <1>1, <2>1, FS_Subset
  <2> QED
    BY <1>1, <1>2, <2>2 DEF Rank
<1>5. ASSUME NEW d \in S
      PROVE  (Rank(S, d) < Rank(S, c) => d < c) /\ (Rank(S, d) = Rank(S, c) => d = c)
  <2>1. Rank(S, d) \in Int /\ Rank(S, c) \in Int
    BY <1>2 DEF Rank
  <2>2. d \in Nat /\ c \in Nat
    BY <1>1
  <2> QED
    BY <1>3, <2>1, <2>2
<1> QED
  BY <1>4, <1>5

\* The list has each code once.
LEMMA AscendingFacts ==
  ASSUME NEW S \in SUBSET Scancodes
  PROVE  /\ Ascending(S) \in [1..Cardinality(S) -> S]
         /\ \A c \in S : \E i \in 1..Cardinality(S) : Ascending(S)[i] = c
<1> DEFINE n == Cardinality(S)
           R == [c \in S |-> Rank(S, c)]
           g == [i \in 1..n |-> CHOOSE c \in S : R[c] = i]
<1>1. IsFiniteSet(S) /\ n \in Nat /\ S \subseteq Nat
  BY CodesFinite
<1>2. IsFiniteSet(1..n) /\ Cardinality(1..n) = n
  <2>1. /\ IsFiniteSet(1..n)
        /\ Cardinality(1..n) = IF 1 > n THEN 0 ELSE n - 1 + 1
    BY <1>1, FS_Interval
  <2> QED
    BY <1>1, <2>1
<1>3. R \in Injection(S, 1..n)
  <2>1. R \in [S -> 1..n]
    BY Ranks
  <2>2. \A c, d \in S : R[c] = R[d] => c = d
    BY Ranks
  <2> QED
    BY <2>1, <2>2 DEF Injection, IsInjective
<1>4. R \in Surjection(S, 1..n)
  BY <1>1, <1>2, <1>3, FS_Injection
<1> HIDE DEF n
<1>5. ASSUME NEW i \in 1..n PROVE g[i] \in S /\ Rank(S, g[i]) = i
  <2>1. \E c \in S : R[c] = i
    BY <1>4 DEF Surjection
  <2> QED
    BY <2>1
<1>6. g \in [1..n -> S]
  BY <1>5
<1>7. \A i, j \in DOMAIN g : i < j => g[i] < g[j]
  <2> SUFFICES ASSUME NEW i \in 1..n, NEW j \in 1..n, i < j PROVE g[i] < g[j]
    OBVIOUS
  <2>1. g[i] \in S /\ g[j] \in S /\ Rank(S, g[i]) < Rank(S, g[j])
    BY <1>5
  <2> HIDE DEF g
  <2> QED
    BY <2>1, Ranks
<1> HIDE DEF g
<1>8. /\ Ascending(S) \in [1..n -> S]
      /\ \A i, j \in DOMAIN Ascending(S) : i < j => Ascending(S)[i] < Ascending(S)[j]
  BY <1>6, <1>7 DEF Ascending, n
<1>9. Ascending(S) \in Injection(1..n, S)
  <2>1. \A i, j \in 1..n : Ascending(S)[i] = Ascending(S)[j] => i = j
    <3> SUFFICES ASSUME NEW i \in 1..n, NEW j \in 1..n, Ascending(S)[i] = Ascending(S)[j], i # j
                 PROVE  FALSE
      OBVIOUS
    <3>1. i < j \/ j < i
      BY <1>1
    <3>2. Ascending(S)[i] \in Nat /\ Ascending(S)[j] \in Nat
      BY <1>1, <1>8
    <3>3. Ascending(S)[i] < Ascending(S)[j] \/ Ascending(S)[j] < Ascending(S)[i]
      BY <1>8, <3>1
    <3> QED
      BY <3>2, <3>3
  <2> QED
    BY <1>8, <2>1 DEF Injection, IsInjective
<1>10. Ascending(S) \in Surjection(1..n, S)
  BY <1>1, <1>2, <1>9, FS_Injection DEF n
<1> QED
  BY <1>8, <1>10 DEF Surjection, n

LEMMA FunctionIsSeq ==
  ASSUME NEW S, NEW n \in Nat, NEW f \in [1..n -> S] PROVE f \in Seq(S) /\ Len(f) = n
  OBVIOUS

LEMMA TupleOfThree ==
  ASSUME NEW S, NEW t \in S \X S \X S
  PROVE  t \in Seq(S) /\ Len(t) = 3 /\ t # << >> /\ t[1] \in S /\ t[2] \in S /\ t[3] \in S
<1>1. PICK a \in S, b \in S, c \in S : t = <<a, b, c>>
  OBVIOUS
<1> QED
  BY <1>1

Keys(S) == IF S = {} THEN 1 ELSE Cardinality(S)

LEMMA KeyListFacts ==
  ASSUME NEW S \in SUBSET Scancodes
  PROVE  /\ Keys(S) \in Nat /\ Keys(S) >= 1
         /\ KeyList(S) \in Seq(Bytes) /\ Len(KeyList(S)) = Keys(S)
         /\ \A i \in 1..(Keys(S) - 1) : KeyList(S)[i] \in Scancodes
         /\ S = {} => KeyList(S)[Keys(S)] = AllUp
         /\ S # {} => /\ KeyList(S)[Keys(S)] \in {c + ListEnd : c \in Scancodes}
                      /\ {KeyList(S)[i] : i \in 1..(Keys(S) - 1)} \cup {KeyList(S)[Keys(S)] % ListEnd} = S
<1>1. CASE S = {}
  <2>1. KeyList(S) = <<64>> /\ Keys(S) = 1
    BY <1>1 DEF KeyList, Keys, AllUp
  <2>2. 64 \in Bytes
    BY DEF Bytes
  <2>3. <<64>> \in Seq(Bytes) /\ Len(<<64>>) = 1 /\ <<64>>[1] = 64
    BY <2>2
  <2>4. \A i \in 1..(Keys(S) - 1) : KeyList(S)[i] \in Scancodes
    BY <2>1
  <2>5. KeyList(S) \in Seq(Bytes) /\ Len(KeyList(S)) = Keys(S) /\ KeyList(S)[Keys(S)] = 64
    BY <2>1, <2>3
  <2>6. Keys(S) \in Nat /\ Keys(S) >= 1
    BY <2>1
  <2> QED
    BY <1>1, <2>4, <2>5, <2>6 DEF AllUp
<1>2. CASE S # {}
  <2> DEFINE n == Cardinality(S)
             a == Ascending(S)
             l == [a EXCEPT ![n] = a[n] + 128]
  <2>1. n \in Nat /\ n >= 1 /\ S \subseteq Nat
    BY <1>2, CodesFinite
  <2>2. KeyList(S) = l /\ Keys(S) = n
    BY <1>2 DEF KeyList, Keys, ListEnd
  <2>3. a \in [1..n -> S] /\ \A c \in S : \E i \in 1..n : a[i] = c
    BY AscendingFacts
  <2> HIDE DEF n, a
  <2>4. \A c \in Scancodes : c \in 1..127
    BY KeyboardAssumption
  <2>5. \A i \in 1..n : a[i] \in Scancodes /\ a[i] \in 1..127
    BY <2>3, <2>4
  <2>6. l \in [1..n -> Bytes]
    <3>1. \A i \in 1..n : a[i] \in Bytes /\ a[i] + 128 \in Bytes
      BY <2>5 DEF Bytes
    <3>2. a \in [1..n -> Bytes]
      BY <2>3, <3>1
    <3> QED
      BY <2>1, <3>1, <3>2
  <2>8. l[n] = a[n] + 128 /\ \A i \in 1..(n - 1) : l[i] = a[i]
    BY <2>1, <2>3
  <2> HIDE DEF l
  <2>7. l \in Seq(Bytes) /\ Len(l) = n
    BY <2>1, <2>6, FunctionIsSeq
  <2>9. \A i \in 1..(n - 1) : i \in 1..n
    BY <2>1
  <2>10. l[n] % 128 = a[n] /\ n \in 1..n
    <3>1. n \in 1..n
      BY <2>1
    <3>2. a[n] \in 1..127
      BY <2>5, <3>1
    <3> QED
      BY <2>8, <3>1, <3>2
  <2>11. {l[i] : i \in 1..(n - 1)} \cup {l[n] % 128} = S
    <3>1. ASSUME NEW c \in S PROVE c \in {l[i] : i \in 1..(n - 1)} \cup {l[n] % 128}
      <4>1. PICK i \in 1..n : a[i] = c
        BY <2>3
      <4>2. i \in 1..(n - 1) \/ i = n
        BY <2>1
      <4> QED
        BY <2>8, <2>10, <4>1, <4>2
    <3>2. ASSUME NEW c \in {l[i] : i \in 1..(n - 1)} \cup {l[n] % 128} PROVE c \in S
      <4>1. \E i \in 1..n : c = a[i]
        BY <2>8, <2>9, <2>10
      <4> QED
        BY <2>3, <4>1
    <3> QED
      BY <3>1, <3>2
  <2>12. /\ \A i \in 1..(n - 1) : l[i] \in Scancodes
         /\ l[n] \in {c + 128 : c \in Scancodes}
    BY <2>5, <2>8, <2>9, <2>10
  <2> QED
    BY <1>2, <2>1, <2>2, <2>7, <2>11, <2>12 DEF ListEnd
<1> QED
  BY <1>1, <1>2

\* The bytes of a key list.
LEMMA EncodedKeys ==
  ASSUME NEW S \in SUBSET Scancodes, NEW after \in BOOLEAN
  PROVE  LET c == Encoded(KeysMessage(S), after) IN
         /\ c = (IF after THEN <<BeginKeyboard>> ELSE << >>) \o KeyList(S)
         /\ c \in Seq(Bytes) /\ Len(c) = Lead(after) + Keys(S)
         /\ after => c[1] = BeginKeyboard
         /\ \A i \in 1..Keys(S) : c[Lead(after) + i] = KeyList(S)[i]
<1> DEFINE l == IF after THEN <<BeginKeyboard>> ELSE << >>
           k == KeyList(S)
           o == Lead(after)
<1>1. Encoded(KeysMessage(S), after) = l \o k
  BY DEF Encoded, KeysMessage, IsMove
<1>2. k \in Seq(Bytes) /\ Len(k) = Keys(S) /\ Keys(S) \in Nat /\ Keys(S) >= 1
  BY KeyListFacts
<1>3. l \in Seq(Bytes) /\ Len(l) = o /\ o \in Nat /\ (after => l[1] = BeginKeyboard)
  <2>1. BeginKeyboard \in Bytes
    BY DEF BeginKeyboard, Bytes
  <2> QED
    BY <2>1 DEF Lead
<1>4. after => o = 1
  BY DEF Lead
<1> HIDE DEF l, k, o
<1>5. /\ l \o k \in Seq(Bytes) /\ Len(l \o k) = o + Keys(S)
      /\ \A i \in 1..(o + Keys(S)) :
           (l \o k)[i] = IF i <= o THEN l[i] ELSE k[i - o]
  <2>1. /\ l \o k \in Seq(Bytes) /\ Len(l \o k) = Len(l) + Len(k)
        /\ \A i \in 1..(Len(l) + Len(k)) : (l \o k)[i] = IF i <= Len(l) THEN l[i] ELSE k[i - Len(l)]
    BY <1>2, <1>3, ConcatProperties, Zenon
  <2> QED
    BY <1>2, <1>3, <2>1
<1>6. after => (l \o k)[1] = BeginKeyboard
  <2> SUFFICES ASSUME after PROVE (l \o k)[1] = BeginKeyboard
    OBVIOUS
  <2>1. o = 1
    BY <1>4
  <2>2. 1 \in 1..(o + Keys(S)) /\ 1 <= o
    BY <1>2, <2>1
  <2> QED
    BY <1>3, <1>5, <2>2
<1>7. ASSUME NEW i \in 1..Keys(S) PROVE (l \o k)[o + i] = k[i]
  <2>1. o + i \in 1..(o + Keys(S)) /\ ~(o + i <= o)
        /\ (o + i) - o = i
    BY <1>2, <1>3
  <2> QED
    BY <1>5, <2>1
<1> QED
  BY <1>1, <1>5, <1>6, <1>7 DEF l, k, o

\* The bytes of a mouse event.
LEMMA EncodedMove ==
  ASSUME NEW t \in Bytes \X Bytes \X Bytes, NEW after
  PROVE  LET c == Encoded(MoveMessage(t), after) IN
         /\ IsMove(MoveMessage(t)) /\ t \in Seq(Bytes) /\ Len(t) = 3
         /\ c = <<BeginMouse>> \o t \o (IF t[3] = BeginKeyboard THEN <<BeginKeyboard>> ELSE << >>)
         /\ c \in Seq(Bytes) /\ Len(c) = IF t[3] = BeginKeyboard THEN 5 ELSE 4
         /\ c[1] = BeginMouse /\ c[2] = t[1] /\ c[3] = t[2] /\ c[4] = t[3]
         /\ t[3] = BeginKeyboard => c[5] = BeginKeyboard
<1> DEFINE d == IF t[3] = BeginKeyboard THEN <<BeginKeyboard>> ELSE << >>
           h == <<BeginMouse>> \o t
<1>1. t \in Seq(Bytes) /\ Len(t) = 3 /\ t # << >>
  BY TupleOfThree
<1>2. Encoded(MoveMessage(t), after) = h \o d /\ IsMove(MoveMessage(t))
  BY <1>1 DEF Encoded, MoveMessage, IsMove
<1>3. <<BeginMouse>> \in Seq(Bytes) /\ Len(<<BeginMouse>>) = 1 /\ <<BeginMouse>>[1] = BeginMouse
  BY DEF BeginMouse, Bytes
<1>4. d \in Seq(Bytes) /\ Len(d) = (IF t[3] = BeginKeyboard THEN 1 ELSE 0)
      /\ (t[3] = BeginKeyboard => d[1] = BeginKeyboard)
  <2>1. BeginKeyboard \in Bytes
    BY DEF BeginKeyboard, Bytes
  <2>2. CASE t[3] = BeginKeyboard
    BY <2>1, <2>2
  <2>3. CASE t[3] # BeginKeyboard
    BY <2>3
  <2> QED
    BY <2>2, <2>3
<1>5. h \in Seq(Bytes) /\ Len(h) = 4 /\ h[1] = BeginMouse /\ h[2] = t[1] /\ h[3] = t[2] /\ h[4] = t[3]
  <2>1. /\ h \in Seq(Bytes) /\ Len(h) = Len(<<BeginMouse>>) + Len(t)
        /\ \A i \in 1..(Len(<<BeginMouse>>) + Len(t)) :
             h[i] = IF i <= Len(<<BeginMouse>>) THEN <<BeginMouse>>[i] ELSE t[i - Len(<<BeginMouse>>)]
    BY <1>1, <1>3, ConcatProperties
  <2> QED
    BY <1>1, <1>3, <2>1
<1> HIDE DEF h, d
<1>6. /\ h \o d \in Seq(Bytes) /\ Len(h \o d) = Len(h) + Len(d)
      /\ \A i \in 1..(Len(h) + Len(d)) : (h \o d)[i] = IF i <= Len(h) THEN h[i] ELSE d[i - Len(h)]
  BY <1>4, <1>5, ConcatProperties
<1>7. /\ (h \o d)[1] = h[1] /\ (h \o d)[2] = h[2] /\ (h \o d)[3] = h[3] /\ (h \o d)[4] = h[4]
      /\ t[3] = BeginKeyboard => (h \o d)[5] = d[1]
  BY <1>4, <1>5, <1>6
<1>8. Len(h \o d) = IF t[3] = BeginKeyboard THEN 5 ELSE 4
  BY <1>4, <1>5, <1>6
<1> QED
  BY <1>1, <1>2, <1>4, <1>5, <1>6, <1>7, <1>8 DEF h, d

-----------------------------------------------------------------------------
(* The decoder understands what was encoded.                                *)

LEMMA WaitingIs ==
  /\ Waiting(FALSE) = Hearing({}) /\ Fresh = Hearing({})
  /\ Waiting(TRUE) = [mode |-> "mouse", keys |-> {}, move |-> << >>]
  /\ Waiting(TRUE) = [Fresh EXCEPT !.mode = "mouse"]
  BY DEF Waiting, Fresh, Hearing

LEMMA DecodedFirst ==
  /\ Decoded(Waiting(FALSE), BeginMouse) = Moving(<< >>)
  /\ Decoded(Waiting(TRUE), BeginMouse) = Moving(<< >>)
  /\ Decoded(Waiting(TRUE), BeginKeyboard) = Hearing({})
<1>1. Decoded(Waiting(FALSE), BeginMouse) = Moving(<< >>)
  <2>1. Decoded(Hearing({}), BeginMouse) = [Hearing({}) EXCEPT !.mode = "move", !.move = << >>]
    BY DEF Decoded, Hearing
  <2> QED
    BY <2>1, WaitingIs DEF Hearing, Moving
<1>2. \A b : Decoded(Waiting(TRUE), b) = [Fresh EXCEPT !.mode = IF b = BeginMouse THEN "move" ELSE "keys"]
  BY WaitingIs DEF Decoded
<1>3. BeginKeyboard # BeginMouse
  BY DEF BeginKeyboard, BeginMouse
<1>4. Decoded(Waiting(TRUE), BeginMouse) = Moving(<< >>)
  BY <1>2 DEF Fresh, Moving
<1>5. Decoded(Waiting(TRUE), BeginKeyboard) = Hearing({})
  <2>1. Decoded(Waiting(TRUE), BeginKeyboard) = [Fresh EXCEPT !.mode = "keys"]
    BY <1>2, <1>3
  <2> QED
    BY <2>1 DEF Fresh, Hearing
<1> QED
  BY <1>1, <1>4, <1>5

LEMMA DecodedKey ==
  ASSUME NEW K, NEW b \in Nat, b # BeginMouse
  PROVE  LET x == Decoded(Hearing(K), b) IN
         /\ x.keys = IF b = AllUp THEN {} ELSE K \cup {b % ListEnd}
         /\ x.mode = IF b = AllUp \/ b >= ListEnd THEN "list" ELSE "keys"
         /\ ~(b = AllUp \/ b >= ListEnd) => x = Hearing(K \cup {b % ListEnd})
  BY DEF Decoded, Hearing

LEMMA DecodedMove ==
  ASSUME NEW t \in Seq(Bytes), NEW b \in Bytes
  PROVE  LET x == Decoded(Moving(t), b)
             whole == Len(Append(t, b)) = 4 \/ (Len(Append(t, b)) = 3 /\ b # BeginKeyboard)
         IN /\ x.move = Append(t, b) /\ x.mode = IF whole THEN "moved" ELSE "move"
            /\ ~whole => x = Moving(Append(t, b))
  BY DEF Decoded, Moving

\* A byte of a key list.
LEMMA HearKeys ==
  ASSUME NEW S \in SUBSET Scancodes, NEW after \in BOOLEAN, NEW q \in Nat,
         q < Len(Encoded(KeysMessage(S), after))
  PROVE  LET m == KeysMessage(S)
             c == Encoded(m, after)
             x == Decoded(Heard(m, after, q), c[q + 1])
         IN /\ q + 1 < Len(c) => x = Heard(m, after, q + 1) /\ x.mode \notin {"list", "moved"}
            /\ q + 1 = Len(c) => x.mode = "list" /\ x.keys = S
<1> DEFINE m == KeysMessage(S)
           c == Encoded(m, after)
           o == Lead(after)
           n == Keys(S)
           l == KeyList(S)
           x == Decoded(Heard(m, after, q), c[q + 1])
           K(i) == {l[j] : j \in 1..i}
<1>1. /\ c \in Seq(Bytes) /\ Len(c) = o + n /\ (after => c[1] = BeginKeyboard)
      /\ \A i \in 1..n : c[o + i] = l[i]
  BY EncodedKeys
<1>2. o \in Nat /\ (after => o = 1) /\ (~after => o = 0)
  BY DEF Lead
<1>3. /\ n \in Nat /\ n >= 1
      /\ \A i \in 1..(n - 1) : l[i] \in Scancodes
      /\ S = {} => l[n] = AllUp
      /\ S # {} => l[n] \in {k + ListEnd : k \in Scancodes} /\ K(n - 1) \cup {l[n] % ListEnd} = S
  BY KeyListFacts
<1>4. q < o + n
  BY <1>1
<1>7. ~IsMove(m) /\ m.keys = S
  BY DEF IsMove, KeysMessage
<1> HIDE DEF m
<1>5. ASSUME NEW i \in Nat, i > 0 PROVE Heard(m, after, i) = Hearing(K(i - o))
  <2>1. i # 0
    BY <1>5
  <2>2. Heard(m, after, i) = Hearing({KeyList(m.keys)[j] : j \in 1..(i - Lead(after))})
    BY <1>7, <2>1, Zenon DEF Heard
  <2> QED
    BY <1>7, <2>2, Zenon
<1>6. Heard(m, after, 0) = Waiting(after)
  BY Zenon DEF Heard
<1> HIDE DEF c, o, n, l, K
<1>8. K(0) = {}
  BY DEF K
<1>9. CASE q < o
  <2>1. after = TRUE
    BY <1>2, <1>9
  <2>0. q = 0 /\ o = 1 /\ q + 1 = 1 /\ 1 - o = 0
    BY <1>2, <1>9, <2>1
  <2>2. x = Hearing({})
    <3>1. Heard(m, after, q) = Waiting(TRUE)
      BY <1>6, <2>0, <2>1, Zenon
    <3>2. c[q + 1] = BeginKeyboard
      BY <1>1, <2>0, <2>1, Zenon
    <3> QED
      BY <3>1, <3>2, DecodedFirst, Zenon
  <2>3. Heard(m, after, q + 1) = Hearing(K(0))
    <3>1. Heard(m, after, 1) = Hearing(K(1 - o))
      BY <1>5
    <3> QED
      BY <2>0, <3>1, Zenon
  <2>4. q + 1 < Len(c)
    BY <1>1, <1>3, <2>0
  <2>5. x = Heard(m, after, q + 1) /\ x.mode = "keys"
    <3> HIDE DEF x
    <3>1. x = Heard(m, after, q + 1)
      BY <1>8, <2>2, <2>3
    <3>2. x.mode = "keys"
      BY <2>2 DEF Hearing
    <3> QED
      BY <3>1, <3>2
  <2> HIDE DEF x
  <2>6. ~(q + 1 = Len(c)) /\ x.mode \notin {"list", "moved"}
    BY <1>1, <1>3, <2>4, <2>5
  <2> QED
    BY <2>4, <2>5, <2>6, Zenon DEF x, m, c
<1>10. CASE q >= o
  <2> DEFINE i == q - o + 1
             b == l[i]
  <2>1. i \in 1..n /\ o + i = q + 1 /\ i - 1 = q - o /\ (q + 1 < Len(c) <=> i < n) /\ (q + 1 = Len(c) <=> i = n)
    BY <1>1, <1>2, <1>3, <1>4, <1>10
  <2>2. Heard(m, after, q) = Hearing(K(i - 1))
    <3>1. CASE q = 0
      <4>1. after = FALSE /\ i - 1 = 0
        BY <1>2, <1>10, <3>1
      <4> QED
        BY <1>6, <1>8, <3>1, <4>1, WaitingIs
    <3>2. CASE q > 0
      BY <1>5, <2>1, <3>2
    <3> QED
      BY <3>1, <3>2
  <2>3. c[q + 1] = b
    BY <1>1, <2>1
  <2>4. x = Decoded(Hearing(K(i - 1)), b)
    BY <2>2, <2>3
  <2>5. \A k \in Scancodes : k \in 1..127 /\ k \notin {64, 78, 95}
    BY KeyboardAssumption
  <2> HIDE DEF i, b, x
  <2>6. CASE i < n
    <3>1. b \in Scancodes
      BY <1>3, <2>1, <2>6 DEF b
    <3>7. b \in 1..127 /\ b # 64
      BY <2>5, <3>1
    <3>2. b \in Nat /\ b # BeginMouse /\ b # AllUp /\ ~(b >= ListEnd) /\ b % ListEnd = b
      BY <3>7 DEF BeginMouse, AllUp, ListEnd
    <3>3. x = Hearing(K(i - 1) \cup {b})
      BY <2>4, <3>2, DecodedKey
    <3>4. K(i - 1) \cup {b} = K(i)
      BY <2>1 DEF K, b
    <3>5. Heard(m, after, q + 1) = Hearing(K(i))
      <4>1. q + 1 \in Nat /\ q + 1 > 0 /\ (q + 1) - o = i
        BY <1>2 DEF i
      <4> QED
        BY <1>5, <4>1
    <3>6. x = Heard(m, after, q + 1) /\ x.mode = "keys"
      BY <3>3, <3>4, <3>5 DEF Hearing
    <3> QED
      BY <1>3, <2>1, <2>6, <3>6 DEF x, m, c
  <2>7. CASE i = n
    <3>1. CASE S = {}
      <4>1. b = AllUp /\ b \in Nat /\ b # BeginMouse
        BY <1>3, <2>7, <3>1 DEF b, AllUp, BeginMouse
      <4>2. x.mode = "list" /\ x.keys = {}
        BY <2>4, <4>1, DecodedKey
      <4> QED
        BY <1>3, <2>1, <2>7, <3>1, <4>2 DEF x, m, c
    <3>2. CASE S # {}
      <4>1. PICK k \in Scancodes : b = k + ListEnd
        BY <1>3, <2>7, <3>2 DEF b
      <4>5. k \in 1..127 /\ k # 78
        BY <2>5
      <4>2. b \in Nat /\ b # BeginMouse /\ b # AllUp /\ b >= ListEnd
        BY <4>1, <4>5 DEF ListEnd, BeginMouse, AllUp
      <4>3. x.mode = "list" /\ x.keys = K(i - 1) \cup {b % ListEnd}
        BY <2>4, <4>2, DecodedKey
      <4>4. x.keys = S
        BY <1>3, <2>7, <3>2, <4>3 DEF b
      <4> QED
        BY <1>3, <2>1, <2>7, <4>3, <4>4 DEF x, m, c
    <3> QED
      BY <3>1, <3>2
  <2> QED
    BY <1>3, <2>1, <2>6, <2>7
<1> QED
  BY <1>2, <1>9, <1>10

\* A byte of a mouse event.
LEMMA HearMove ==
  ASSUME NEW t \in Bytes \X Bytes \X Bytes, NEW after \in BOOLEAN, NEW q \in Nat,
         q < Len(Encoded(MoveMessage(t), after))
  PROVE  LET m == MoveMessage(t)
             c == Encoded(m, after)
             x == Decoded(Heard(m, after, q), c[q + 1])
         IN /\ q + 1 < Len(c) => x = Heard(m, after, q + 1) /\ x.mode \notin {"list", "moved"}
            /\ q + 1 = Len(c) => x.mode = "moved" /\ SubSeq(x.move, 1, 3) = t
<1> DEFINE m == MoveMessage(t)
           c == Encoded(m, after)
           x == Decoded(Heard(m, after, q), c[q + 1])
           part(i) == SubSeq(c, 2, i)
<1>1. /\ IsMove(m) /\ t \in Seq(Bytes) /\ Len(t) = 3
      /\ c \in Seq(Bytes) /\ Len(c) = IF t[3] = BeginKeyboard THEN 5 ELSE 4
      /\ c[1] = BeginMouse /\ c[2] = t[1] /\ c[3] = t[2] /\ c[4] = t[3]
  BY EncodedMove
<1> HIDE DEF m
<1>2. ASSUME NEW i \in Nat, i > 0 PROVE Heard(m, after, i) = Moving(part(i))
  <2>1. i # 0
    BY <1>2
  <2> QED
    BY <1>1, <2>1, Zenon DEF Heard
<1>3. Heard(m, after, 0) = Waiting(after)
  BY Zenon DEF Heard
<1> HIDE DEF c
<1>4. CASE q = 0
  <2>1. x = Moving(<< >>)
    <3>1. q + 1 = 1
      BY <1>4
    <3>2. x = Decoded(Waiting(after), BeginMouse)
      BY <1>1, <1>3, <1>4, <3>1, Zenon
    <3>3. after = TRUE \/ after = FALSE
      OBVIOUS
    <3> QED
      BY <3>2, <3>3, DecodedFirst, Zenon
  <2>2. part(1) = << >>
    BY <1>1
  <2>3. Heard(m, after, q + 1) = Moving(<< >>)
    <3>1. Heard(m, after, 1) = Moving(part(1))
      BY <1>2
    <3>2. q + 1 = 1
      BY <1>4
    <3> QED
      BY <2>2, <3>1, <3>2, Zenon
  <2> HIDE DEF x
  <2>4. x.mode = "move"
    BY <2>1 DEF Moving
  <2>5. q + 1 < Len(c) /\ ~(q + 1 = Len(c)) /\ x.mode \notin {"list", "moved"}
    BY <1>1, <1>4, <2>4
  <2> QED
    BY <2>1, <2>3, <2>5, Zenon DEF x, m, c
<1>5. CASE q > 0
  <2>1. q + 1 \in 2..Len(c) /\ q + 1 \in Nat /\ c[q + 1] \in Bytes
    BY <1>1, <1>5 DEF c, m
  <2>2. part(q) \in Seq(Bytes) /\ Len(part(q)) = q - 1
    BY <1>1, <1>5, <2>1
  <2>3. Append(part(q), c[q + 1]) = part(q + 1) /\ Len(part(q + 1)) = q
    <3>1. part(q + 1) = part(q) \o <<c[q + 1]>>
      BY <1>1, <1>5, <2>1, SubSeqRecursiveSecond
    <3> QED
      BY <2>1, <2>2, <3>1
  <2>4. x = Decoded(Moving(part(q)), c[q + 1])
    BY <1>2, <1>5
  <2> DEFINE whole == q = 4 \/ (q = 3 /\ c[q + 1] # BeginKeyboard)
  <2>5. /\ x.move = part(q + 1) /\ x.mode = (IF whole THEN "moved" ELSE "move")
        /\ ~whole => x = Moving(part(q + 1))
    <3> DEFINE u == part(q)
               b == c[q + 1]
               y == Decoded(Moving(u), b)
               w == Len(Append(u, b)) = 4 \/ (Len(Append(u, b)) = 3 /\ b # BeginKeyboard)
    <3>1. u \in Seq(Bytes) /\ b \in Bytes /\ Append(u, b) = part(q + 1) /\ Len(part(q + 1)) = q
      BY <2>1, <2>2, <2>3
    <3> HIDE DEF u, b
    <3>2. y.move = Append(u, b) /\ y.mode = (IF w THEN "moved" ELSE "move") /\ (~w => y = Moving(Append(u, b)))
      BY <3>1, DecodedMove
    <3>3. w <=> q = 4 \/ (q = 3 /\ b # BeginKeyboard)
      BY <3>1
    <3>4. w <=> whole
      BY <3>3 DEF b
    <3>5. x = y
      BY <2>4 DEF u, b
    <3> HIDE DEF x, y, w, whole
    <3> QED
      BY <3>1, <3>2, <3>4, <3>5
  <2>6. whole <=> q + 1 = Len(c)
    BY <1>1, <1>5, <2>1
  <2>7. q + 1 = Len(c) => SubSeq(part(q + 1), 1, 3) = t
    <3> SUFFICES ASSUME q + 1 = Len(c) PROVE SubSeq(part(q + 1), 1, 3) = t
      OBVIOUS
    <3>1. SubSeq(part(q + 1), 1, 3) \in Seq(Bytes) /\ Len(SubSeq(part(q + 1), 1, 3)) = 3
      BY <1>1, <2>1, <2>3
    <3>2. /\ SubSeq(part(q + 1), 1, 3)[1] = t[1] /\ SubSeq(part(q + 1), 1, 3)[2] = t[2]
          /\ SubSeq(part(q + 1), 1, 3)[3] = t[3]
      BY <1>1, <2>1, <2>3
    <3> QED
      BY <1>1, <3>1, <3>2, SeqEqual
  <2>8. ~whole => x = Heard(m, after, q + 1) /\ x.mode = "move"
    BY <1>2, <2>1, <2>5
  <2> HIDE DEF x, part, whole
  <2>9. /\ q + 1 < Len(c) => x = Heard(m, after, q + 1) /\ x.mode \notin {"list", "moved"}
        /\ q + 1 = Len(c) => x.mode = "moved" /\ SubSeq(x.move, 1, 3) = t
    BY <1>1, <2>1, <2>5, <2>6, <2>7, <2>8
  <2> QED
    BY <2>9 DEF x, m, c
<1> QED
  BY <1>4, <1>5

LEMMA HearMessage ==
  ASSUME NEW m \in Sendable, NEW after \in BOOLEAN
  PROVE  LET c == Encoded(m, after) IN
         /\ c \in Seq(Bytes) /\ Len(c) >= 1
         /\ \A q \in Nat : q < Len(c) =>
              LET x == Decoded(Heard(m, after, q), c[q + 1]) IN
              \/ /\ q + 1 < Len(c) /\ x = Heard(m, after, q + 1) /\ x.mode \notin {"list", "moved"}
              \/ /\ q + 1 = Len(c) /\ ~IsMove(m) /\ x.mode = "list" /\ m = KeysMessage(x.keys)
              \/ /\ q + 1 = Len(c) /\ IsMove(m) /\ x.mode = "moved" /\ m = MoveMessage(SubSeq(x.move, 1, 3))
<1> DEFINE c == Encoded(m, after)
           x(q) == Decoded(Heard(m, after, q), c[q + 1])
<1>1. CASE \E S \in SUBSET Scancodes : m = KeysMessage(S)
  <2>1. PICK S \in SUBSET Scancodes : m = KeysMessage(S)
    BY <1>1
  <2>2. c \in Seq(Bytes) /\ Len(c) = Lead(after) + Keys(S)
    BY <2>1, EncodedKeys
  <2>3. Keys(S) \in Nat /\ Keys(S) >= 1 /\ Lead(after) \in Nat
    BY KeyListFacts DEF Lead
  <2>4. ~IsMove(m)
    BY <2>1 DEF IsMove, KeysMessage
  <2>5. ASSUME NEW q \in Nat, q < Len(c)
        PROVE  \/ q + 1 < Len(c) /\ x(q) = Heard(m, after, q + 1) /\ x(q).mode \notin {"list", "moved"}
               \/ q + 1 = Len(c) /\ x(q).mode = "list" /\ m = KeysMessage(x(q).keys)
    <3>1. /\ q + 1 < Len(c) => x(q) = Heard(m, after, q + 1) /\ x(q).mode \notin {"list", "moved"}
          /\ q + 1 = Len(c) => x(q).mode = "list" /\ x(q).keys = S
      BY <2>1, <2>5, HearKeys
    <3>2. q + 1 < Len(c) \/ q + 1 = Len(c)
      BY <2>2, <2>3, <2>5
    <3> HIDE DEF x, c
    <3> QED
      BY <2>1, <3>1, <3>2
  <2>6. Len(c) >= 1
    BY <2>2, <2>3
  <2> QED
    BY <2>2, <2>4, <2>5, <2>6
<1>2. CASE \E t \in Bytes \X Bytes \X Bytes : m = MoveMessage(t)
  <2>1. PICK t \in Bytes \X Bytes \X Bytes : m = MoveMessage(t)
    BY <1>2
  <2>2. c \in Seq(Bytes) /\ Len(c) = (IF t[3] = BeginKeyboard THEN 5 ELSE 4) /\ IsMove(m)
    BY <2>1, EncodedMove
  <2>5. ASSUME NEW q \in Nat, q < Len(c)
        PROVE  \/ q + 1 < Len(c) /\ x(q) = Heard(m, after, q + 1) /\ x(q).mode \notin {"list", "moved"}
               \/ q + 1 = Len(c) /\ x(q).mode = "moved" /\ m = MoveMessage(SubSeq(x(q).move, 1, 3))
    <3>1. /\ q + 1 < Len(c) => x(q) = Heard(m, after, q + 1) /\ x(q).mode \notin {"list", "moved"}
          /\ q + 1 = Len(c) => x(q).mode = "moved" /\ SubSeq(x(q).move, 1, 3) = t
      BY <2>1, <2>5, HearMove
    <3>2. q + 1 < Len(c) \/ q + 1 = Len(c)
      BY <2>2, <2>5
    <3> HIDE DEF x, c
    <3> QED
      BY <2>1, <3>1, <3>2
  <2>6. Len(c) >= 1
    BY <2>2
  <2> QED
    BY <2>2, <2>5, <2>6
<1> QED
  BY <1>1, <1>2 DEF Sendable

-----------------------------------------------------------------------------
(* Messages put in the ring and taken out.                                  *)

LEMMA LiesPut ==
  ASSUME NEW f \in Rings, NEW c \in Seq(Bytes), NEW a \in Int, NEW z, Lies(f, c, a, z),
         NEW bytes \in Seq(Bytes), InStep(f), f.buflen + Len(bytes) <= BufferSize
  PROVE  Lies(Put(f, bytes), c, a, z)
<1> DEFINE g == Put(f, bytes)
<1>1. g.buflen = f.buflen + Len(bytes) /\ \A j \in 1..f.buflen : Ahead(g, j) = Ahead(f, j)
  BY PutFacts
<1> HIDE DEF g
<1>2. f.buflen \in Nat /\ Len(bytes) \in Nat /\ Len(c) \in Nat
  BY Size DEF Rings
<1>3. z \in 1..f.buflen /\ z = a + Len(c)
  BY DEF Lies
<1>4. z \in 1..g.buflen
  BY <1>1, <1>2, <1>3
<1>5. ASSUME NEW i \in 1..Len(c), a + i >= 1 PROVE Ahead(g, a + i) = c[i]
  <2>1. a + i \in 1..f.buflen
    BY <1>2, <1>3, <1>5
  <2>2. Ahead(f, a + i) = c[i]
    BY <1>5 DEF Lies
  <2> QED
    BY <1>1, <2>1, <2>2
<1> QED
  BY <1>3, <1>4, <1>5 DEF Lies, g

LEMMA LiesGot ==
  ASSUME NEW f \in Rings, NEW c \in Seq(Bytes), NEW a \in Int, NEW z, Lies(f, c, a, z), z >= 2
  PROVE  Lies(Got(f), c, a - 1, z - 1)
<1> DEFINE g == Got(f)
<1>2. f.buflen \in Nat /\ Len(c) \in Nat
  BY Size DEF Rings
<1>3. z \in 1..f.buflen /\ z = a + Len(c)
  BY DEF Lies
<1>1. g.buflen = f.buflen - 1 /\ \A j \in 1..(f.buflen - 1) : Ahead(g, j) = Ahead(f, j + 1)
  BY <1>2, <1>3, GetFacts
<1> HIDE DEF g
<1>4. z - 1 \in 1..g.buflen /\ z - 1 = (a - 1) + Len(c)
  BY <1>1, <1>2, <1>3
<1>5. ASSUME NEW i \in 1..Len(c), (a - 1) + i >= 1 PROVE Ahead(g, (a - 1) + i) = c[i]
  <2>1. (a - 1) + i \in 1..(f.buflen - 1) /\ ((a - 1) + i) + 1 = a + i /\ a + i >= 1
    BY <1>2, <1>3, <1>5
  <2>2. Ahead(f, a + i) = c[i]
    BY <2>1 DEF Lies
  <2>3. Ahead(g, (a - 1) + i) = Ahead(f, ((a - 1) + i) + 1)
    BY <1>1, <2>1
  <2> QED
    BY <2>1, <2>2, <2>3
<1> QED
  BY <1>4, <1>5 DEF Lies, g

LEMMA CodedFacts ==
  ASSUME NEW s \in Seq(Sendable), NEW first \in BOOLEAN, NEW j \in 1..Len(s)
  PROVE  /\ s[j] \in Sendable /\ AfterMove(s, first, j) \in BOOLEAN
         /\ Coded(s, first, j) \in Seq(Bytes) /\ Len(Coded(s, first, j)) >= 1
<1>1. s[j] \in Sendable
  OBVIOUS
<1>2. AfterMove(s, first, j) \in BOOLEAN
  BY DEF AfterMove, IsMove
<1> QED
  BY <1>1, <1>2, HearMessage DEF Coded

\* A message put behind the others.
LEMMA StreamSend ==
  ASSUME NEW f \in Rings, NEW s \in Seq(Sendable), NEW m \in Sendable, NEW d, NEW l \in BOOLEAN,
         Streaming(f, s, d, l), f.buflen + Len(Encoded(m, l)) <= BufferSize
  PROVE  Streaming(Put(f, Encoded(m, l)), Append(s, m), d, IsMove(m))
<1> DEFINE n == Len(s)
           c == Encoded(m, l)
           g == Put(f, c)
           s2 == Append(s, m)
<1>1. PICK first \in BOOLEAN : \E e : Cuts(f, s, d, l, e, first)
  BY DEF Streaming
<1>2. PICK e : Cuts(f, s, d, l, e, first)
  BY <1>1
<1> DEFINE e2 == [j \in 0..Len(s2) |-> IF j = n + 1 THEN f.buflen + Len(c) ELSE e[j]]
<1>3. c \in Seq(Bytes) /\ Len(c) \in Nat /\ Len(c) >= 1 /\ InStep(f) /\ f.buflen \in Nat
  BY HearMessage, Size DEF Streaming, Rings
<1>4. /\ InStep(g) /\ g.buflen = f.buflen + Len(c)
      /\ \A j \in 1..Len(c) : Ahead(g, f.buflen + j) = c[j]
  BY <1>3, PutFacts
<1>5. /\ s2 \in Seq(Sendable) /\ n \in Nat /\ Len(s2) = n + 1 /\ s2[n + 1] = m
      /\ \A j \in 1..n : s2[j] = s[j] /\ s[j] \in Sendable
  OBVIOUS
<1>6. e \in [0..n -> Int] /\ e[0] <= 0 /\ e[n] = f.buflen
  BY <1>2 DEF Cuts
<1> HIDE DEF g, n, s2, c
<1>7. /\ e2 \in [0..Len(s2) -> Int] /\ e2[n + 1] = f.buflen + Len(c)
      /\ \A j \in 0..n : e2[j] = e[j]
  BY <1>3, <1>5, <1>6
<1> HIDE DEF e2
<1>8. /\ AfterMove(s2, first, n + 1) = AfterMove(s, first, n + 1)
      /\ \A j \in 1..n : AfterMove(s2, first, j) = AfterMove(s, first, j)
  <2>1. ASSUME NEW j \in 1..(n + 1) PROVE AfterMove(s2, first, j) = AfterMove(s, first, j)
    <3>1. CASE j = 1
      BY <3>1, Zenon DEF AfterMove
    <3>2. CASE j # 1
      <4>1. s2[j - 1] = s[j - 1]
        BY <1>5, <3>2
      <4> QED
        BY <3>2, <4>1, Zenon DEF AfterMove
    <3> QED
      BY <3>1, <3>2
  <2> QED
    BY <1>5, <2>1
<1>9. l = AfterMove(s, first, n + 1)
  BY <1>2 DEF Cuts, n
<1>10. ASSUME NEW j \in 1..Len(s2) PROVE Lies(g, Coded(s2, first, j), e2[j - 1], e2[j])
  <2>1. CASE j = n + 1
    <3>1. Coded(s2, first, j) = c
      BY <1>5, <1>8, <1>9, <2>1, Zenon DEF Coded, c
    <3>2. e2[j - 1] = f.buflen /\ e2[j] = f.buflen + Len(c)
      BY <1>5, <1>6, <1>7, <2>1
    <3>3. Lies(g, c, f.buflen, f.buflen + Len(c))
      BY <1>3, <1>4 DEF Lies
    <3> QED
      BY <3>1, <3>2, <3>3, Zenon
  <2>2. CASE j \in 1..n
    <3>1. Coded(s2, first, j) = Coded(s, first, j)
      BY <1>5, <1>8, <2>2, Zenon DEF Coded
    <3>2. Lies(f, Coded(s, first, j), e[j - 1], e[j])
      BY <1>2, <2>2 DEF Cuts, n
    <3>3. Coded(s, first, j) \in Seq(Bytes)
      BY <2>2, CodedFacts DEF n
    <3>4. j - 1 \in 0..n /\ j \in 0..n /\ e[j - 1] \in Int
      BY <1>5, <1>6, <2>2
    <3>5. Lies(g, Coded(s, first, j), e[j - 1], e[j])
      BY <1>3, <3>2, <3>3, <3>4, LiesPut DEF g, c
    <3>6. e2[j - 1] = e[j - 1] /\ e2[j] = e[j]
      BY <1>7, <3>4
    <3> QED
      BY <3>1, <3>5, <3>6, Zenon
  <2> QED
    BY <1>5, <2>1, <2>2
<1>11. IsMove(m) = AfterMove(s2, first, Len(s2) + 1)
  <2>1. Len(s2) + 1 # 1 /\ s2[(Len(s2) + 1) - 1] = m
    BY <1>5
  <2> QED
    BY <2>1, Zenon DEF AfterMove
<1>12. d = IF s2 = << >> THEN Waiting(first) ELSE Heard(s2[1], first, -e2[0])
  <2>1. s2 # << >> /\ e2[0] = e[0]
    BY <1>5, <1>7
  <2>2. d = IF s = << >> THEN Waiting(first) ELSE Heard(s[1], first, -e[0])
    BY <1>2 DEF Cuts
  <2>3. CASE s = << >>
    <3>1. n = 0
      BY <2>3 DEF n
    <3>2. -e[0] = 0
      BY <1>3, <1>6, <3>1
    <3>3. Heard(s2[1], first, 0) = Waiting(first)
      BY Zenon DEF Heard
    <3>4. d = Waiting(first)
      BY <2>2, <2>3, Zenon
    <3> QED
      BY <2>1, <3>2, <3>3, <3>4, Zenon
  <2>4. CASE s # << >>
    <3>1. s2[1] = s[1]
      <4>1. n >= 1
        BY <2>4 DEF n
      <4> QED
        BY <1>5, <4>1
    <3> QED
      BY <2>1, <2>2, <2>4, <3>1, Zenon
  <2> QED
    BY <2>3, <2>4
<1>13. e2[0] <= 0 /\ e2[Len(s2)] = g.buflen
  BY <1>4, <1>5, <1>6, <1>7
<1>14. Cuts(g, s2, d, IsMove(m), e2, first)
  BY <1>7, <1>10, <1>11, <1>12, <1>13, Zenon DEF Cuts
<1>15. Streaming(g, s2, d, IsMove(m))
  BY <1>4, <1>14, Zenon DEF Streaming
<1> QED
  BY <1>15 DEF g, s2, c

\* A byte taken out.
LEMMA StreamRead ==
  ASSUME NEW f \in Rings, NEW s \in Seq(Sendable), NEW d, NEW l,
         Streaming(f, s, d, l), f.buflen > 0
  PROVE  LET x == Decoded(d, f.buffer[f.readp]) IN
         /\ s # << >>
         /\ \/ x.mode \notin {"list", "moved"} /\ Streaming(Got(f), s, x, l)
            \/ /\ ~IsMove(s[1]) /\ x.mode = "list" /\ s[1] = KeysMessage(x.keys)
               /\ Streaming(Got(f), Tail(s), Waiting(FALSE), l)
            \/ /\ IsMove(s[1]) /\ x.mode = "moved" /\ s[1] = MoveMessage(SubSeq(x.move, 1, 3))
               /\ Streaming(Got(f), Tail(s), Waiting(TRUE), l)
<1> DEFINE n == Len(s)
           g == Got(f)
           b == f.buffer[f.readp]
           x == Decoded(d, b)
<1>1. PICK first \in BOOLEAN : \E e : Cuts(f, s, d, l, e, first)
  BY DEF Streaming
<1>2. PICK e : Cuts(f, s, d, l, e, first)
  BY <1>1
<1>3. InStep(f) /\ f.buflen \in Nat /\ n \in Nat
  BY Size DEF Streaming, Rings
<1>4. InStep(g) /\ g.buflen = f.buflen - 1 /\ b = Ahead(f, 1)
  BY <1>3, GetFacts
<1>5. e \in [0..n -> Int] /\ e[0] <= 0 /\ e[n] = f.buflen
  BY <1>2 DEF Cuts
<1>6. n >= 1 /\ s # << >>
  BY <1>3, <1>5
<1>7. \A j \in 1..n : Lies(f, Coded(s, first, j), e[j - 1], e[j])
  BY <1>2 DEF Cuts
<1> DEFINE q == -e[0]
           c == Encoded(s[1], first)
           u == Heard(s[1], first, q)
<1>8. d = u
  BY <1>2, <1>6, Zenon DEF Cuts
<1>9. Coded(s, first, 1) = c
  BY DEF Coded, AfterMove
<1>10. s[1] \in Sendable /\ c \in Seq(Bytes) /\ Len(c) \in Nat /\ q \in Nat /\ e[0] \in Int
  <2>1. s[1] \in Sendable
    BY <1>6
  <2>2. c \in Seq(Bytes)
    BY <2>1, HearMessage
  <2> HIDE DEF c
  <2> QED
    BY <1>3, <1>5, <2>1, <2>2
<1>11. e[1] = Len(c) - q /\ e[1] >= 1 /\ b = c[q + 1]
  <2>1. 1 - 1 = 0 /\ 1 \in 1..n
    BY <1>3, <1>6
  <2>2. Lies(f, c, e[0], e[1])
    <3>1. Lies(f, Coded(s, first, 1), e[1 - 1], e[1])
      BY <1>7, <2>1, Zenon
    <3> QED
      BY <1>9, <2>1, <3>1, Zenon
  <2>3. e[1] \in 1..f.buflen /\ e[1] = e[0] + Len(c)
    BY <2>2 DEF Lies
  <2> HIDE DEF c
  <2>4. q + 1 \in 1..Len(c) /\ e[0] + (q + 1) = 1
    BY <1>3, <1>10, <2>3
  <2>5. Ahead(f, 1) = c[q + 1]
    <3>1. e[0] + (q + 1) >= 1
      BY <2>4
    <3>2. Ahead(f, e[0] + (q + 1)) = c[q + 1]
      BY <2>2, <2>4, <3>1, Zenon DEF Lies
    <3> QED
      BY <2>4, <3>2, Zenon
  <2> QED
    BY <1>3, <1>4, <1>10, <2>3, <2>5
<1> HIDE DEF n, g, b, q, c, u
<1>12. q < Len(c) /\ e[1] = Len(c) - q
  BY <1>10, <1>11
<1>13. \/ /\ q + 1 < Len(c) /\ x = Heard(s[1], first, q + 1) /\ x.mode \notin {"list", "moved"}
       \/ /\ q + 1 = Len(c) /\ ~IsMove(s[1]) /\ x.mode = "list" /\ s[1] = KeysMessage(x.keys)
       \/ /\ q + 1 = Len(c) /\ IsMove(s[1]) /\ x.mode = "moved" /\ s[1] = MoveMessage(SubSeq(x.move, 1, 3))
  <2>1. x = Decoded(Heard(s[1], first, q), Encoded(s[1], first)[q + 1])
    BY <1>8, <1>11, Zenon DEF u, c
  <2> HIDE DEF x
  <2>2. q < Len(Encoded(s[1], first))
    BY <1>12 DEF c
  <2> QED
    BY <1>10, <2>1, <2>2, HearMessage DEF c
<1> HIDE DEF x
\* The cuts that are left move one byte nearer.
<1>14. ASSUME NEW j \in 1..n, j >= 2 \/ q + 1 < Len(c)
       PROVE  Lies(g, Coded(s, first, j), e[j - 1] - 1, e[j] - 1)
  <2>1. Lies(f, Coded(s, first, j), e[j - 1], e[j])
    BY <1>7
  <2>2. Coded(s, first, j) \in Seq(Bytes) /\ Len(Coded(s, first, j)) >= 1
    BY CodedFacts DEF n
  <2>3. j - 1 \in 0..n /\ e[j - 1] \in Int
    BY <1>3, <1>5
  <2>4. e[j] >= 2
    <3>1. CASE j = 1
      BY <1>10, <1>12, <1>14, <3>1
    <3>2. CASE j >= 2
      <4>1. j - 1 \in 1..n
        BY <1>3, <3>2
      <4>2. Lies(f, Coded(s, first, j - 1), e[(j - 1) - 1], e[j - 1])
        BY <1>7, <4>1
      <4>3. e[j - 1] >= 1
        BY <1>3, <4>2 DEF Lies
      <4>4. e[j] = e[j - 1] + Len(Coded(s, first, j)) /\ Len(Coded(s, first, j)) \in Nat
        BY <2>1, <2>2 DEF Lies
      <4> QED
        BY <2>2, <2>3, <4>3, <4>4
    <3> QED
      BY <3>1, <3>2
  <2> QED
    BY <2>1, <2>2, <2>3, <2>4, LiesGot DEF g
<1>15. CASE q + 1 < Len(c)
  <2> DEFINE e2 == [j \in 0..n |-> e[j] - 1]
  <2>1. e2 \in [0..n -> Int] /\ e2[0] <= 0 /\ e2[n] = g.buflen
    BY <1>3, <1>4, <1>5
  <2>2. -e2[0] = q + 1
    BY <1>3, <1>10 DEF q
  <2>3. \A j \in 0..n : e2[j] = e[j] - 1
    OBVIOUS
  <2> HIDE DEF e2
  <2>4. ASSUME NEW j \in 1..n PROVE Lies(g, Coded(s, first, j), e2[j - 1], e2[j])
    <3>1. j - 1 \in 0..n /\ j \in 0..n
      BY <1>3
    <3>2. e2[j - 1] = e[j - 1] - 1 /\ e2[j] = e[j] - 1
      BY <2>3, <3>1
    <3> QED
      BY <1>14, <1>15, <3>2
  <2>5. x = Heard(s[1], first, q + 1) /\ x.mode \notin {"list", "moved"}
    BY <1>10, <1>13, <1>15
  <2>6. l = AfterMove(s, first, n + 1)
    BY <1>2, Zenon DEF Cuts, n
  <2>7. x = IF s = << >> THEN Waiting(first) ELSE Heard(s[1], first, -e2[0])
    BY <1>6, <2>2, <2>5, Zenon
  <2>8. Cuts(g, s, x, l, e2, first)
    BY <2>1, <2>4, <2>6, <2>7, Zenon DEF Cuts, n
  <2>9. Streaming(g, s, x, l)
    BY <1>4, <2>8, Zenon DEF Streaming
  <2> QED
    BY <1>6, <2>5, <2>9 DEF g, x, b
<1>16. CASE q + 1 = Len(c)
  <2> DEFINE t == Tail(s)
             k == IsMove(s[1])
             e2 == [j \in 0..(n - 1) |-> e[j + 1] - 1]
  <2>1. t \in Seq(Sendable) /\ Len(t) = n - 1 /\ \A j \in 1..(n - 1) : t[j] = s[j + 1]
    BY <1>6 DEF n
  <2>2. e2 \in [0..(n - 1) -> Int] /\ e2[0] = 0 /\ e2[n - 1] = g.buflen
    <3>1. \A j \in 0..(n - 1) : j + 1 \in 0..n /\ e[j + 1] \in Int
      BY <1>3, <1>5
    <3>2. 0 \in 0..(n - 1) /\ n - 1 \in 0..(n - 1) /\ (n - 1) + 1 = n /\ 0 + 1 = 1 /\ e[1] = 1
      BY <1>3, <1>6, <1>10, <1>12, <1>16
    <3> QED
      BY <1>3, <1>4, <1>5, <3>1, <3>2
  <2>3. \A j \in 0..(n - 1) : e2[j] = e[j + 1] - 1
    OBVIOUS
  <2> HIDE DEF e2, t
  <2>4. ASSUME NEW j \in 1..n PROVE AfterMove(t, k, j) = AfterMove(s, first, j + 1)
    <3>1. j + 1 # 1 /\ (j + 1) - 1 = j
      OBVIOUS
    <3>2. AfterMove(s, first, j + 1) = IsMove(s[j])
      BY <3>1, Zenon DEF AfterMove
    <3>3. CASE j = 1
      BY <3>2, <3>3, Zenon DEF AfterMove
    <3>4. CASE j # 1
      <4>1. j - 1 \in 1..(n - 1) /\ (j - 1) + 1 = j
        BY <1>3, <3>4
      <4>2. t[j - 1] = s[j]
        BY <2>1, <4>1
      <4> QED
        BY <3>2, <3>4, <4>2, Zenon DEF AfterMove
    <3> QED
      BY <3>3, <3>4
  <2>5. ASSUME NEW j \in 1..Len(t) PROVE Lies(g, Coded(t, k, j), e2[j - 1], e2[j])
    <3>1. j + 1 \in 1..n /\ j + 1 >= 2 /\ j \in 1..n /\ j \in 1..(n - 1) /\ j - 1 \in 0..(n - 1) /\ j \in 0..(n - 1)
          /\ (j + 1) - 1 = j /\ (j - 1) + 1 = j
      BY <1>3, <2>1
    <3>2. Lies(g, Coded(s, first, j + 1), e[(j + 1) - 1] - 1, e[j + 1] - 1)
      BY <1>14, <3>1
    <3>3. e2[j - 1] = e[(j + 1) - 1] - 1 /\ e2[j] = e[j + 1] - 1
      BY <2>3, <3>1
    <3>4. t[j] = s[j + 1] /\ AfterMove(t, k, j) = AfterMove(s, first, j + 1)
      BY <2>1, <2>4, <3>1
    <3>5. Coded(t, k, j) = Coded(s, first, j + 1)
      BY <3>4, Zenon DEF Coded
    <3> QED
      BY <3>2, <3>3, <3>5, Zenon
  <2>6. l = AfterMove(t, k, Len(t) + 1)
    <3>1. l = AfterMove(s, first, n + 1)
      BY <1>2, Zenon DEF Cuts, n
    <3>2. Len(t) + 1 = n /\ n \in 1..n
      BY <1>3, <1>6, <2>1
    <3>3. AfterMove(t, k, n) = AfterMove(s, first, n + 1)
      BY <2>4, <3>2
    <3> QED
      BY <3>1, <3>2, <3>3, Zenon
  <2>7. Waiting(k) = IF t = << >> THEN Waiting(k) ELSE Heard(t[1], k, -e2[0])
    <3>1. e2[0] \in Int /\ e2[0] >= 0 /\ e2[0] <= 0
      BY <2>2
    <3>2. -e2[0] = 0
      BY <3>1
    <3> QED
      BY <3>2, Zenon DEF Heard
  <2>8. e2 \in [0..Len(t) -> Int] /\ e2[0] <= 0 /\ e2[Len(t)] = g.buflen
    BY <2>1, <2>2
  <2>9. Cuts(g, t, Waiting(k), l, e2, k)
    BY <2>5, <2>6, <2>7, <2>8, Zenon DEF Cuts
  <2>10. k \in BOOLEAN
    BY DEF IsMove
  <2>11. Streaming(g, t, Waiting(k), l)
    BY <1>4, <2>9, <2>10, Zenon DEF Streaming
  <2>12. CASE k = TRUE
    <3>1. x.mode = "moved" /\ s[1] = MoveMessage(SubSeq(x.move, 1, 3))
      BY <1>10, <1>13, <1>16, <2>12
    <3>2. Streaming(g, t, Waiting(TRUE), l)
      BY <2>11, <2>12, Zenon
    <3> QED
      BY <1>6, <2>12, <3>1, <3>2, Zenon DEF g, t, x, b
  <2>13. CASE k = FALSE
    <3>1. x.mode = "list" /\ s[1] = KeysMessage(x.keys)
      BY <1>10, <1>13, <1>16, <2>13
    <3>2. Streaming(g, t, Waiting(FALSE), l)
      BY <2>11, <2>13, Zenon
    <3> QED
      BY <1>6, <2>13, <3>1, <3>2, Zenon DEF g, t, x, b
  <2> QED
    BY <2>10, <2>12, <2>13
<1>17. q + 1 < Len(c) \/ q + 1 = Len(c)
  BY <1>10, <1>12
<1> QED
  BY <1>15, <1>16, <1>17, Zenon

LEMMA StreamEmpty ==
  ASSUME NEW f \in Rings, f.readp = 0, f.writep = 0, f.buflen = 0
  PROVE  Streaming(f, << >>, Fresh, FALSE)
<1> DEFINE e == [j \in 0..0 |-> 0]
<1>1. InStep(f)
  <2>1. 0 \in 0..(2 * BufferSize - 1) /\ 0 < BufferSize /\ 0 + 0 = 0
    BY Size
  <2>2. 0 % BufferSize = 0
    BY <2>1, Size, ModOnce
  <2> QED
    BY <2>1, <2>2 DEF InStep
<1>2. e \in [0..Len(<< >>) -> Int] /\ e[0] <= 0 /\ e[Len(<< >>)] = f.buflen
  OBVIOUS
<1>3. \A j \in 1..Len(<< >>) : Lies(f, Coded(<< >>, FALSE, j), e[j - 1], e[j])
  OBVIOUS
<1>4. AfterMove(<< >>, FALSE, Len(<< >>) + 1) = FALSE
  <2>1. Len(<< >>) + 1 = 1
    OBVIOUS
  <2> QED
    BY <2>1, Zenon DEF AfterMove
<1>5. Waiting(FALSE) = Fresh
  BY WaitingIs
<1> HIDE DEF e
<1>6. Cuts(f, << >>, Fresh, FALSE, e, FALSE)
  BY <1>2, <1>3, <1>4, <1>5, Zenon DEF Cuts
<1> QED
  BY <1>1, <1>6 DEF Streaming

\* With nothing left to read there is no message on its way.
LEMMA StreamRead0 ==
  ASSUME NEW f, NEW s \in Seq(Sendable), NEW d, NEW l, Streaming(f, s, d, l), f.buflen = 0
  PROVE  s = << >>
<1>1. PICK first \in BOOLEAN : \E e : Cuts(f, s, d, l, e, first)
  BY DEF Streaming
<1>2. PICK e : Cuts(f, s, d, l, e, first)
  BY <1>1
<1> SUFFICES ASSUME Len(s) >= 1 PROVE FALSE
  OBVIOUS
<1>3. Len(s) \in 1..Len(s)
  OBVIOUS
<1>4. Lies(f, Coded(s, first, Len(s)), e[Len(s) - 1], e[Len(s)])
  BY <1>2, <1>3 DEF Cuts
<1>5. e[Len(s)] \in 1..0
  BY <1>4 DEF Lies
<1> QED
  BY <1>5

-----------------------------------------------------------------------------
(* The invariant is inductive.                                              *)

LEMMA InitRingInv == Init => RingInv
<1> SUFFICES ASSUME Init PROVE RingInv
  OBVIOUS
<1>1. 0 \in 0..(BufferSize - 1) /\ 0 \in 0..BufferSize /\ 0 \in Bytes
  BY Size DEF Bytes
<1>2. fifo \in Rings
  <2>1. [i \in 0..(BufferSize - 1) |-> 0] \in [0..(BufferSize - 1) -> Bytes]
    BY <1>1
  <2> QED
    BY <1>1, <2>1 DEF Init, Rings
<1>3. Typed
  <2>1. /\ keystate = {} /\ update_flag = FALSE /\ lastdata_mouse = FALSE /\ intact = TRUE
        /\ sent = << >>
    BY DEF Init
  <2>2. sent \in Seq(Sendable)
    BY <2>1
  <2> QED
    BY <1>2, <2>1, <2>2 DEF Typed
<1>4. Streaming(fifo, << >>, Fresh, FALSE)
  BY <1>2, StreamEmpty DEF Init
<1>5. InStream
  BY <1>4 DEF Init, InStream
<1>6. KeysUpToDate
  BY DEF Init, KeysUpToDate, KeyLists
<1> QED
  BY <1>3, <1>5, <1>6 DEF RingInv

\* A message goes into the ring.
LEMMA TransmitFacts ==
  ASSUME Typed, InStream, NEW m \in Sendable, Transmit(Encoded(m, lastdata_mouse), m),
         lastdata_mouse' = IsMove(m), decoder' = decoder
  PROVE  /\ fifo' \in Rings /\ sent' \in Seq(Sendable) /\ intact' \in BOOLEAN /\ lastdata_mouse' \in BOOLEAN
         /\ intact' => intact
         /\ InStream'
<1> DEFINE c == Encoded(m, lastdata_mouse)
<1>1. lastdata_mouse \in BOOLEAN /\ fifo \in Rings /\ sent \in Seq(Sendable) /\ intact \in BOOLEAN
  BY DEF Typed
<1>2. c \in Seq(Bytes)
  BY <1>1, HearMessage
<1>3. /\ fifo' = Put(fifo, c) /\ sent' = Append(sent, m)
      /\ intact' = (intact /\ fifo.buflen + Len(c) <= BufferSize)
  BY DEF Transmit
<1>4. fifo' \in Rings
  BY <1>1, <1>2, <1>3, PutFacts
<1>5. sent' \in Seq(Sendable)
  BY <1>1, <1>3
<1>6. intact' \in BOOLEAN /\ (intact' => intact /\ fifo.buflen + Len(c) <= BufferSize)
  <2> HIDE DEF c
  <2> QED
    BY <1>3
<1>7. IsMove(m) \in BOOLEAN
  BY DEF IsMove
<1>8. ASSUME intact' PROVE Streaming(fifo', sent', decoder', lastdata_mouse')
  <2>1. Streaming(fifo, sent, decoder, lastdata_mouse)
    BY <1>6, <1>8 DEF InStream
  <2>2. fifo.buflen + Len(c) <= BufferSize
    BY <1>6, <1>8
  <2>3. Streaming(Put(fifo, c), Append(sent, m), decoder, IsMove(m))
    BY <1>1, <2>1, <2>2, StreamSend
  <2> QED
    BY <1>3, <2>3, Zenon
<1>9. InStream'
  BY <1>8, Zenon DEF InStream
<1> QED
  BY <1>4, <1>5, <1>6, <1>7, <1>9

LEMMA MouseBytes ==
  ASSUME NEW m \in Moves
  PROVE  <<Flags(m.dx, m.dy, m.db), Distance(m.dx), Distance(m.dy) + 128>> \in Bytes \X Bytes \X Bytes
<1>1. m.dx \in Int /\ m.dy \in Int /\ m.db \in 0..7
  BY KeyboardAssumption
<1>2. \A d \in Int : Distance(d) \in 0..127
  BY DEF Distance, Smaller
<1>3. Flags(m.dx, m.dy, m.db) \in Bytes
  BY <1>1 DEF Flags, Bytes
<1>4. Distance(m.dx) \in Bytes /\ Distance(m.dy) + 128 \in Bytes
  <2>1. Distance(m.dx) \in 0..127 /\ Distance(m.dy) \in 0..127
    BY <1>1, <1>2
  <2> QED
    BY <2>1 DEF Bytes
<1> QED
  BY <1>3, <1>4

\* A mouse event is sent, or ignored.
LEMMA MouseSends ==
  ASSUME NEW m \in Moves, MouseEvent(m)
  PROVE  \/ UNCHANGED <<line, lastdata_mouse>>
         \/ \E t \in Bytes \X Bytes \X Bytes :
              /\ Transmit(Encoded(MoveMessage(t), lastdata_mouse), MoveMessage(t))
              /\ IsMove(MoveMessage(t)) /\ MoveMessage(t) \in Sendable /\ lastdata_mouse' = TRUE
<1> DEFINE y == Distance(m.dy) + 128
           t == <<Flags(m.dx, m.dy, m.db), Distance(m.dx), y>>
<1>1. t \in Bytes \X Bytes \X Bytes
  BY MouseBytes
<1>2. t[3] = y
  OBVIOUS
<1>3. CASE mouse_enabled
  <2>1. /\ Transmit(<<BeginMouse>> \o t \o (IF y = BeginKeyboard THEN <<y>> ELSE << >>), MoveMessage(t))
        /\ lastdata_mouse' = TRUE
    BY <1>3 DEF MouseEvent
  <2>2. /\ Encoded(MoveMessage(t), lastdata_mouse)
             = <<BeginMouse>> \o t \o (IF t[3] = BeginKeyboard THEN <<BeginKeyboard>> ELSE << >>)
        /\ IsMove(MoveMessage(t))
    BY <1>1, EncodedMove
  <2> HIDE DEF y
  <2>3. (IF y = BeginKeyboard THEN <<y>> ELSE << >>) = IF t[3] = BeginKeyboard THEN <<BeginKeyboard>> ELSE << >>
    BY <1>2
  <2> HIDE DEF t
  <2>4. Transmit(Encoded(MoveMessage(t), lastdata_mouse), MoveMessage(t))
    BY <2>1, <2>2, <2>3, Zenon
  <2>5. MoveMessage(t) \in Sendable
    BY <1>1 DEF Sendable
  <2> QED
    BY <1>1, <2>1, <2>2, <2>4, <2>5
<1>4. CASE ~mouse_enabled
  BY <1>4 DEF MouseEvent
<1> QED
  BY <1>3, <1>4

\* A scan that is due sends the keys.
LEMMA ScanSends ==
  ASSUME Typed, Scan
  PROVE  /\ ~IsMove(KeysMessage(keystate)) /\ KeysMessage(keystate) \in Sendable
         /\ \/ ~update_flag /\ UNCHANGED <<line, lastdata_mouse>>
            \/ /\ Transmit(Encoded(KeysMessage(keystate), lastdata_mouse), KeysMessage(keystate))
               /\ lastdata_mouse' = FALSE
<1>1. keystate \in SUBSET Scancodes /\ lastdata_mouse \in BOOLEAN
  BY DEF Typed
<1>2. Encoded(KeysMessage(keystate), lastdata_mouse) = Begin \o KeyList(keystate)
  BY <1>1, EncodedKeys DEF Begin
<1>3. ~IsMove(KeysMessage(keystate)) /\ KeysMessage(keystate) \in Sendable
  BY <1>1 DEF IsMove, KeysMessage, Sendable
<1>4. CASE update_flag
  <2>1. Transmit(Begin \o KeyList(keystate), KeysMessage(keystate)) /\ lastdata_mouse' = FALSE
    BY <1>4, Zenon DEF Scan
  <2> QED
    BY <1>2, <1>3, <2>1, Zenon
<1>5. CASE ~update_flag
  BY <1>3, <1>5, Zenon DEF Scan
<1> QED
  BY <1>4, <1>5

LEMMA Lowest ==
  ASSUME NEW M \in SUBSET Nat, M # {}
  PROVE  \E i \in M : \A j \in M : i <= j
<1> DEFINE R == OpToRel(<, Nat)
<1>1. \A i, j \in Nat : <<j, i>> \in R <=> j < i
  BY Zenon DEF OpToRel
<1>2. IsWellFoundedOn(R, Nat)
  BY NatLessThanWellFounded, Zenon
<1> HIDE DEF R
<1>3. PICK i \in M : \A j \in M : ~ (<<j, i>> \in R)
  BY <1>2, WFMin, Zenon
<1>4. ASSUME NEW j \in M PROVE i <= j
  <2>1. i \in Nat /\ j \in Nat
    OBVIOUS
  <2>2. ~(j < i)
    BY <1>1, <1>3, <2>1, Zenon
  <2> QED
    BY <2>1, <2>2
<1> QED
  BY <1>4

\* A key event that finds entries is for one of them.
LEMMA LowestMatch ==
  ASSUME NEW k, Matches(k) # {}
  PROVE  \E i \in Matches(k) : Code(k) = Keymap[i].scancode
<1>1. Matches(k) \subseteq Nat
  BY KeyboardAssumption DEF Matches
<1>2. \E i \in Matches(k) : \A j \in Matches(k) : i <= j
  BY <1>1, Lowest
<1> QED
  BY <1>2 DEF Code

\* Every action but the user's at the keys, the mouse events and the scans that
\* send, a byte read and a reset leaves the ring and the keys alone.
LEMMA KeepRingInv ==
  ASSUME RingInv, UNCHANGED <<line, decoder, seen, lastdata_mouse>>, UNCHANGED keystate,
         update_flag' = update_flag
  PROVE  RingInv'
<1>1. UNCHANGED <<fifo, sent, intact>>
  BY DEF line
<1>2. Typed'
  BY <1>1 DEF RingInv, Typed
<1>3. InStream'
  BY <1>1, Zenon DEF RingInv, InStream
<1>4. KeyLists' = KeyLists
  BY <1>1 DEF KeyLists
<1>5. KeysUpToDate'
  BY <1>1, <1>4, Zenon DEF RingInv, KeysUpToDate
<1> QED
  BY <1>2, <1>3, <1>5 DEF RingInv

LEMMA KeyEventKeeps ==
  ASSUME RingInv, NEW k \in HostKeys, NEW down \in BOOLEAN, KeyEvent(k, down),
         UNCHANGED <<line, decoder, seen, lastdata_mouse>>
  PROVE  RingInv'
<1>1. CASE UNCHANGED keys
  BY <1>1, KeepRingInv DEF keys
<1>2. CASE Matches(k) # {}
  <2>1. /\ keystate' = IF down THEN keystate \cup {Code(k)} ELSE keystate \ {Code(k)}
        /\ update_flag' = TRUE
    BY <1>2 DEF KeyEvent
  <2>2. Code(k) \in Scancodes
    <3>1. PICK i \in Matches(k) : Code(k) = Keymap[i].scancode
      BY <1>2, LowestMatch
    <3> QED
      BY <3>1 DEF Matches, Scancodes
  <2>3. keystate' \subseteq Scancodes
    <3>1. keystate \subseteq Scancodes
      BY DEF RingInv, Typed
    <3> HIDE DEF Code
    <3>2. CASE down
      BY <2>1, <2>2, <3>1, <3>2
    <3>3. CASE ~down
      BY <2>1, <3>1, <3>3
    <3> QED
      BY <3>2, <3>3
  <2>4. UNCHANGED <<fifo, sent, intact>>
    BY DEF line
  <2>5. Typed'
    BY <2>1, <2>3, <2>4 DEF RingInv, Typed
  <2>6. InStream'
    BY <2>4, Zenon DEF RingInv, InStream
  <2>7. KeysUpToDate'
    BY <2>1 DEF KeysUpToDate
  <2> QED
    BY <2>5, <2>6, <2>7 DEF RingInv
<1> QED
  BY <1>1, <1>2 DEF KeyEvent

LEMMA MouseKeeps ==
  ASSUME RingInv, NEW m \in Moves, MouseEvent(m)
  PROVE  RingInv'
<1>1. UNCHANGED <<keystate, update_flag, decoder, seen>>
  BY DEF MouseEvent, keys, guest
<1>2. CASE UNCHANGED <<line, lastdata_mouse>>
  BY <1>1, <1>2, KeepRingInv
<1>3. CASE \E t \in Bytes \X Bytes \X Bytes :
              /\ Transmit(Encoded(MoveMessage(t), lastdata_mouse), MoveMessage(t))
              /\ IsMove(MoveMessage(t)) /\ MoveMessage(t) \in Sendable /\ lastdata_mouse' = TRUE
  <2>1. PICK t \in Bytes \X Bytes \X Bytes :
              /\ Transmit(Encoded(MoveMessage(t), lastdata_mouse), MoveMessage(t))
              /\ IsMove(MoveMessage(t)) /\ MoveMessage(t) \in Sendable /\ lastdata_mouse' = TRUE
    BY <1>3
  <2> DEFINE v == MoveMessage(t)
  <2> HIDE DEF v
  <2>2. Transmit(Encoded(v, lastdata_mouse), v) /\ IsMove(v) /\ v \in Sendable /\ lastdata_mouse' = TRUE
    BY <2>1, Zenon DEF v
  <2>3. lastdata_mouse' = IsMove(v)
    BY <2>2, Zenon
  <2>4. Typed /\ InStream /\ KeysUpToDate
    BY DEF RingInv
  <2>5. /\ fifo' \in Rings /\ sent' \in Seq(Sendable) /\ intact' \in BOOLEAN /\ lastdata_mouse' \in BOOLEAN
        /\ (intact' => intact) /\ InStream'
    BY <1>1, <2>2, <2>3, <2>4, TransmitFacts
  <2>6. Typed'
    BY <1>1, <2>4, <2>5 DEF Typed
  <2>7. sent' = Append(sent, v) /\ sent \in Seq(Sendable)
    BY <2>2, <2>4 DEF Transmit, Typed
  <2>8. KeyLists' = KeyLists /\ \A j \in KeyLists : sent'[j] = sent[j]
    <3>1. Len(sent') = Len(sent) + 1 /\ sent'[Len(sent) + 1] = v /\ Len(sent) \in Nat
          /\ \A j \in 1..Len(sent) : sent'[j] = sent[j]
      BY <2>7
    <3>2. \A j \in 1..(Len(sent) + 1) : j \in 1..Len(sent) \/ j = Len(sent) + 1
      BY <3>1
    <3>3. \A j \in 1..Len(sent) : j \in 1..(Len(sent) + 1)
      BY <3>1
    <3>4. KeyLists' = {j \in 1..Len(sent') : ~IsMove(sent'[j])}
      BY DEF KeyLists
    <3> HIDE DEF v
    <3>5. KeyLists' = KeyLists
      BY <2>2, <3>1, <3>2, <3>3, <3>4 DEF KeyLists
    <3> QED
      BY <3>1, <3>5 DEF KeyLists
  <2>9. KeysUpToDate'
    <3> SUFFICES ASSUME intact', ~update_flag'
                 PROVE  \/ KeyLists' = {} /\ seen' \in {keystate', Unknown}
                        \/ \E j \in KeyLists' : sent'[j].keys = keystate' /\ \A k \in KeyLists' : k <= j
      BY DEF KeysUpToDate
    <3>1. \/ KeyLists = {} /\ seen \in {keystate, Unknown}
          \/ \E j \in KeyLists : sent[j].keys = keystate /\ \A k \in KeyLists : k <= j
      BY <1>1, <2>4, <2>5 DEF KeysUpToDate
    <3> QED
      BY <1>1, <2>8, <3>1
  <2> QED
    BY <2>5, <2>6, <2>9 DEF RingInv
<1> QED
  BY <1>2, <1>3, MouseSends

LEMMA ScanKeeps ==
  ASSUME RingInv, Scan
  PROVE  RingInv'
<1>1. UNCHANGED <<keystate, decoder, seen>> /\ update_flag' = FALSE
  BY DEF Scan, guest
<1>4. Typed /\ InStream /\ KeysUpToDate
  BY DEF RingInv
<1> DEFINE v == KeysMessage(keystate)
<1>2. CASE ~update_flag /\ UNCHANGED <<line, lastdata_mouse>>
  <2>1. update_flag' = update_flag
    BY <1>1, <1>2, <1>4 DEF Typed
  <2> QED
    BY <1>1, <1>2, <2>1, KeepRingInv
<1>3. CASE /\ Transmit(Encoded(v, lastdata_mouse), v) /\ lastdata_mouse' = FALSE
  <2>2. ~IsMove(v) /\ v \in Sendable /\ v.keys = keystate
    BY <1>4, ScanSends DEF KeysMessage
  <2> HIDE DEF v
  <2>3. lastdata_mouse' = IsMove(v)
    BY <1>3, <2>2 DEF IsMove
  <2>5. /\ fifo' \in Rings /\ sent' \in Seq(Sendable) /\ intact' \in BOOLEAN /\ lastdata_mouse' \in BOOLEAN
        /\ (intact' => intact) /\ InStream'
    BY <1>1, <1>3, <1>4, <2>2, <2>3, TransmitFacts
  <2>6. Typed'
    BY <1>1, <1>4, <2>5 DEF Typed
  <2>7. sent' = Append(sent, v) /\ sent \in Seq(Sendable)
    BY <1>3, <1>4 DEF Transmit, Typed
  <2>8. Len(sent') \in KeyLists' /\ sent'[Len(sent')] = v /\ \A k \in KeyLists' : k <= Len(sent')
    <3>1. Len(sent') = Len(sent) + 1 /\ sent'[Len(sent) + 1] = v /\ Len(sent) \in Nat
      BY <2>7
    <3>2. KeyLists' = {j \in 1..Len(sent') : ~IsMove(sent'[j])}
      BY DEF KeyLists
    <3>3. Len(sent') \in 1..Len(sent')
      BY <3>1
    <3>4. \A k \in KeyLists' : k <= Len(sent')
      BY <3>2, <3>1
    <3>5. sent'[Len(sent')] = v
      BY <3>1
    <3> QED
      BY <2>2, <3>2, <3>3, <3>4, <3>5
  <2>9. KeysUpToDate'
    <3>1. sent'[Len(sent')].keys = keystate'
      BY <1>1, <2>2, <2>8
    <3> QED
      BY <2>8, <3>1 DEF KeysUpToDate
  <2> QED
    BY <2>5, <2>6, <2>9 DEF RingInv
<1> QED
  BY <1>2, <1>3, <1>4, ScanSends

\* The guest hears a byte: of a message that goes on, or the last of one.
LEMMA ReadHears ==
  ASSUME RingInv, ReadData
  PROVE  /\ fifo' \in Rings
         /\ \/ ~intact' /\ UNCHANGED <<guest, sent>>
            \/ /\ intact /\ intact' = TRUE /\ UNCHANGED <<received, seen, sent>>
               /\ Streaming(fifo', sent, decoder', lastdata_mouse)
            \/ /\ intact /\ intact' = TRUE /\ sent # << >> /\ received' = sent[1] /\ sent' = Tail(sent)
               /\ seen' = IF IsMove(sent[1]) THEN seen ELSE sent[1].keys
               /\ Streaming(fifo', sent', decoder', lastdata_mouse)
<1>1. fifo \in Rings /\ sent \in Seq(Sendable) /\ intact \in BOOLEAN
  BY DEF RingInv, Typed
<1>2. fifo' = Got(fifo)
  <2>1. fifo' = [fifo EXCEPT !.readp = (fifo.readp + 1) % BufferSize,
                             !.buflen = IF fifo.buflen > 0 THEN fifo.buflen - 1 ELSE 0]
    BY <1>1 DEF ReadData, Rings
  <2> QED
    BY <2>1 DEF Got
<1>3. fifo' \in Rings
  BY <1>1, <1>2, GetFacts
<1>4. intact' = (intact /\ fifo.buflen > 0)
  BY DEF ReadData
<1>5. CASE ~intact'
  BY <1>3, <1>5, Zenon DEF ReadData
<1>6. CASE intact'
  <2> DEFINE b == fifo.buffer[fifo.readp]
             x == Decoded(decoder, b)
  <2>1. Hear(b)
    BY <1>6, Zenon DEF ReadData
  <2>2. intact = TRUE /\ fifo.buflen > 0 /\ intact' = TRUE
    BY <1>1, <1>4, <1>6
  <2>3. Streaming(fifo, sent, decoder, lastdata_mouse)
    BY <2>2 DEF RingInv, InStream
  <2>4. /\ sent # << >>
        /\ \/ x.mode \notin {"list", "moved"} /\ Streaming(Got(fifo), sent, x, lastdata_mouse)
           \/ /\ ~IsMove(sent[1]) /\ x.mode = "list" /\ sent[1] = KeysMessage(x.keys)
              /\ Streaming(Got(fifo), Tail(sent), Waiting(FALSE), lastdata_mouse)
           \/ /\ IsMove(sent[1]) /\ x.mode = "moved" /\ sent[1] = MoveMessage(SubSeq(x.move, 1, 3))
              /\ Streaming(Got(fifo), Tail(sent), Waiting(TRUE), lastdata_mouse)
    BY <1>1, <2>2, <2>3, StreamRead
  <2>5. /\ x.mode \notin {"list", "moved"} => decoder' = x /\ UNCHANGED <<received, seen, sent>>
        /\ x.mode = "list" => /\ received' = KeysMessage(x.keys) /\ seen' = x.keys
                              /\ decoder' = Fresh /\ sent' = SubSeq(sent, 2, Len(sent))
        /\ x.mode = "moved" => /\ received' = MoveMessage(SubSeq(x.move, 1, 3)) /\ seen' = seen
                               /\ decoder' = [Fresh EXCEPT !.mode = "mouse"]
                               /\ sent' = SubSeq(sent, 2, Len(sent))
    <3> HIDE DEF b
    <3>1. CASE x.mode \notin {"list", "moved"}
      BY <2>1, <3>1 DEF Hear
    <3>2. CASE x.mode = "list"
      BY <2>1, <3>2 DEF Hear
    <3>3. CASE x.mode = "moved"
      BY <2>1, <3>3 DEF Hear
    <3> QED
      BY <3>1, <3>2, <3>3
  <2>6. SubSeq(sent, 2, Len(sent)) = Tail(sent)
    BY <1>1, <2>4
  <2> HIDE DEF x, b
  <2>7. CASE x.mode \notin {"list", "moved"}
    <3>1. Streaming(Got(fifo), sent, x, lastdata_mouse)
      BY <2>4, <2>7
    <3>2. decoder' = x /\ UNCHANGED <<received, seen, sent>>
      BY <2>5, <2>7
    <3> QED
      BY <1>2, <1>3, <2>2, <3>1, <3>2, Zenon
  <2>8. CASE x.mode = "list"
    <3>1. ~IsMove(sent[1]) /\ sent[1] = KeysMessage(x.keys) /\ Streaming(Got(fifo), Tail(sent), Waiting(FALSE), lastdata_mouse)
      BY <2>4, <2>8
    <3>2. received' = KeysMessage(x.keys) /\ seen' = x.keys /\ decoder' = Waiting(FALSE) /\ sent' = Tail(sent)
      BY <2>5, <2>6, <2>8, WaitingIs
    <3>3. sent[1].keys = x.keys
      BY <3>1 DEF KeysMessage
    <3>4. Streaming(fifo', sent', decoder', lastdata_mouse)
      BY <1>2, <3>1, <3>2, Zenon
    <3>5. received' = sent[1] /\ seen' = IF IsMove(sent[1]) THEN seen ELSE sent[1].keys
      BY <3>1, <3>2, <3>3, Zenon
    <3> QED
      BY <1>3, <2>2, <2>4, <3>2, <3>4, <3>5, Zenon
  <2>9. CASE x.mode = "moved"
    <3>1. IsMove(sent[1]) /\ sent[1] = MoveMessage(SubSeq(x.move, 1, 3))
          /\ Streaming(Got(fifo), Tail(sent), Waiting(TRUE), lastdata_mouse)
      BY <2>4, <2>9
    <3>2. received' = MoveMessage(SubSeq(x.move, 1, 3)) /\ seen' = seen
          /\ decoder' = Waiting(TRUE) /\ sent' = Tail(sent)
      BY <2>5, <2>6, <2>9, WaitingIs
    <3>4. Streaming(fifo', sent', decoder', lastdata_mouse)
      BY <1>2, <3>1, <3>2, Zenon
    <3>5. received' = sent[1] /\ seen' = IF IsMove(sent[1]) THEN seen ELSE sent[1].keys
      BY <3>1, <3>2, Zenon
    <3> QED
      BY <1>3, <2>2, <2>4, <3>2, <3>4, <3>5, Zenon
  <2> QED
    BY <2>7, <2>8, <2>9
<1> QED
  BY <1>5, <1>6

LEMMA ReadKeeps ==
  ASSUME RingInv, ReadData
  PROVE  RingInv'
<1>1. UNCHANGED <<keystate, update_flag, lastdata_mouse>>
  BY DEF ReadData, keys, mouse
<1>2. /\ keystate \subseteq Scancodes /\ update_flag \in BOOLEAN /\ lastdata_mouse \in BOOLEAN
      /\ sent \in Seq(Sendable)
  BY DEF RingInv, Typed
<1>3. intact' \in BOOLEAN
  BY DEF ReadData
<1>4. CASE ~intact' /\ UNCHANGED <<guest, sent>>
  BY <1>1, <1>2, <1>3, <1>4, ReadHears DEF RingInv, Typed, InStream, KeysUpToDate
<1>5. CASE /\ intact /\ intact' = TRUE /\ UNCHANGED <<received, seen, sent>>
           /\ Streaming(fifo', sent, decoder', lastdata_mouse)
  <2>1. Typed'
    BY <1>1, <1>2, <1>3, <1>5, ReadHears DEF Typed
  <2>2. InStream'
    BY <1>1, <1>5, Zenon DEF InStream
  <2>3. KeyLists' = KeyLists
    BY <1>5 DEF KeyLists
  <2>4. KeysUpToDate'
    BY <1>1, <1>5, <2>3, Zenon DEF RingInv, KeysUpToDate
  <2> QED
    BY <2>1, <2>2, <2>4 DEF RingInv
<1>6. CASE /\ intact /\ intact' = TRUE /\ sent # << >> /\ received' = sent[1] /\ sent' = Tail(sent)
           /\ seen' = IF IsMove(sent[1]) THEN seen ELSE sent[1].keys
           /\ Streaming(fifo', sent', decoder', lastdata_mouse)
  <2>1. Typed'
    BY <1>1, <1>2, <1>3, <1>6, ReadHears DEF Typed
  <2>2. InStream'
    BY <1>1, <1>6, Zenon DEF InStream
  <2>3. /\ Len(sent) \in Nat /\ Len(sent) >= 1 /\ Len(sent') = Len(sent) - 1
        /\ \A j \in 1..(Len(sent) - 1) : sent'[j] = sent[j + 1]
    BY <1>2, <1>6
  <2>4. KeyLists' = {j \in 1..(Len(sent) - 1) : ~IsMove(sent'[j])}
    BY <2>3 DEF KeyLists
  <2>5. ASSUME NEW j \in KeyLists' PROVE j \in Nat /\ j + 1 \in KeyLists /\ sent'[j] = sent[j + 1]
    <3>1. j \in 1..(Len(sent) - 1) /\ ~IsMove(sent'[j])
      BY <2>4
    <3>2. j + 1 \in 1..Len(sent) /\ sent'[j] = sent[j + 1]
      BY <2>3, <3>1
    <3> QED
      BY <3>1, <3>2 DEF KeyLists
  <2>6. ASSUME NEW j \in KeyLists, j > 1 PROVE j - 1 \in KeyLists' /\ sent'[j - 1] = sent[j]
    <3>1. j \in 1..Len(sent) /\ ~IsMove(sent[j])
      BY DEF KeyLists
    <3>2. j - 1 \in 1..(Len(sent) - 1) /\ (j - 1) + 1 = j
      BY <2>3, <2>6, <3>1
    <3>3. sent'[j - 1] = sent[j]
      BY <2>3, <3>2
    <3> QED
      BY <2>4, <3>1, <3>2, <3>3
  <2>7. KeysUpToDate'
    <3> SUFFICES ASSUME ~update_flag'
                 PROVE  \/ KeyLists' = {} /\ seen' \in {keystate', Unknown}
                        \/ \E j \in KeyLists' : sent'[j].keys = keystate' /\ \A k \in KeyLists' : k <= j
      BY DEF KeysUpToDate
    <3>1. CASE KeyLists = {} /\ seen \in {keystate, Unknown}
      <4>1. KeyLists' = {}
        BY <2>5, <3>1
      <4>2. IsMove(sent[1])
        <5>1. 1 \in 1..Len(sent)
          BY <2>3
        <5> QED
          BY <3>1, <5>1 DEF KeyLists
      <4> QED
        BY <1>1, <1>6, <3>1, <4>1, <4>2
    <3>2. ASSUME NEW j \in KeyLists, sent[j].keys = keystate, \A k \in KeyLists : k <= j
          PROVE  \/ KeyLists' = {} /\ seen' \in {keystate', Unknown}
                 \/ \E i \in KeyLists' : sent'[i].keys = keystate' /\ \A k \in KeyLists' : k <= i
      <4>1. j \in 1..Len(sent) /\ ~IsMove(sent[j])
        BY DEF KeyLists
      <4>2. CASE j = 1
        <5>1. KeyLists' = {}
          <6> SUFFICES ASSUME NEW i \in KeyLists' PROVE FALSE
            OBVIOUS
          <6>1. i + 1 \in KeyLists /\ i \in Nat
            BY <2>5
          <6>2. i + 1 <= 1
            BY <3>2, <4>2, <6>1
          <6>3. i \in 1..(Len(sent) - 1)
            BY <2>4
          <6> QED
            BY <2>3, <6>2, <6>3
        <5>2. seen' = keystate'
          BY <1>1, <1>6, <3>2, <4>1, <4>2
        <5> QED
          BY <5>1, <5>2
      <4>3. CASE j > 1
        <5>1. j - 1 \in KeyLists' /\ sent'[j - 1].keys = keystate'
          BY <1>1, <2>6, <3>2, <4>3
        <5>2. ASSUME NEW k \in KeyLists' PROVE k <= j - 1
          <6>1. k \in Nat /\ k + 1 \in KeyLists
            BY <2>5
          <6>2. k + 1 <= j
            BY <3>2, <6>1
          <6> QED
            BY <2>3, <4>1, <6>1, <6>2
        <5> QED
          BY <5>1, <5>2
      <4> QED
        BY <2>3, <4>1, <4>2, <4>3
    <3> QED
      BY <1>1, <1>6, <3>1, <3>2 DEF RingInv, KeysUpToDate
  <2> QED
    BY <2>1, <2>2, <2>7 DEF RingInv
<1> QED
  BY <1>4, <1>5, <1>6, ReadHears

LEMMA FlushKeeps ==
  ASSUME ~GuestResetsMouse, RingInv, Flush, UNCHANGED <<keystate, update_flag, lastdata_mouse>>
  PROVE  RingInv'
<1>1. /\ fifo' = [fifo EXCEPT !.readp = 0, !.writep = 0, !.buflen = 0]
      /\ sent' = << >> /\ intact' = TRUE /\ decoder' = Fresh
      /\ seen' = IF intact /\ sent = << >> THEN seen ELSE Unknown
      /\ ~lastdata_mouse
  BY DEF Flush
<1>2. fifo \in Rings /\ lastdata_mouse = FALSE /\ keystate \subseteq Scancodes /\ update_flag \in BOOLEAN
  BY <1>1 DEF RingInv, Typed
<1>3. fifo' \in Rings /\ fifo'.readp = 0 /\ fifo'.writep = 0 /\ fifo'.buflen = 0
  <2>1. 0 \in 0..(BufferSize - 1) /\ 0 \in 0..BufferSize
    BY Size
  <2> QED
    BY <1>1, <1>2, <2>1 DEF Rings
<1>4. Typed'
  <2>1. sent' \in Seq(Sendable)
    BY <1>1
  <2> QED
    BY <1>1, <1>2, <1>3, <2>1 DEF Typed
<1>5. InStream'
  <2>1. Streaming(fifo', << >>, Fresh, FALSE)
    BY <1>3, StreamEmpty
  <2> QED
    BY <1>1, <1>2, <2>1, Zenon DEF InStream
<1>6. KeysUpToDate'
  <2>1. KeyLists' = {}
    BY <1>1 DEF KeyLists
  <2>2. CASE intact /\ sent = << >>
    <3>1. KeyLists = {}
      BY <2>2 DEF KeyLists
    <3> QED
      BY <1>1, <2>1, <2>2, <3>1 DEF RingInv, KeysUpToDate
  <2>3. CASE ~(intact /\ sent = << >>)
    BY <1>1, <2>1, <2>3 DEF KeysUpToDate
  <2> QED
    BY <2>2, <2>3
<1> QED
  BY <1>4, <1>5, <1>6 DEF RingInv

LEMMA NextKeepsRingInv ==
  ASSUME ~GuestResetsMouse
  PROVE  RingInv /\ [Next]_kvars => RingInv'
<1> SUFFICES ASSUME RingInv, [Next]_kvars PROVE RingInv'
  OBVIOUS
<1>1. ASSUME NEW k \in HostKeys, Press(k) PROVE RingInv'
  BY <1>1, KeyEventKeeps DEF Press, mouse, guest
<1>2. ASSUME NEW k \in HostKeys, Release(k) PROVE RingInv'
  BY <1>2, KeyEventKeeps DEF Release, mouse, guest
<1>3. CASE Alt
  BY <1>3, KeepRingInv DEF Alt, keys, mouse, guest
<1>4. ASSUME NEW m \in Moves, MouseEvent(m) PROVE RingInv'
  BY <1>4, MouseKeeps
<1>5. CASE Scan
  BY <1>5, ScanKeeps
<1>6. CASE ReadData
  BY <1>6, ReadKeeps
<1>7. ASSUME NEW reset \in BOOLEAN, NEW enable \in BOOLEAN, WriteControl(reset, enable) PROVE RingInv'
  <2>1. UNCHANGED <<keystate, update_flag, lastdata_mouse>>
    BY <1>7 DEF WriteControl, keys, mouse
  <2>2. CASE reset
    <3>1. Flush
      BY <1>7, <2>2, Zenon DEF WriteControl
    <3> QED
      BY <2>1, <3>1, FlushKeeps
  <2>3. CASE ~reset
    <3>1. UNCHANGED <<line, guest>>
      BY <1>7, <2>3, Zenon DEF WriteControl
    <3> QED
      BY <2>1, <3>1, KeepRingInv DEF guest
  <2> QED
    BY <2>2, <2>3
<1>8. CASE WriteReset
  BY <1>8, FlushKeeps DEF WriteReset, keys, mouse
<1>9. ASSUME NEW b \in BOOLEAN, WriteMouseEnable(b) PROVE RingInv'
  BY <1>9, KeepRingInv DEF WriteMouseEnable, keys, guest
<1>10. CASE UNCHANGED kvars
  BY <1>10, KeepRingInv DEF kvars, keys, mouse, guest
<1> QED
  BY <1>1, <1>2, <1>3, <1>4, <1>5, <1>6, <1>7, <1>8, <1>9, <1>10 DEF Next, UserNext, GuestNext

-----------------------------------------------------------------------------
(* The ring as a channel of messages.                                       *)

LEMMA SendableMessages == Sendable \subseteq Messages
<1>1. ASSUME NEW S \in SUBSET Scancodes PROVE KeysMessage(S) \in Messages
  BY DEF KeysMessage, Messages
<1>2. ASSUME NEW t \in Bytes \X Bytes \X Bytes PROVE MoveMessage(t) \in Messages
  BY DEF MoveMessage, Messages
<1> QED
  BY <1>1, <1>2 DEF Sendable

LEMMA QuietLine ==
  ASSUME UNCHANGED <<line, received>>
  PROVE  UNCHANGED Channel!mcvars
  BY DEF line, Channel!mcvars

\* A message put in the ring is sent, or with it all are lost.
LEMMA TransmitStep ==
  ASSUME Typed, NEW bytes, NEW m \in Sendable, Transmit(bytes, m), UNCHANGED received
  PROVE  [Channel!MCNext]_(Channel!mcvars)
<1>1. /\ sent' = Append(sent, m) /\ intact' = (intact /\ fifo.buflen + Len(bytes) <= BufferSize)
      /\ sent \in Seq(Sendable) /\ intact \in BOOLEAN
  BY DEF Transmit, Typed
<1>2. CASE intact = TRUE /\ intact' = TRUE
  <2>1. /\ Len(sent') = Len(sent) + 1 /\ SubSeq(sent', 1, Len(sent)) = sent
        /\ sent'[Len(sent')] = m /\ m \in Messages
    BY <1>1, SendableMessages
  <2>2. Channel!Send
    BY <1>2, <2>1 DEF Channel!Send
  <2> QED
    BY <2>2 DEF Channel!MCNext
<1>3. CASE intact' = FALSE
  <2>1. Channel!DropAll
    BY <1>3 DEF Channel!DropAll
  <2> QED
    BY <2>1 DEF Channel!MCNext
<1>4. intact' \in BOOLEAN /\ (intact' => intact)
  <2> DEFINE fits == fifo.buflen + Len(bytes) <= BufferSize
  <2>1. intact' = (intact /\ fits)
    BY <1>1
  <2> HIDE DEF fits
  <2> QED
    BY <1>1, <2>1
<1> QED
  BY <1>1, <1>2, <1>3, <1>4

LEMMA ReadStep ==
  ASSUME RingInv, ReadData
  PROVE  [Channel!MCNext]_(Channel!mcvars)
<1>1. sent \in Seq(Sendable) /\ intact \in BOOLEAN /\ intact' \in BOOLEAN
  BY DEF RingInv, Typed, ReadData
<1>2. CASE ~intact' /\ UNCHANGED <<guest, sent>>
  <2>1. Channel!DropAll
    BY <1>2 DEF Channel!DropAll, guest
  <2> QED
    BY <2>1 DEF Channel!MCNext
<1>3. CASE intact /\ intact' = TRUE /\ UNCHANGED <<received, seen, sent>>
  BY <1>3 DEF Channel!mcvars
<1>4. CASE intact /\ intact' = TRUE /\ sent # << >> /\ received' = sent[1] /\ sent' = Tail(sent)
  <2>1. Channel!Receive
    BY <1>1, <1>4 DEF Channel!Receive
  <2> QED
    BY <2>1 DEF Channel!MCNext
<1> QED
  BY <1>2, <1>3, <1>4, ReadHears

LEMMA FlushStep ==
  ASSUME Flush
  PROVE  [Channel!MCNext]_(Channel!mcvars)
<1>1. Channel!DropAll
  BY DEF Flush, Channel!DropAll
<1> QED
  BY <1>1 DEF Channel!MCNext

LEMMA StepsOfChannel == RingInv /\ [Next]_kvars => [Channel!MCNext]_(Channel!mcvars)
<1> SUFFICES ASSUME RingInv, [Next]_kvars PROVE [Channel!MCNext]_(Channel!mcvars)
  OBVIOUS
<1>1. CASE UNCHANGED <<line, received>>
  BY <1>1, QuietLine
<1>2. Typed
  BY DEF RingInv
<1>3. ASSUME NEW k \in HostKeys, Press(k) \/ Release(k) PROVE UNCHANGED <<line, received>>
  BY <1>3 DEF Press, Release, guest
<1>4. CASE Alt
  BY <1>1, <1>4 DEF Alt, guest
<1>5. ASSUME NEW m \in Moves, MouseEvent(m) PROVE [Channel!MCNext]_(Channel!mcvars)
  <2>1. UNCHANGED received
    BY <1>5 DEF MouseEvent, guest
  <2> QED
    BY <1>1, <1>2, <1>5, <2>1, MouseSends, TransmitStep
<1>6. CASE Scan
  <2>1. UNCHANGED received
    BY <1>6 DEF Scan, guest
  <2> QED
    BY <1>1, <1>2, <1>6, <2>1, ScanSends, TransmitStep
<1>7. CASE ReadData
  BY <1>7, ReadStep
<1>8. ASSUME NEW reset \in BOOLEAN, NEW enable \in BOOLEAN, WriteControl(reset, enable)
      PROVE  [Channel!MCNext]_(Channel!mcvars)
  <2>1. CASE reset
    <3>1. Flush
      BY <1>8, <2>1, Zenon DEF WriteControl
    <3> QED
      BY <3>1, FlushStep
  <2>2. CASE ~reset
    <3>1. UNCHANGED <<line, guest>>
      BY <1>8, <2>2, Zenon DEF WriteControl
    <3> QED
      BY <1>1, <3>1 DEF guest
  <2> QED
    BY <2>1, <2>2
<1>9. CASE WriteReset
  BY <1>9, FlushStep DEF WriteReset
<1>10. ASSUME NEW b \in BOOLEAN, WriteMouseEnable(b) PROVE UNCHANGED <<line, received>>
  BY <1>10 DEF WriteMouseEnable, guest
<1>11. CASE UNCHANGED kvars
  BY <1>1, <1>11 DEF kvars, guest
<1> QED
  BY <1>1, <1>3, <1>4, <1>5, <1>6, <1>7, <1>8, <1>9, <1>10, <1>11 DEF Next, UserNext, GuestNext

\* Whatever the user does, whenever the scan runs and however the guest reads,
\* until the ring runs over or the guest reads an empty one, each key list and
\* each mouse event arrives whole, in order and once; after that, from the next
\* reset on, if the guest resets the keyboard while the mouse is silent
\* (keyboard_scan, mouse_event, keyboard_read, keyboard_write).
THEOREM RingIsMessageChannel ==
  ASSUME ~GuestResetsMouse
  PROVE  Spec => ImplementsChannel
<1>1. Init => Channel!MCInit
  BY DEF Init, Channel!MCInit
<1>2. RingInv /\ [Next]_kvars => [Channel!MCNext]_(Channel!mcvars)
  BY StepsOfChannel
<1> QED
  BY <1>1, <1>2, InitRingInv, NextKeepsRingInv, PTL DEF Spec, ImplementsChannel, Channel!MCSpec

\* When the guest has read all there is and no scan is due, it knows which keys
\* are down, unless a reset, while the mouse was silent, threw key lists away
\* (keyboard_event, keyboard_scan).
THEOREM GuestKnowsKeys ==
  ASSUME ~GuestResetsMouse
  PROVE  Spec => []GuestSeesKeys
<1>1. RingInv => GuestSeesKeys
  <2> SUFFICES ASSUME RingInv, intact, fifo.buflen = 0, ~update_flag PROVE seen \in {keystate, Unknown}
    BY DEF GuestSeesKeys
  <2>1. sent = << >>
    BY StreamRead0 DEF RingInv, InStream, Typed
  <2>2. KeyLists = {}
    BY <2>1 DEF KeyLists
  <2> QED
    BY <2>2 DEF RingInv, KeysUpToDate
<1> QED
  BY <1>1, InitRingInv, NextKeepsRingInv, PTL DEF Spec

-----------------------------------------------------------------------------
(* Types.                                                                   *)

RingTyped ==
  /\ fifo \in Rings /\ keystate \subseteq Scancodes
  /\ update_flag \in BOOLEAN /\ lastdata_mouse \in BOOLEAN /\ intact \in BOOLEAN

UserTyped ==
  /\ mouse_enabled \in BOOLEAN /\ rxie \in BOOLEAN /\ held \subseteq HostKeys
  /\ alt \in BOOLEAN /\ events \in 0..MaxEvents

LEMMA TransmitTypes ==
  ASSUME fifo \in Rings, intact \in BOOLEAN, NEW bytes \in Seq(Bytes), NEW m, Transmit(bytes, m)
  PROVE  fifo' \in Rings /\ intact' \in BOOLEAN
<1>1. Put(fifo, bytes) \in Rings
  BY PutFacts
<1> QED
  BY <1>1 DEF Transmit

LEMMA NextKeepsRingTyped == RingTyped /\ [Next]_kvars => RingTyped'
<1> SUFFICES ASSUME RingTyped, [Next]_kvars PROVE RingTyped'
  OBVIOUS
<1>1. ASSUME UNCHANGED <<fifo, intact, keystate, update_flag, lastdata_mouse>> PROVE RingTyped'
  BY <1>1 DEF RingTyped
<1>2. ASSUME NEW k \in HostKeys, NEW down \in BOOLEAN, KeyEvent(k, down),
             UNCHANGED <<mouse, line>>
      PROVE  RingTyped'
  <2>1. Matches(k) # {} => Code(k) \in Scancodes
    BY LowestMatch DEF Matches, Scancodes
  <2> QED
    BY <1>2, <2>1 DEF KeyEvent, keys, mouse, line, RingTyped
<1>3. ASSUME NEW k \in HostKeys, Press(k) \/ Release(k) PROVE RingTyped'
  BY <1>2, <1>3 DEF Press, Release
<1>4. ASSUME NEW m \in Moves, MouseEvent(m) PROVE RingTyped'
  <2>1. CASE UNCHANGED <<line, lastdata_mouse>>
    BY <1>1, <1>4, <2>1 DEF MouseEvent, keys, line
  <2>2. ASSUME NEW t \in Bytes \X Bytes \X Bytes,
               Transmit(Encoded(MoveMessage(t), lastdata_mouse), MoveMessage(t)), lastdata_mouse' = TRUE
        PROVE  RingTyped'
    <3>1. Encoded(MoveMessage(t), lastdata_mouse) \in Seq(Bytes)
      BY EncodedMove DEF RingTyped
    <3>2. fifo' \in Rings /\ intact' \in BOOLEAN
      BY <2>2, <3>1, TransmitTypes DEF RingTyped
    <3> QED
      BY <1>4, <2>2, <3>2 DEF MouseEvent, keys, RingTyped
  <2> QED
    BY <1>4, <2>1, <2>2, MouseSends
<1>5. CASE Scan
  <2>1. Begin \o KeyList(keystate) \in Seq(Bytes)
    BY EncodedKeys DEF RingTyped, Begin
  <2>2. fifo' \in Rings /\ intact' \in BOOLEAN /\ lastdata_mouse' \in BOOLEAN
    <3>1. CASE update_flag
      BY <1>5, <2>1, <3>1, TransmitTypes DEF Scan, RingTyped
    <3>2. CASE ~update_flag
      BY <1>5, <3>2 DEF Scan, line, RingTyped
    <3> QED
      BY <3>1, <3>2
  <2> QED
    BY <1>5, <2>2 DEF Scan, RingTyped
<1>6. CASE ReadData
  <2>1. fifo' = Got(fifo) /\ intact' = (intact /\ fifo.buflen > 0)
    BY <1>6 DEF ReadData, Got
  <2> QED
    BY <1>6, <2>1, GetFacts DEF ReadData, keys, mouse, RingTyped
<1>7. ASSUME Flush, UNCHANGED <<keys, mouse>> PROVE RingTyped'
  <2>1. 0 \in 0..(BufferSize - 1) /\ 0 \in 0..BufferSize
    BY Size
  <2> QED
    BY <1>7, <2>1 DEF Flush, keys, mouse, RingTyped, Rings
<1>8. ASSUME NEW reset \in BOOLEAN, NEW enable \in BOOLEAN, WriteControl(reset, enable) PROVE RingTyped'
  <2>1. CASE reset
    BY <1>7, <1>8, <2>1 DEF WriteControl
  <2>2. CASE ~reset
    BY <1>1, <1>8, <2>2 DEF WriteControl, keys, mouse, line
  <2> QED
    BY <2>1, <2>2
<1>9. CASE WriteReset
  BY <1>7, <1>9 DEF WriteReset
<1>10. CASE Alt \/ (\E b \in BOOLEAN : WriteMouseEnable(b)) \/ UNCHANGED kvars
  BY <1>1, <1>10 DEF Alt, WriteMouseEnable, kvars, keys, mouse, line
<1> QED
  BY <1>3, <1>4, <1>5, <1>6, <1>8, <1>9, <1>10 DEF Next, UserNext, GuestNext

LEMMA NextKeepsUserTyped == UserTyped /\ [Next]_kvars => UserTyped'
<1> SUFFICES ASSUME UserTyped, [Next]_kvars PROVE UserTyped'
  OBVIOUS
<1>1. ASSUME MayAct PROVE events' \in 0..MaxEvents
  BY <1>1, KeyboardAssumption DEF MayAct, UserTyped
<1>2. ASSUME NEW k \in HostKeys, Press(k) \/ Release(k) PROVE UserTyped'
  BY <1>1, <1>2 DEF Press, Release, mouse, UserTyped
<1>3. CASE Alt
  BY <1>1, <1>3 DEF Alt, mouse, UserTyped
<1>4. ASSUME NEW m \in Moves, MouseEvent(m) PROVE UserTyped'
  BY <1>1, <1>4 DEF MouseEvent, UserTyped
<1>5. CASE Scan
  BY <1>5 DEF Scan, user, UserTyped
<1>6. CASE GuestNext
  BY <1>6 DEF GuestNext, ReadData, WriteControl, WriteReset, WriteMouseEnable, mouse, user, UserTyped
<1>7. CASE UNCHANGED kvars
  BY <1>7 DEF kvars, mouse, user, UserTyped
<1> QED
  BY <1>2, <1>3, <1>4, <1>5, <1>6, <1>7 DEF Next, UserNext

\* The pointers stay in the ring and what lies in it are bytes, also when it has
\* been written over or read while empty.
THEOREM KeyboardTypes == Spec => []TypeOK
<1>1. Init => UserTyped
  <2>1. 0 \in 0..MaxEvents
    BY KeyboardAssumption
  <2> QED
    BY <2>1 DEF Init, UserTyped
<1>2. Init => RingTyped
  BY InitRingInv DEF RingInv, Typed, RingTyped
<1>3. RingTyped /\ UserTyped => TypeOK
  BY DEF RingTyped, UserTyped, TypeOK, Rings
<1> QED
  BY <1>1, <1>2, <1>3, NextKeepsRingTyped, NextKeepsUserTyped, PTL DEF Spec

-----------------------------------------------------------------------------
(* The interrupts, of which the keyboard's is one: Interrupts is this        *)
(* keyboard with the clock, the other devices and the CPU.                  *)

CONSTANTS MaxRaises, MaxTicks, LongHandlers
VARIABLES latch, clrsint, ticks, presented, pending, raises, cpu, owed

I == INSTANCE Interrupts

\* The masks that a handler interrupts: the clock's is none of them.
Low == {0, 2, 3, 4}

CpuTyped ==
  /\ cpu \in [mask : {0} \cup I!Levels, frames : Seq(Low),
              served : SUBSET I!Levels, held_over : BOOLEAN]
  /\ presented \in {0} \cup I!Levels
  /\ latch \in BOOLEAN /\ clrsint \in BOOLEAN /\ owed \in BOOLEAN

\* A tick that is latched, or presented, is one that the clock's handler has
\* yet to take; but for the one it was taken for, until it has dismissed it, and
\* for the level on the CPU's lines, until the slice is over.
TickInv ==
  /\ CpuTyped
  /\ ~clrsint => ~latch
  /\ latch /\ (I!InHandler(6) => 6 \in cpu.served) => owed
  /\ presented = 6 /\ (I!InHandler(6) => 6 \in cpu.served /\ ~cpu.held_over) => owed

LEMMA InitTickInv == I!Init => TickInv
<1> SUFFICES ASSUME I!Init PROVE TickInv
  OBVIOUS
<1>1. /\ latch = FALSE /\ clrsint = FALSE /\ owed = FALSE /\ presented = 0
      /\ cpu = [mask |-> 0, frames |-> << >>, served |-> {}, held_over |-> FALSE]
  BY DEF I!Init
<1>2. << >> \in Seq(Low)
  OBVIOUS
<1>3. CpuTyped
  BY <1>1, <1>2 DEF CpuTyped
<1> QED
  BY <1>1, <1>3 DEF TickInv

LEMMA FrameLow ==
  ASSUME CpuTyped, cpu.frames # << >>
  PROVE  /\ cpu.frames[Len(cpu.frames)] \in Low
         /\ SubSeq(cpu.frames, 1, Len(cpu.frames) - 1) \in Seq(Low)
<1> DEFINE f == cpu.frames
<1>1. f \in Seq(Low) /\ f # << >>
  BY DEF CpuTyped
<1> HIDE DEF f
<1>2. Len(f) \in 1..Len(f) /\ f[Len(f)] \in Low
  BY <1>1
<1>3. SubSeq(f, 1, Len(f) - 1) \in Seq(Low)
  BY <1>1
<1> QED
  BY <1>2, <1>3 DEF f

LEMMA NextTickInv == ASSUME LongHandlers, TickInv, [I!Next]_(I!vars) PROVE TickInv'
<1>1. ASSUME UNCHANGED <<latch, clrsint, owed, presented, cpu>> PROVE TickInv'
  BY <1>1 DEF TickInv, CpuTyped, I!InHandler
<1>2. CASE I!Slice
  <2>1. /\ cpu' = [cpu EXCEPT !.held_over = FALSE] /\ presented' \in {0} \cup I!Levels
        /\ (presented' = 6 => latch) /\ UNCHANGED <<latch, clrsint, owed>>
    BY <1>2 DEF I!Slice, I!Highest, I!Levels, I!clock
  <2>2. /\ CpuTyped' /\ cpu'.mask = cpu.mask /\ cpu'.frames = cpu.frames /\ cpu'.served = cpu.served
    BY <2>1 DEF TickInv, CpuTyped
  <2> QED
    BY <2>1, <2>2 DEF TickInv, I!InHandler
<1>3. CASE I!Tick
  BY <1>3 DEF I!Tick, TickInv, CpuTyped, I!InHandler
<1>4. CASE I!Take
  <2>1. /\ presented > cpu.mask
        /\ cpu' = [cpu EXCEPT !.mask = presented, !.frames = Append(cpu.frames, cpu.mask),
                        !.served = cpu.served \ {presented}]
        /\ owed' = (owed /\ presented # 6)
        /\ UNCHANGED <<latch, clrsint, presented>>
    BY <1>4 DEF I!Take
  <2>2. cpu.mask \in Low /\ cpu.mask # 6 /\ presented \in I!Levels
    BY <2>1 DEF TickInv, CpuTyped, I!Levels, Low
  <2> DEFINE f == Append(cpu.frames, cpu.mask)
             s == cpu.served \ {presented}
  <2>3. f \in Seq(Low) /\ f # << >> /\ s \in SUBSET I!Levels /\ presented \notin s
    BY <2>2 DEF TickInv, CpuTyped
  <2>4. cpu' = [cpu EXCEPT !.mask = presented, !.frames = f, !.served = s]
    BY <2>1
  <2> HIDE DEF f, s
  <2>5. cpu'.mask = presented /\ cpu'.frames = f /\ cpu'.served = s
    BY <2>4 DEF TickInv, CpuTyped
  <2>6. CpuTyped'
    BY <2>1, <2>2, <2>3, <2>4 DEF TickInv, CpuTyped
  <2>7. ~I!InHandler(6)
    BY <2>2 DEF I!InHandler
  <2>8. CASE presented = 6
    <3>1. I!InHandler(6)' /\ ~(6 \in cpu'.served)
      BY <2>3, <2>5, <2>8 DEF I!InHandler
    <3> QED
      BY <2>1, <2>6, <3>1 DEF TickInv
  <2>9. CASE presented # 6
    <3>1. ~I!InHandler(6)'
      BY <2>5, <2>9 DEF I!InHandler
    <3> QED
      BY <2>1, <2>6, <2>7, <2>9, <3>1 DEF TickInv
  <2> QED
    BY <2>8, <2>9
<1>5. CASE I!Dismiss
  <2>1. /\ I!InHandler(6) /\ 6 \notin cpu.served /\ UNCHANGED <<presented, cpu>>
        /\ clrsint' = FALSE /\ latch' = FALSE /\ owed' = FALSE
    BY <1>5 DEF I!Dismiss, I!WriteMcr
  <2> QED
    BY <2>1 DEF TickInv, CpuTyped, I!InHandler
<1>6. CASE I!Rearm
  <2>1. /\ ~clrsint /\ clrsint' = TRUE /\ latch' = latch /\ owed' = owed /\ presented' = presented
        /\ (I!InHandler(6) /\ I!Serve(6)) \/ (I!AtBase /\ UNCHANGED cpu)
    BY <1>6 DEF I!Rearm, I!WriteMcr, TickInv, CpuTyped
  <2>2. CASE I!InHandler(6) /\ I!Serve(6)
    <3>1. /\ cpu' = [cpu EXCEPT !.served = cpu.served \cup {6}, !.held_over = TRUE]
          /\ cpu.served \cup {6} \in SUBSET I!Levels
      BY <2>2 DEF I!Serve, TickInv, CpuTyped, I!Levels
    <3>2. CpuTyped' /\ I!InHandler(6)' /\ cpu'.held_over = TRUE
      BY <2>1, <2>2, <3>1 DEF TickInv, CpuTyped, I!InHandler
    <3> QED
      BY <2>1, <3>2 DEF TickInv
  <2>3. CASE I!AtBase /\ UNCHANGED cpu
    BY <2>1, <2>3 DEF TickInv, CpuTyped, I!InHandler
  <2> QED
    BY <2>1, <2>2, <2>3
<1>7. ASSUME NEW l \in I!Levels \ {6}, I!InHandler(l), I!Serve(l),
             UNCHANGED <<latch, clrsint, owed, presented>>
      PROVE  TickInv'
  <2>1. /\ cpu' = [cpu EXCEPT !.served = cpu.served \cup {l}, !.held_over = TRUE]
        /\ cpu.served \cup {l} \in SUBSET I!Levels
    BY <1>7 DEF I!Serve, TickInv, CpuTyped
  <2>2. CpuTyped' /\ ~I!InHandler(6) /\ ~I!InHandler(6)'
    BY <1>7, <2>1 DEF TickInv, CpuTyped, I!InHandler
  <2> QED
    BY <1>7, <2>2 DEF TickInv
<1>8. ASSUME NEW d \in I!Devices, I!ServeDevice(d) PROVE TickInv'
  <2> DEFINE l == IF d = "serial" THEN 4 ELSE 2
  <2>1. I!InHandler(l) /\ I!Serve(l) /\ UNCHANGED <<latch, clrsint, owed, presented>>
    BY <1>8 DEF I!ServeDevice, I!clock
  <2>2. l \in I!Levels \ {6}
    BY DEF I!Levels
  <2> QED
    BY <1>7, <2>1, <2>2
<1>9. CASE I!ServeKeyboard
  <2>1. 3 \in I!Levels \ {6}
    BY DEF I!Levels
  <2> QED
    BY <1>7, <1>9, <2>1 DEF I!ServeKeyboard, I!clock
<1>10. CASE I!Return
  <2> DEFINE m == cpu.frames[Len(cpu.frames)]
             f == SubSeq(cpu.frames, 1, Len(cpu.frames) - 1)
  <2>1. /\ cpu.frames # << >> /\ (cpu.mask \in cpu.served \/ I!Idle(cpu.mask)) /\ ~cpu.held_over
        /\ cpu' = [cpu EXCEPT !.mask = m, !.frames = f]
        /\ UNCHANGED <<latch, clrsint, owed, presented>>
    BY <1>10 DEF I!Return, I!clock
  <2>2. m \in Low /\ f \in Seq(Low) /\ m # 6 /\ m \in {0} \cup I!Levels
    BY <2>1, FrameLow DEF TickInv, Low, I!Levels
  <2>3. I!InHandler(6) => 6 \in cpu.served
    BY <2>1 DEF I!InHandler, I!Idle
  <2> HIDE DEF m, f
  <2>4. CpuTyped' /\ cpu'.mask = m
    BY <2>1, <2>2 DEF TickInv, CpuTyped
  <2>5. ~I!InHandler(6)'
    BY <2>2, <2>4 DEF I!InHandler
  <2> QED
    BY <2>1, <2>3, <2>4, <2>5 DEF TickInv
<1>11. ASSUME NEW l \in {0, 6}, I!SetMask(l) PROVE TickInv'
  <2>1. /\ cpu.frames = << >> /\ cpu' = [cpu EXCEPT !.mask = l]
        /\ UNCHANGED <<latch, clrsint, owed, presented>>
    BY <1>11 DEF I!SetMask, I!AtBase, I!clock
  <2>2. CpuTyped' /\ cpu'.frames = << >>
    BY <2>1 DEF TickInv, CpuTyped, I!Levels
  <2> QED
    BY <2>1, <2>2 DEF TickInv, I!InHandler
<1>12. CASE I!RaiseDisc \/ I!User \/ I!EnableKeyboard \/ UNCHANGED I!vars
  BY <1>1, <1>12 DEF I!RaiseDisc, I!User, I!EnableKeyboard, I!vars, I!clock
<1> QED
  BY <1>2, <1>3, <1>4, <1>5, <1>6, <1>8, <1>9, <1>10, <1>11, <1>12 DEF I!Next, I!Handlers

\* If handlers end in a later slice than they serve in, the clock's handler runs
\* once for a tick (CLRSINT of memory.c, the re-evaluation of each slice of main.c).
THEOREM ClockOncePerTick == ASSUME LongHandlers PROVE I!Spec => I!OneClockPerTick
<1>1. TickInv /\ [I!Next]_(I!vars) => [I!Take /\ presented = 6 => owed]_(I!vars)
  <2> SUFFICES ASSUME TickInv, I!Take, presented = 6 PROVE owed
    OBVIOUS
  <2>1. ~I!InHandler(6)
    BY DEF I!Take, I!InHandler
  <2> QED
    BY <2>1 DEF TickInv
<1> QED
  BY <1>1, InitTickInv, NextTickInv, PTL DEF I!Spec, I!OneClockPerTick
=============================================================================
