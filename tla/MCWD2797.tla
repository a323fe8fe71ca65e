------------------------------ MODULE MCWD2797 ------------------------------
(* The floppy controller with three small discs: a raw image, an ImageDisk  *)
(* file with interleaved tracks and a compressed sector, and a protected    *)
(* raw image.  At no place do two discs have the same word.  One of the     *)
(* words the guest writes can fill a compressed sector.                     *)
EXTENDS WD2797

AllCommands == Type1 \cup Reads \cup Writes
                 \cup {"READ_ADDRESS", "READ_TRACK", "FORCE_INTERRUPT"}

Places == Tracks * Heads * Spt
Size == Places * SecWords
RawFile == [format |-> "raw", words |-> [i \in 1..Size |-> i]]
ProtectedFile == [format |-> "raw", words |-> [i \in 1..Size |-> Size + 1 - i]]
ImdFile ==
  [ format |-> "IMD",
    maps |-> [t \in 1..(Tracks * Heads) |-> [i \in 1..Spt |-> IF t % 2 = 1 THEN Spt + 1 - i ELSE i]],
    records |-> [r \in 1..Places |->
                   IF r = 1 THEN [compressed |-> TRUE, words |-> [i \in 1..SecWords |-> 257 * 229]]
                   ELSE [compressed |-> FALSE, words |-> [i \in 1..SecWords |-> Size + SecWords * (r - 1) + i]]] ]
Discs == [d \in Drives |-> CASE d = 0 -> RawFile [] d = 1 -> ImdFile [] d = 2 -> ProtectedFile]

MCMemoryWords == [i \in 1..(2 * SecWords) |-> IF i = 1 THEN {257 * 254, 256 * 7 + 254} ELSE {257 * 254}]
IdWords == {256 * t + h : t \in 0..(Tracks - 1), h \in 0..1}
             \cup {256 * s + 2 : s \in 0..(Spt + 1)} \cup {0}
MCWords == MCMemoryWords[1] \cup IdWords \cup 1..(2 * Size) \cup {257 * 229}
=============================================================================
