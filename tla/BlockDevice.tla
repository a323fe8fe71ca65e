---------------------------- MODULE BlockDevice ----------------------------
(***************************************************************************)
(* What a disc controller promises to the one who moves words to and from  *)
(* it: a request names a run of sectors; a read hands over the words of    *)
(* those sectors in order; a write reaches the disc once, whole, at the    *)
(* sectors the request named, with the words accepted for it, and only if  *)
(* all of them came.  A request that is given up leaves the disc alone, and *)
(* so does one with words that the medium has no room for (Fits).          *)
(***************************************************************************)
EXTENDS Naturals, Sequences

CONSTANTS Drives,     \* the drives of the controller
          SecWords,   \* 16-bit words in a sector
          Words,      \* the values a word may take
          Fits(_, _, _) \* whether a drive takes these words from this sector on

VARIABLES disk,   \* for each drive, the words of its sectors in LBA order
          req,    \* the request being served
          moved   \* the words handed over or accepted for the latest request

bdvars == <<disk, req, moved>>

NoRequest == [op |-> "none", drive |-> 0, lba |-> 0, n |-> 0]
Requests == [op : {"none", "seek", "read", "write", "format", "address"}, drive : Drives,
             lba : Nat, n : Nat]

Size(r) == r.n * SecWords

\* s with the words of t laid over it from position k + 1 on.
Overwrite(s, k, t) ==
  [i \in 1..(IF k + Len(t) > Len(s) THEN k + Len(t) ELSE Len(s)) |->
     IF i \in (k + 1)..(k + Len(t)) THEN t[i - k] ELSE s[i]]

BDInit == req = NoRequest /\ moved = << >>

Begin == req' \in Requests /\ moved' = << >> /\ UNCHANGED disk

\* The next word of a read; with the last one the request is over.
Deliver ==
  /\ req.op = "read" /\ Len(moved) < Size(req)
  /\ moved' = Append(moved, disk[req.drive][req.lba * SecWords + Len(moved) + 1])
  /\ req' = IF Len(moved) + 1 = Size(req) THEN NoRequest ELSE req
  /\ UNCHANGED disk

\* A word of the ID field under the head, which is not part of a sector.
Identify ==
  /\ req.op = "address"
  /\ \E w \in Words : moved' = Append(moved, w)
  /\ req' \in {req, NoRequest}
  /\ UNCHANGED disk

\* A word of a write, short of the last.
Accept ==
  /\ req.op \in {"write", "format"} /\ Len(moved) + 1 < Size(req)
  /\ \E w \in Words : moved' = Append(moved, w)
  /\ UNCHANGED <<disk, req>>

\* The last word: the sectors of the request take their new contents.
Store ==
  /\ req.op \in {"write", "format"} /\ Len(moved) + 1 = Size(req)
  /\ \E w \in Words : moved' = Append(moved, w)
  /\ disk' = IF req.op = "format" \/ ~Fits(req.drive, req.lba, moved') THEN disk
             ELSE [disk EXCEPT ![req.drive] =
                     Overwrite(@, req.lba * SecWords, moved')]
  /\ req' = NoRequest

\* A request is given up, or one that is over is forgotten with its words.
GiveUp == req' = NoRequest /\ moved' \in {moved, << >>} /\ UNCHANGED disk

BDNext == Begin \/ Deliver \/ Identify \/ Accept \/ Store \/ GiveUp

BDSpec == BDInit /\ [][BDNext]_bdvars
=============================================================================
