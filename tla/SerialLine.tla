----------------------------- MODULE SerialLine -----------------------------
(***************************************************************************)
(* What the receiving side of a serial port promises: the bytes come out   *)
(* of the data register in the order they were typed, each once.  Bytes    *)
(* are lost only where the guest resets the channel, and then it is the    *)
(* oldest that are lost, those that had reached the controller.            *)
(***************************************************************************)
EXTENDS Naturals, Sequences, SequencesExt

VARIABLES incoming, \* typed and not read, the oldest first
          latest,   \* the last byte read
          resets    \* channel resets so far

slvars == <<incoming, latest, resets>>

SLInit == incoming = << >> /\ resets = 0

Type ==
  /\ incoming' # << >> /\ Front(incoming') = incoming
  /\ UNCHANGED <<latest, resets>>

Read ==
  /\ incoming # << >>
  /\ latest' = Head(incoming) /\ incoming' = Tail(incoming)
  /\ UNCHANGED resets

Reset ==
  /\ resets' = resets + 1
  /\ \E n \in 0..Len(incoming) : incoming' = SubSeq(incoming, n + 1, Len(incoming))
  /\ UNCHANGED latest

SLNext == Type \/ Read \/ Reset

SLSpec == SLInit /\ [][SLNext]_slvars
=============================================================================
