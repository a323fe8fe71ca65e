--------------------------- MODULE MessageChannel ---------------------------
(***************************************************************************)
(* What a serial line that carries messages promises: the messages sent    *)
(* arrive whole, in order and once.  Those on their way may be dropped all *)
(* together, by a reset at either end.                                     *)
(***************************************************************************)
EXTENDS Naturals, Sequences

CONSTANT Messages

VARIABLES queue,   \* the messages on their way, the oldest first
          latest   \* the message that arrived last

mcvars == <<queue, latest>>

MCInit == queue = << >>

Send ==
  /\ Len(queue') = Len(queue) + 1 /\ SubSeq(queue', 1, Len(queue)) = queue
  /\ queue'[Len(queue')] \in Messages
  /\ UNCHANGED latest

Receive == queue # << >> /\ latest' = Head(queue) /\ queue' = Tail(queue)

DropAll == queue' = << >> /\ UNCHANGED latest

MCNext == Send \/ Receive \/ DropAll

MCSpec == MCInit /\ [][MCNext]_mcvars
=============================================================================
