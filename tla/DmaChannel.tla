----------------------------- MODULE DmaChannel -----------------------------
(***************************************************************************)
(* What a DMA channel promises: the words a device hands over go to        *)
(* consecutive words of memory, and the words it takes come from           *)
(* consecutive words of memory, each once, in order, and no more of them   *)
(* than the channel was programmed for.  Faults, waits and time slices do  *)
(* not show.                                                               *)
(***************************************************************************)
EXTENDS Integers, Sequences

CONSTANT Devices

VARIABLES memory,  \* the words of the RAM zone, as the guest sees them
          device,  \* for each device, the transfer its command asks for
          at,      \* where the next word goes, or comes from
          left     \* words the channel was programmed for and has not moved

channel == <<memory, device, at, left>>

Asks(d) == device[d].pos < device[d].len

DCInit == left = 0 /\ \A d \in Devices : ~Asks(d)

\* The guest programs the channel while no device is at work.
Program ==
  /\ \A d \in Devices : ~Asks(d)
  /\ left' \in Nat /\ at' \in Nat /\ UNCHANGED <<memory, device>>

\* A device takes a new command, or gives the rest of its transfer up.
Command(d) ==
  /\ \A o \in Devices \ {d} : device'[o] = device[o]
  /\ ~Asks(d) \/ (~Asks(d))'
  /\ UNCHANGED <<memory, at, left>>

Moved(d) ==
  /\ left > 0 /\ Asks(d)
  /\ at' = at + 1 /\ left' = left - 1

MoveIn(d) ==
  /\ Moved(d) /\ device[d].op = "read"
  /\ memory' = [memory EXCEPT ![at] = device[d].data[device[d].pos + 1]]
  /\ device' = [device EXCEPT ![d].pos = @ + 1]

MoveOut(d) ==
  /\ Moved(d) /\ device[d].op = "write"
  /\ device' = [device EXCEPT ![d].pos = @ + 1,
                              ![d].data = Append(@, memory[at])]
  /\ UNCHANGED memory

DCNext == Program \/ \E d \in Devices : Command(d) \/ MoveIn(d) \/ MoveOut(d)

DCSpec == DCInit /\ [][DCNext]_channel
=============================================================================
