------------------------------- MODULE I8274 -------------------------------
(***************************************************************************)
(* The 8274 serial controller of i8274.c, between a terminal on the pty,   *)
(* the interrupt line that main.c evaluates after each slice, and the      *)
(* guest's driver.  Channel A is the terminal's; nothing ever arrives on   *)
(* channel B.                                                              *)
(*                                                                         *)
(* irq_request is kept as the set of the requests and the set of those in  *)
(* service.  The vector in RR2 is the name of the request it stands for:   *)
(* its upper bits are the driver's own.  Of the write registers only the   *)
(* pointer and WR1 decide anything; bytes written to the others are        *)
(* dropped.                                                                *)
(*                                                                         *)
(* The driver is the guest's: it masks the interrupt while it talks to the *)
(* chip outside its handler, reads data when RR0 says there is some, and   *)
(* ends each interrupt once.                                               *)
(***************************************************************************)
EXTENDS Integers, Sequences

CONSTANTS FifoSize,  \* FIFOSIZE (128)
          MaxTyped,  \* bound on the bytes the terminal sends
          MaxToSend, \* bytes the guest has to send
          MaxCalls   \* bound on what the driver does beside

ASSUME I8274Assumption ==
  FifoSize \in Nat \ {0} /\ MaxTyped \in Nat /\ MaxToSend \in Nat /\ MaxCalls \in Nat

Channels == {"A", "B"}

\* i8274_IRQ_PRIORITY_ORDER.  Nothing requests the last two.
Priority == <<"RxA", "TxA", "RxB", "TxB", "ExtA", "ExtB">>
Irqs == {Priority[i] : i \in DOMAIN Priority}
First(S) == Priority[CHOOSE i \in DOMAIN Priority :
                       Priority[i] \in S /\ \A j \in 1..(i - 1) : Priority[j] \notin S]
Rx(c) == IF c = "A" THEN "RxA" ELSE "RxB"
Tx(c) == IF c = "A" THEN "TxA" ELSE "TxB"
Ext(c) == IF c = "A" THEN "ExtA" ELSE "ExtB"

VARIABLES rx,         \* rx_fifo of each channel
          wr,         \* of the write registers: the pointer in WR0, and WR1
          rr0,        \* of RR0: RX_CHAR_AVAILABLE, and INTERRUPT_PENDING in channel A's
          requested, accepted, \* irq_request
          vector,     \* channel B's RR2
          line,       \* what i8274_get_irq last said to the main loop
          pty,        \* typed and not read from the pty
          typed,      \* bytes typed so far
          pc,         \* where the driver is
          seen,       \* the vector its handler read
          tosend, busy, calls, \* the driver
          latest, resets       \* ghosts: the last byte read, channel resets

chip == <<rx, wr, rr0, requested, accepted, vector>>
terminal == <<pty, typed>>
driver == <<pc, seen, tosend, busy, calls>>
ghosts == <<latest, resets>>
vars == <<chip, line, terminal, driver, ghosts>>

Handler == {"enter", "vector", "serve", "data", "eoi"}
Vectors == Irqs \cup {"none"}

TypeOK ==
  /\ \A c \in Channels : rx[c] \in Seq(1..MaxTyped) /\ Len(rx[c]) <= FifoSize
  /\ wr \in [Channels -> [ptr : 0..7, wr1 : 0..255]]
  /\ rr0 \in [available : [Channels -> BOOLEAN], pending : BOOLEAN]
  /\ requested \subseteq Irqs /\ accepted \subseteq Irqs /\ vector \in Vectors
  /\ line \in BOOLEAN
  /\ pty \in Seq(1..MaxTyped) /\ typed \in 0..MaxTyped
  /\ pc \in Handler \cup {"base", "open", "configure", "poll"} /\ seen \in Vectors
  /\ tosend \in 0..MaxToSend /\ busy \in BOOLEAN /\ calls \in 0..MaxCalls
  /\ latest \in 0..MaxTyped /\ resets \in 0..MaxCalls

\* i8274_init clears everything and resets both channels.  Channel B's RR2 is 0
\* then, which is TxB's vector.
Init ==
  /\ rx = [c \in Channels |-> << >>]
  /\ wr = [c \in Channels |-> [ptr |-> 0, wr1 |-> 0]]
  /\ rr0 = [available |-> [c \in Channels |-> FALSE], pending |-> FALSE]
  /\ requested = {} /\ accepted = {} /\ vector = "TxB"
  /\ line = FALSE
  /\ pty = << >> /\ typed = 0
  /\ pc = "base" /\ seen = "none"
  /\ tosend = MaxToSend /\ busy = FALSE /\ calls = 0
  /\ latest = 0 /\ resets = 0

-----------------------------------------------------------------------------
(* The chip's functions.  Each says what becomes of all of chip.            *)

RxIntEnabled(c) == (wr[c].wr1 \div 8) % 4 # 0
TxIntEnabled(c) == (wr[c].wr1 \div 2) % 2 = 1

\* check_rx_available, with the FIFO as it is now in rx'.
CheckRxAvailable(c) ==
  /\ rr0' = [rr0 EXCEPT !.available[c] = rx'[c] # << >>]
  /\ requested' = IF rx'[c] = << >> THEN requested \ {Rx(c)}
                  ELSE requested \cup (IF RxIntEnabled(c) THEN {Rx(c)} ELSE {})

\* Mutants of PtyIn: more is read than the FIFO holds; what does not fit is lost;
\* the flags are looked after only when something came.
PtyInOverfills ==
  /\ rx' = [rx EXCEPT !["A"] = @ \o pty] /\ pty' = << >>
  /\ CheckRxAvailable("A")
  /\ UNCHANGED <<wr, accepted, vector>>
PtyInDropsRest ==
  LET n == IF Len(pty) < FifoSize - Len(rx["A"]) THEN Len(pty) ELSE FifoSize - Len(rx["A"])
  IN /\ rx' = [rx EXCEPT !["A"] = @ \o SubSeq(pty, 1, n)] /\ pty' = << >>
     /\ CheckRxAvailable("A")
     /\ UNCHANGED <<wr, accepted, vector>>
PtyInWhenNew ==
  LET n == IF Len(pty) < FifoSize - Len(rx["A"]) THEN Len(pty) ELSE FifoSize - Len(rx["A"])
  IN /\ n > 0
     /\ rx' = [rx EXCEPT !["A"] = @ \o SubSeq(pty, 1, n)]
     /\ pty' = SubSeq(pty, n + 1, Len(pty))
     /\ CheckRxAvailable("A")
     /\ UNCHANGED <<wr, accepted, vector>>

\* pty_in: as much as the FIFO has room for.
PtyIn ==
  LET n == IF Len(pty) < FifoSize - Len(rx["A"]) THEN Len(pty) ELSE FifoSize - Len(rx["A"])
  IN /\ rx' = [rx EXCEPT !["A"] = @ \o SubSeq(pty, 1, n)]
     /\ pty' = SubSeq(pty, n + 1, Len(pty))
     /\ CheckRxAvailable("A")
     /\ UNCHANGED <<wr, accepted, vector>>

\* i8274_get_irq: with something in service the vector stays as it is.
GetIrq ==
  /\ IF accepted # {} THEN UNCHANGED <<vector, rr0>>
     ELSE LET wanted == requested \ {"ExtA", "ExtB"}
          IN /\ vector' = IF wanted = {} THEN "none" ELSE First(wanted)
             /\ rr0' = [rr0 EXCEPT !.pending = wanted # {}]
  /\ line' = (accepted # {} \/ requested \ {"ExtA", "ExtB"} # {})
  /\ UNCHANGED <<rx, wr, requested, accepted>>

Received(c) == IF rx[c] = << >> THEN 0 ELSE Head(rx[c])

\* Mutant of DataIn: RR0 is left to the next scan.
DataInUnchecked(c) ==
  /\ rx' = [rx EXCEPT ![c] = IF @ = << >> THEN @ ELSE Tail(@)]
  /\ UNCHANGED <<wr, rr0, requested, accepted, vector>>

\* i8274_data_in.
DataIn(c) ==
  /\ rx' = [rx EXCEPT ![c] = IF @ = << >> THEN @ ELSE Tail(@)]
  /\ CheckRxAvailable(c)
  /\ UNCHANGED <<wr, accepted, vector>>

\* i8274_data_out: the byte is gone at once.
DataOut(c) ==
  /\ requested' = requested \cup (IF TxIntEnabled(c) THEN {Tx(c)} ELSE {})
  /\ UNCHANGED <<rx, wr, rr0, accepted, vector>>

\* interrupt_ack: the highest request there is now.
Acknowledged == IF requested = {} THEN {} ELSE {First(requested)}

\* Mutant of StatusRead: the pointer stays.
StatusReadKeepsPointer(c) ==
  /\ accepted' = accepted \cup (IF c = "B" /\ wr[c].ptr = 2 THEN Acknowledged ELSE {})
  /\ UNCHANGED <<rx, wr, rr0, requested, vector>>

\* i8274_status_read: RR2 of channel B acknowledges.
StatusRead(c) ==
  /\ accepted' = accepted \cup (IF c = "B" /\ wr[c].ptr = 2 THEN Acknowledged ELSE {})
  /\ wr' = [wr EXCEPT ![c].ptr = 0]
  /\ UNCHANGED <<rx, rr0, requested, vector>>

\* Mutant of Ended: the interrupt ended is the one asked for.
EndedRequest == IF requested = {} THEN {} ELSE {First(requested)}

\* end_of_interrupt: the highest in service.
Ended == IF accepted = {} THEN {} ELSE {First(accepted)}

OfChannel(c) == {Rx(c), Tx(c), Ext(c)}

\* channel_reset.
ChannelReset(c) ==
  /\ rx' = [rx EXCEPT ![c] = << >>]
  /\ wr' = [wr EXCEPT ![c] = [ptr |-> 0, wr1 |-> 0]]
  /\ requested' = requested \ OfChannel(c) /\ accepted' = accepted \ OfChannel(c)
  /\ rr0' = [rr0 EXCEPT !.available[c] = FALSE]

\* i8274_control_write: a byte for the register the pointer names, or a command
\* for WR0, which sets the pointer.
ControlWrite(c, byte) ==
  LET ptr == wr[c].ptr
      cmd == IF ptr = 0 THEN (byte \div 8) % 8 ELSE 0
  IN /\ IF cmd = 3 THEN ChannelReset(c)
        ELSE /\ wr' = [wr EXCEPT ![c] = [ptr |-> IF ptr = 0 THEN byte % 8 ELSE 0,
                                         wr1 |-> IF ptr = 1 THEN byte ELSE @.wr1]]
             /\ requested' = requested \ (CASE cmd = 2 -> {Ext(c)}
                                            [] cmd = 5 -> {Tx(c)}
                                            [] cmd \notin {2, 5} -> {})
             /\ accepted' = accepted \ (IF cmd = 7 /\ c = "A" THEN Ended ELSE {})
             /\ UNCHANGED <<rx, rr0>>
     /\ UNCHANGED vector

SelectWR1 == 1
SelectRR2 == 2
ResetChannel == 24
ResetTxInt == 40
EndOfInterrupt == 56
AllInts == 26        \* WR1_RX_INT_ALL and WR1_TX_INT_ENABLE
WR1Values == {0, 2, 24, AllInts}

-----------------------------------------------------------------------------
(* The main loop and the terminal.                                          *)

\* After a slice.  With the clock's tick latched the line is not looked at.
Slice ==
  /\ GetIrq
  /\ UNCHANGED <<terminal, driver, ghosts>>
SliceOfClock ==
  /\ line' = FALSE
  /\ UNCHANGED <<chip, terminal, driver, ghosts>>

\* i8274_scan_incoming, at 60 Hz.
Scan ==
  /\ PtyIn
  /\ UNCHANGED <<line, typed, driver, ghosts>>

Keystroke ==
  /\ typed < MaxTyped /\ typed' = typed + 1
  /\ pty' = Append(pty, typed + 1)
  /\ UNCHANGED <<chip, line, driver, ghosts>>

-----------------------------------------------------------------------------
(* The driver's handler.                                                    *)

At(here, there) == pc = here /\ pc' = there

Take ==
  /\ line /\ At("base", "enter")
  /\ UNCHANGED <<chip, line, terminal, seen, tosend, busy, calls, ghosts>>

AskVector ==
  /\ At("enter", "vector") /\ ControlWrite("B", SelectRR2)
  /\ UNCHANGED <<line, terminal, seen, tosend, busy, calls, ghosts>>

ReadVector ==
  /\ At("vector", "serve") /\ StatusRead("B")
  /\ seen' = IF wr["B"].ptr = 2 THEN vector ELSE "none"
  /\ UNCHANGED <<line, terminal, tosend, busy, calls, ghosts>>

\* Something to read?
ServeRx ==
  /\ pc = "serve" /\ seen = "RxA"
  /\ pc' = IF rr0.available["A"] THEN "data" ELSE "eoi"
  /\ StatusRead("A")
  /\ UNCHANGED <<line, terminal, seen, tosend, busy, calls, ghosts>>

\* The handler reads one byte or more.
ReadData ==
  /\ At("data", "serve") \/ At("data", "eoi")
  /\ DataIn("A") /\ latest' = Received("A")
  /\ UNCHANGED <<line, terminal, seen, tosend, busy, calls, resets>>

ServeTx ==
  /\ At("serve", "eoi") /\ seen = "TxA"
  /\ IF tosend > 0
     THEN DataOut("A") /\ tosend' = tosend - 1 /\ busy' = TRUE
     ELSE ControlWrite("A", ResetTxInt) /\ busy' = FALSE /\ UNCHANGED tosend
  /\ UNCHANGED <<line, terminal, seen, calls, ghosts>>

ServeModem ==
  /\ At("serve", "eoi") /\ seen = "TxB"
  /\ ControlWrite("B", ResetTxInt)
  /\ UNCHANGED <<line, terminal, seen, tosend, busy, calls, ghosts>>

ServeNothing ==
  /\ At("serve", "eoi") /\ seen = "none"
  /\ UNCHANGED <<chip, line, terminal, seen, tosend, busy, calls, ghosts>>

Eoi ==
  /\ At("eoi", "base") /\ ControlWrite("A", EndOfInterrupt)
  /\ UNCHANGED <<line, terminal, seen, tosend, busy, calls, ghosts>>

Serves == AskVector \/ ReadVector \/ ServeRx \/ ReadData \/ ServeTx \/ ServeModem
          \/ ServeNothing \/ Eoi

-----------------------------------------------------------------------------
(* The driver outside its handler, with the interrupt masked while it is    *)
(* between two accesses.                                                    *)

Call == pc = "base" /\ calls < MaxCalls /\ calls' = calls + 1

\* The port is opened: both interrupts on.
Open ==
  /\ At("base", "open") /\ wr["A"].wr1 # AllInts
  /\ ControlWrite("A", SelectWR1)
  /\ UNCHANGED <<line, terminal, seen, tosend, busy, calls, ghosts>>
Opened ==
  /\ At("open", "base") /\ ControlWrite("A", AllInts)
  /\ UNCHANGED <<line, terminal, seen, tosend, busy, calls, ghosts>>

\* Interrupts of either channel switched.
Configure(c) ==
  /\ Call /\ (c = "A" => ~busy)
  /\ ControlWrite(c, SelectWR1) /\ pc' = "configure"
  /\ UNCHANGED <<line, terminal, seen, tosend, busy, ghosts>>
Configured(c, byte) ==
  /\ At("configure", "base") /\ wr[c].ptr = 1
  /\ ControlWrite(c, byte)
  /\ UNCHANGED <<line, terminal, seen, tosend, busy, calls, ghosts>>

Reset ==
  /\ Call /\ ControlWrite("A", ResetChannel)
  /\ resets' = resets + 1 /\ busy' = FALSE
  /\ UNCHANGED <<line, terminal, pc, seen, tosend, latest>>

\* A byte read without an interrupt.
Poll ==
  /\ Call /\ StatusRead("A")
  /\ pc' = IF rr0.available["A"] THEN "poll" ELSE pc
  /\ UNCHANGED <<line, terminal, seen, tosend, busy, ghosts>>
PollData ==
  /\ At("poll", "base") /\ DataIn("A") /\ latest' = Received("A")
  /\ UNCHANGED <<line, terminal, seen, tosend, busy, calls, resets>>

\* The first byte of what there is to send, or all of it byte by byte when the
\* transmitter's interrupt is off.
Start ==
  /\ pc = "base" /\ tosend > 0 /\ ~busy
  /\ DataOut("A") /\ tosend' = tosend - 1 /\ busy' = TxIntEnabled("A")
  /\ UNCHANGED <<line, terminal, pc, seen, calls, ghosts>>

\* A byte for the modem that is not there.
SendModem ==
  /\ Call /\ DataOut("B")
  /\ UNCHANGED <<line, terminal, pc, seen, tosend, busy, ghosts>>

-----------------------------------------------------------------------------
Finishes == Opened \/ PollData \/ \E c \in Channels, byte \in WR1Values : Configured(c, byte)

Next ==
  \/ Slice \/ SliceOfClock \/ Scan \/ Keystroke
  \/ Take \/ Serves \/ Finishes
  \/ Open \/ Reset \/ Poll \/ Start \/ SendModem
  \/ \E c \in Channels : Configure(c)

Spec == Init /\ [][Next]_vars

\* The main loop goes round, the clock's tick is dismissed, and a slice that ends
\* while nothing is in service comes again and again, slices being shorter than the
\* way out of one handler and into the next; the handler and
\* the driver's pairs of accesses finish; an interrupt that is presented again
\* and again is taken; the port is opened and what there is to send is sent.
Fairness ==
  /\ SF_vars(accepted = {} /\ Slice) /\ WF_vars(Scan)
  /\ SF_vars(Take) /\ WF_vars(Serves) /\ WF_vars(Finishes)
  /\ WF_vars(Open) /\ WF_vars(Start)

FairSpec == Spec /\ Fairness

-----------------------------------------------------------------------------
(* What the controller promises.                                            *)

\* RR0 says that there is a byte exactly when there is one, so that a driver that
\* asks never reads an empty FIFO, and no receive interrupt is left standing for
\* an empty one (check_rx_available, "to make sure 3b1 doesn't try to read again
\* once fifo is empty").
AvailableExact ==
  \A c \in Channels : /\ rr0.available[c] <=> rx[c] # << >>
                      /\ Rx(c) \in requested => rx[c] # << >>

\* One interrupt at a time is in service, and only between the vector's reading
\* and the end of interrupt: whatever was acknowledged, end_of_interrupt finds it
\* and the vector is free to move again.
ServiceBalanced ==
  /\ accepted # {} => pc \in {"serve", "data", "eoi"}
  /\ \A i, j \in accepted : i = j

SL == INSTANCE SerialLine WITH incoming <- rx["A"] \o pty

\* What is typed is read in order and once, by interrupt or by polling, however
\* full the FIFO is; only a channel reset loses any.
ImplementsSerialLine == SL!SLSpec

\* Every byte typed is taken out in the end, also one that came before the
\* interrupt was enabled.
RxDrains == rx["A"] \o pty # << >> ~> rx["A"] \o pty = << >>

\* What there is to send is sent, one transmit interrupt after the other.
TxDrains == <>(tosend = 0)
=============================================================================
