----------------------------- MODULE I8274Proofs -----------------------------
(***************************************************************************)
(* Proofs about the serial controller, for every size of the FIFO and any  *)
(* number of bytes and calls.  What each function of the chip does to the  *)
(* chip's state is a lemma; a step of Next is one such function and a move *)
(* of the driver.                                                          *)
(***************************************************************************)
EXTENDS I8274, SequenceTheorems, TLAPS

ChipTypeOK ==
  /\ rx \in [Channels -> Seq(1..MaxTyped)]
  /\ \A c \in Channels : Len(rx[c]) <= FifoSize
  /\ wr \in [Channels -> [ptr : 0..7, wr1 : 0..255]]
  /\ rr0 \in [available : [Channels -> BOOLEAN], pending : BOOLEAN]
  /\ requested \subseteq Irqs /\ accepted \subseteq Irqs /\ vector \in Vectors

IrqsAre == Irqs = {"RxA", "TxA", "RxB", "TxB", "ExtA", "ExtB"}

\* The six requests, written out.
LEMMA IrqNames == IrqsAre /\ DOMAIN Priority = 1..6
  <1>1. DOMAIN Priority = 1..6
    BY DEF Priority
  <1>2. Irqs = {Priority[i] : i \in 1..6}
    BY <1>1 DEF Irqs
  <1>3. 1..6 = {1, 2, 3, 4, 5, 6}
    OBVIOUS
  <1> QED BY <1>1, <1>2, <1>3 DEF Priority, IrqsAre

\* The highest priority among some requests is that of one of them.
LEMMA FirstIn == ASSUME NEW S, S \subseteq Irqs, S # {} PROVE First(S) \in S
  <1> DEFINE Least(i) == Priority[i] \in S /\ \A j \in 1..(i - 1) : Priority[j] \notin S
  <1>1. 1..6 = {1, 2, 3, 4, 5, 6}
    OBVIOUS
  <1>2. PICK k \in 1..6 : Priority[k] \in S
    BY IrqNames DEF Irqs
  <1>3. \E i \in 1..6 : Least(i)
    <2>1. \/ Least(1) \/ Least(2) \/ Least(3) \/ Least(4) \/ Least(5) \/ Least(6)
      BY <1>1, <1>2
    <2> QED BY <2>1
  <1> QED BY <1>3, IrqNames DEF First
-----------------------------------------------------------------------------
(* What each function of the chip leaves behind.                            *)

\* What fits is taken off the front, the rest stays.
LEMMA TakenFacts ==
  ASSUME NEW S, NEW p \in Seq(S), NEW room \in Nat,
         NEW n, n = IF Len(p) < room THEN Len(p) ELSE room
  PROVE  /\ n \in Nat /\ n <= room
         /\ SubSeq(p, 1, n) \in Seq(S) /\ Len(SubSeq(p, 1, n)) = n
         /\ SubSeq(p, n + 1, Len(p)) \in Seq(S)
  <1>1. Len(p) \in Nat /\ \A i \in 1..Len(p) : p[i] \in S
    BY LenProperties
  <1>2. n \in Nat /\ n <= room /\ n <= Len(p)
    BY <1>1
  <1>3. SubSeq(p, 1, n) \in Seq(S) /\ Len(SubSeq(p, 1, n)) = n
    <2>1. \A i \in 1..n : p[i] \in S
      BY <1>1, <1>2
    <2>2. /\ SubSeq(p, 1, n) \in Seq(S)
          /\ Len(SubSeq(p, 1, n)) = IF 1 <= n THEN n - 1 + 1 ELSE 0
      BY <1>2, <2>1, SubSeqProperties
    <2> QED BY <1>2, <2>2
  <1>4. SubSeq(p, n + 1, Len(p)) \in Seq(S)
    <2>1. \A i \in (n + 1)..Len(p) : p[i] \in S
      BY <1>1, <1>2
    <2> QED BY <1>1, <1>2, <2>1, SubSeqProperties
  <1> QED BY <1>2, <1>3, <1>4

\* check_rx_available makes RR0 and the receive request exact again for the channel
\* whose FIFO moved.
LEMMA CheckRxFacts ==
  ASSUME ChipTypeOK, NEW c \in Channels, CheckRxAvailable(c),
         \A d \in Channels \ {c} : rx'[d] = rx[d]
  PROVE  /\ rr0' \in [available : [Channels -> BOOLEAN], pending : BOOLEAN]
         /\ requested' \subseteq Irqs
         /\ AvailableExact => AvailableExact'
  <1>1. rr0' \in [available : [Channels -> BOOLEAN], pending : BOOLEAN]
    BY DEF ChipTypeOK, CheckRxAvailable
  <1>2. requested' \subseteq Irqs
    BY IrqNames DEF ChipTypeOK, CheckRxAvailable, Rx, IrqsAre
  <1>3. ASSUME AvailableExact PROVE AvailableExact'
    <2>1. SUFFICES ASSUME NEW d \in Channels
                   PROVE  /\ rr0'.available[d] <=> rx'[d] # << >>
                          /\ Rx(d) \in requested' => rx'[d] # << >>
      BY DEF AvailableExact, Rx
    <2>2. CASE d = c
      BY <2>2 DEF ChipTypeOK, CheckRxAvailable, Rx
    <2>3. CASE d # c
      <3>1. rr0'.available[d] = rr0.available[d]
        BY <2>3 DEF ChipTypeOK, CheckRxAvailable
      <3>2. Rx(d) # Rx(c)
        BY <2>3 DEF Rx, Channels
      <3>3. Rx(d) \in requested' => Rx(d) \in requested
        BY <3>2 DEF CheckRxAvailable
      <3> QED BY <1>3, <2>3, <3>1, <3>3 DEF AvailableExact
    <2> QED BY <2>2, <2>3
  <1> QED BY <1>1, <1>2, <1>3

\* pty_in fills the FIFO to its size and no further.
LEMMA PtyInFacts ==
  ASSUME ChipTypeOK, pty \in Seq(1..MaxTyped), PtyIn
  PROVE  /\ ChipTypeOK' /\ pty' \in Seq(1..MaxTyped)
         /\ AvailableExact => AvailableExact'
         /\ UNCHANGED <<wr, accepted>>
  <1> DEFINE room == FifoSize - Len(rx["A"])
             n == IF Len(pty) < room THEN Len(pty) ELSE room
  <1>1. /\ rx["A"] \in Seq(1..MaxTyped)
        /\ room \in Nat /\ Len(rx["A"]) + room = FifoSize
    BY I8274Assumption DEF ChipTypeOK, Channels, I8274Assumption
  <1>2. /\ n \in Nat /\ n <= room
        /\ SubSeq(pty, 1, n) \in Seq(1..MaxTyped) /\ Len(SubSeq(pty, 1, n)) = n
        /\ SubSeq(pty, n + 1, Len(pty)) \in Seq(1..MaxTyped)
    <2>1. n = IF Len(pty) < room THEN Len(pty) ELSE room
      OBVIOUS
    <2> HIDE DEF room, n
    <2> QED BY <1>1, <2>1, TakenFacts, ZenonT(60)
  <1>5. /\ rx' = [rx EXCEPT !["A"] = @ \o SubSeq(pty, 1, n)]
        /\ pty' = SubSeq(pty, n + 1, Len(pty))
        /\ CheckRxAvailable("A") /\ UNCHANGED <<wr, accepted, vector>>
    BY DEF PtyIn
  <1> HIDE DEF room, n
  <1>6. /\ rx["A"] \o SubSeq(pty, 1, n) \in Seq(1..MaxTyped)
        /\ Len(rx["A"] \o SubSeq(pty, 1, n)) <= FifoSize
    <2>1. /\ rx["A"] \o SubSeq(pty, 1, n) \in Seq(1..MaxTyped)
          /\ Len(rx["A"] \o SubSeq(pty, 1, n)) = Len(rx["A"]) + Len(SubSeq(pty, 1, n))
      BY <1>1, <1>2, ConcatProperties
    <2>2. Len(rx["A"]) \in Nat
      BY <1>1, LenProperties
    <2>3. Len(rx["A"] \o SubSeq(pty, 1, n)) = Len(rx["A"]) + n
      BY <1>2, <2>1
    <2>4. Len(rx["A"]) + n <= Len(rx["A"]) + room
      BY <1>1, <1>2, <2>2
    <2> QED BY <1>1, <2>1, <2>3, <2>4
  <1>7. rx' \in [Channels -> Seq(1..MaxTyped)] /\ \A c \in Channels : Len(rx'[c]) <= FifoSize
    BY <1>5, <1>6 DEF ChipTypeOK, Channels
  <1>8. \A d \in Channels \ {"A"} : rx'[d] = rx[d]
    BY <1>5 DEF ChipTypeOK
  <1>9. /\ rr0' \in [available : [Channels -> BOOLEAN], pending : BOOLEAN]
        /\ requested' \subseteq Irqs /\ (AvailableExact => AvailableExact')
    BY <1>5, <1>8, CheckRxFacts DEF Channels
  <1>10. wr' = wr /\ accepted' = accepted /\ vector' = vector
    BY <1>5
  <1>11. ChipTypeOK'
    BY <1>7, <1>9, <1>10 DEF ChipTypeOK
  <1> QED BY <1>2, <1>5, <1>9, <1>10, <1>11

\* i8274_data_in takes a byte out, or none of an empty FIFO.
LEMMA DataInFacts ==
  ASSUME ChipTypeOK, NEW c \in Channels, DataIn(c)
  PROVE  /\ ChipTypeOK'
         /\ AvailableExact => AvailableExact'
         /\ UNCHANGED <<wr, accepted>>
  <1>1. rx[c] \in Seq(1..MaxTyped) /\ Len(rx[c]) \in Nat
    BY DEF ChipTypeOK
  <1>2. rx[c] # << >> => /\ Tail(rx[c]) \in Seq(1..MaxTyped)
                         /\ Len(Tail(rx[c])) = Len(rx[c]) - 1
    BY <1>1, HeadTailProperties
  <1>3. /\ rx' = [rx EXCEPT ![c] = IF rx[c] = << >> THEN rx[c] ELSE Tail(rx[c])]
        /\ CheckRxAvailable(c) /\ UNCHANGED <<wr, accepted, vector>>
    BY DEF DataIn
  <1>4. rx' \in [Channels -> Seq(1..MaxTyped)]
    BY <1>2, <1>3 DEF ChipTypeOK
  <1>5. \A d \in Channels \ {c} : rx'[d] = rx[d]
    BY <1>3 DEF ChipTypeOK
  <1>6. rx'[c] = IF rx[c] = << >> THEN rx[c] ELSE Tail(rx[c])
    BY <1>3 DEF ChipTypeOK
  <1>7. Len(rx'[c]) <= FifoSize
    <2>1. Len(rx[c]) <= FifoSize /\ FifoSize \in Nat
      BY I8274Assumption DEF ChipTypeOK, I8274Assumption
    <2> QED BY <1>1, <1>2, <1>6, <2>1
  <1>8. \A d \in Channels : Len(rx'[d]) <= FifoSize
    BY <1>5, <1>7 DEF ChipTypeOK
  <1>9. /\ rr0' \in [available : [Channels -> BOOLEAN], pending : BOOLEAN]
        /\ requested' \subseteq Irqs /\ (AvailableExact => AvailableExact')
    BY <1>3, <1>5, CheckRxFacts
  <1>10. wr' = wr /\ accepted' = accepted /\ vector' = vector
    BY <1>3
  <1>11. ChipTypeOK'
    BY <1>4, <1>8, <1>9, <1>10 DEF ChipTypeOK
  <1> QED BY <1>9, <1>10, <1>11

\* i8274_data_out requests a transmit interrupt and moves nothing else.
LEMMA DataOutFacts ==
  ASSUME ChipTypeOK, NEW c \in Channels, DataOut(c)
  PROVE  /\ ChipTypeOK'
         /\ AvailableExact => AvailableExact'
         /\ UNCHANGED <<wr, accepted>>
  <1>1. requested' \subseteq Irqs
    BY IrqNames DEF ChipTypeOK, DataOut, Tx, IrqsAre
  <1>2. \A d \in Channels : Rx(d) # Tx(c)
    BY DEF Rx, Tx
  <1>3. AvailableExact => AvailableExact'
    BY <1>2 DEF AvailableExact, DataOut, Rx
  <1> QED BY <1>1, <1>3 DEF ChipTypeOK, DataOut

\* i8274_get_irq names a vector and leaves the requests as they are.
LEMMA GetIrqFacts ==
  ASSUME ChipTypeOK, line \in BOOLEAN, GetIrq
  PROVE  /\ ChipTypeOK' /\ line' \in BOOLEAN
         /\ AvailableExact => AvailableExact'
         /\ UNCHANGED <<wr, accepted>>
  <1> DEFINE wanted == requested \ {"ExtA", "ExtB"}
  <1>1. wanted # {} => First(wanted) \in Irqs
    <2>1. wanted \subseteq Irqs
      BY DEF ChipTypeOK
    <2> HIDE DEF wanted
    <2> QED BY <2>1, FirstIn
  <1>2. vector' \in Vectors
    BY <1>1 DEF ChipTypeOK, GetIrq, Vectors
  <1>3. /\ rr0' \in [available : [Channels -> BOOLEAN], pending : BOOLEAN]
        /\ rr0'.available = rr0.available
    BY ZenonT(20) DEF ChipTypeOK, GetIrq
  <1>4. AvailableExact => AvailableExact'
    BY <1>3 DEF AvailableExact, GetIrq, Rx
  <1> QED BY <1>2, <1>3, <1>4 DEF ChipTypeOK, GetIrq

\* i8274_status_read deselects the register, and acknowledges one request at most.
LEMMA StatusReadFacts ==
  ASSUME ChipTypeOK, NEW c \in Channels, StatusRead(c)
  PROVE  /\ ChipTypeOK'
         /\ AvailableExact => AvailableExact'
         /\ wr'[c].ptr = 0 /\ \A d \in Channels \ {c} : wr'[d] = wr[d]
         /\ c = "A" => accepted' = accepted
         /\ accepted = {} => \A i, j \in accepted' : i = j
  <1>1. Acknowledged \subseteq Irqs /\ \A i, j \in Acknowledged : i = j
    BY FirstIn DEF ChipTypeOK, Acknowledged
  <1>2. accepted' = accepted \/ accepted' = accepted \cup Acknowledged
    BY DEF StatusRead
  <1>3. wr' = [wr EXCEPT ![c].ptr = 0]
    BY DEF StatusRead
  <1>4. AvailableExact => AvailableExact'
    BY DEF AvailableExact, StatusRead, Rx
  <1>5. /\ wr' \in [Channels -> [ptr : 0..7, wr1 : 0..255]]
        /\ wr'[c].ptr = 0 /\ \A d \in Channels \ {c} : wr'[d] = wr[d]
    <2>1. /\ wr[c] \in [ptr : 0..7, wr1 : 0..255]
          /\ wr' = [wr EXCEPT ![c] = [wr[c] EXCEPT !.ptr = 0]]
      BY <1>3 DEF ChipTypeOK
    <2>2. /\ [wr[c] EXCEPT !.ptr = 0] \in [ptr : 0..7, wr1 : 0..255]
          /\ [wr[c] EXCEPT !.ptr = 0].ptr = 0
      BY <2>1
    <2> QED BY <2>1, <2>2 DEF ChipTypeOK
  <1> QED BY <1>1, <1>2, <1>4, <1>5 DEF ChipTypeOK, StatusRead

\* Commands that leave WR0 selected.  AllInts is one when WR0 is selected: its
\* command resets the channel.
Commands == {ResetChannel, ResetTxInt, EndOfInterrupt, AllInts}

\* What the driver writes are bytes.
LEMMA CommandBytes ==
  /\ SelectWR1 \in 0..255 /\ SelectRR2 \in 0..255
  /\ \A byte \in Commands \cup WR1Values : byte \in 0..255
  BY DEF SelectWR1, SelectRR2, Commands, ResetChannel, ResetTxInt, EndOfInterrupt, AllInts,
         WR1Values

\* i8274_control_write never acknowledges, and its end of interrupt ends the one
\* interrupt there is.
LEMMA ControlWriteFacts ==
  ASSUME ChipTypeOK, NEW c \in Channels, NEW byte \in 0..255,
         ControlWrite(c, byte)
  PROVE  /\ ChipTypeOK'
         /\ AvailableExact => AvailableExact'
         /\ wr[c].ptr # 0 \/ byte \in Commands => wr'[c].ptr = 0
         /\ \A d \in Channels \ {c} : wr'[d] = wr[d]
         /\ accepted' \subseteq accepted
         /\ c = "A" /\ wr[c].ptr = 0 /\ byte = EndOfInterrupt
              /\ (\A i, j \in accepted : i = j) => accepted' = {}
  <1> DEFINE ptr == wr[c].ptr
             cmd == IF ptr = 0 THEN (byte \div 8) % 8 ELSE 0
  <1>1. ptr \in 0..7 /\ wr[c].wr1 \in 0..255 /\ byte % 8 \in 0..7
    BY DEF ChipTypeOK
  <1>2. UNCHANGED vector
    BY DEF ControlWrite
  <1>3. CASE cmd = 3
    <2>1. ChannelReset(c)
      BY <1>3 DEF ControlWrite
    <2>2. /\ rx' \in [Channels -> Seq(1..MaxTyped)]
          /\ \A d \in Channels : Len(rx'[d]) <= FifoSize
      BY <2>1, I8274Assumption DEF ChannelReset, ChipTypeOK, I8274Assumption
    <2>3. /\ wr' \in [Channels -> [ptr : 0..7, wr1 : 0..255]]
          /\ wr'[c].ptr = 0 /\ \A d \in Channels \ {c} : wr'[d] = wr[d]
      BY <2>1 DEF ChannelReset, ChipTypeOK
    <2>4. /\ rr0' \in [available : [Channels -> BOOLEAN], pending : BOOLEAN]
          /\ ~rr0'.available[c]
          /\ \A d \in Channels \ {c} : rr0'.available[d] = rr0.available[d]
      BY <2>1 DEF ChannelReset, ChipTypeOK
    <2>5. /\ rx'[c] = << >> /\ Rx(c) \notin requested'
          /\ \A d \in Channels \ {c} : rx'[d] = rx[d]
          /\ requested' \subseteq requested /\ accepted' \subseteq accepted
      BY <2>1 DEF ChannelReset, ChipTypeOK, OfChannel
    <2>6. AvailableExact => AvailableExact'
      BY <2>4, <2>5 DEF AvailableExact, Rx
    <2>7. byte # EndOfInterrupt \/ ptr # 0
      BY <1>3 DEF EndOfInterrupt
    <2> QED BY <1>2, <2>2, <2>3, <2>4, <2>5, <2>6, <2>7 DEF ChipTypeOK
  <1>4. CASE cmd # 3
    <2>1. /\ wr' = [wr EXCEPT ![c] = [ptr |-> IF ptr = 0 THEN byte % 8 ELSE 0,
                                      wr1 |-> IF ptr = 1 THEN byte ELSE wr[c].wr1]]
          /\ accepted' = accepted \ (IF cmd = 7 /\ c = "A" THEN Ended ELSE {})
          /\ requested' \subseteq requested /\ UNCHANGED <<rx, rr0>>
      BY <1>4 DEF ControlWrite, ChipTypeOK
    <2>2. /\ wr' \in [Channels -> [ptr : 0..7, wr1 : 0..255]]
          /\ wr[c].ptr # 0 \/ byte % 8 = 0 => wr'[c].ptr = 0
          /\ \A d \in Channels \ {c} : wr'[d] = wr[d]
      BY <1>1, <2>1 DEF ChipTypeOK
    <2>3. AvailableExact => AvailableExact'
      BY <2>1 DEF AvailableExact, Rx
    <2>4. ASSUME c = "A", wr[c].ptr = 0, byte = EndOfInterrupt, \A i, j \in accepted : i = j
          PROVE  accepted' = {}
      <3>1. cmd = 7
        BY <2>4 DEF EndOfInterrupt
      <3>2. accepted # {} => First(accepted) \in accepted
        BY FirstIn DEF ChipTypeOK
      <3>3. Ended = accepted
        BY <2>4, <3>2 DEF Ended
      <3> HIDE DEF cmd
      <3> QED BY <2>1, <2>4, <3>1, <3>3
    <2>5. byte \in Commands => wr[c].ptr # 0 \/ byte % 8 = 0
      BY <1>4 DEF AllInts, Commands, ResetChannel, ResetTxInt, EndOfInterrupt
    <2> HIDE DEF cmd
    <2> QED BY <1>2, <2>1, <2>2, <2>3, <2>4, <2>5 DEF ChipTypeOK
  <1> QED BY <1>3, <1>4
-----------------------------------------------------------------------------
(* The inductive invariant: ServiceBalanced holds because end_of_interrupt  *)
(* finds WR0 selected, so the pointers are part of it.                      *)

DriverTypeOK ==
  /\ line \in BOOLEAN
  /\ pty \in Seq(1..MaxTyped) /\ typed \in 0..MaxTyped
  /\ pc \in Handler \cup {"base", "open", "configure", "poll"} /\ seen \in Vectors
  /\ tosend \in 0..MaxToSend /\ busy \in BOOLEAN /\ calls \in 0..MaxCalls
  /\ latest \in 0..MaxTyped /\ resets \in 0..calls

PointersAtRest ==
  /\ wr["A"].ptr # 0 => pc \in {"open", "configure"}
  /\ wr["B"].ptr # 0 => pc \in {"vector", "configure"}
  /\ wr["A"].ptr = 0 \/ wr["B"].ptr = 0

IInv == ChipTypeOK /\ DriverTypeOK /\ AvailableExact /\ ServiceBalanced /\ PointersAtRest

\* A byte read is 0 or one that was typed.
LEMMA ReceivedType ==
  ASSUME ChipTypeOK, NEW c \in Channels PROVE Received(c) \in 0..MaxTyped
  <1>1. rx[c] \in Seq(1..MaxTyped)
    BY DEF ChipTypeOK
  <1>2. rx[c] # << >> => Head(rx[c]) \in 1..MaxTyped
    BY <1>1, HeadTailProperties
  <1> QED BY <1>2, I8274Assumption DEF Received, I8274Assumption

\* The chip moved without anything being acknowledged, and the driver with it.
LEMMA QuietStep ==
  ASSUME ChipTypeOK, DriverTypeOK, AvailableExact, ServiceBalanced, PointersAtRest,
         ChipTypeOK', DriverTypeOK', AvailableExact => AvailableExact',
         accepted' \subseteq accepted, pc' = pc \/ pc' \in {"serve", "data",
         "eoi"} \/ accepted = {},
         PointersAtRest'
  PROVE  IInv'
  BY DEF IInv, ServiceBalanced

\* The invariant holds after i8274_init.
LEMMA InitIInv == Init => IInv
  <1> SUFFICES ASSUME Init PROVE IInv
    OBVIOUS
  <1>1. ChipTypeOK
    <2>1. << >> \in Seq(1..MaxTyped) /\ Len(<< >>) = 0
      OBVIOUS
    <2>2. \A c \in Channels : rx[c] = << >> /\ Len(rx[c]) <= FifoSize
      BY <2>1, I8274Assumption DEF Init, I8274Assumption
    <2>3. rx \in [Channels -> Seq(1..MaxTyped)]
      BY <2>1 DEF Init
    <2>4. "TxB" \in Vectors
      BY IrqNames DEF Vectors, IrqsAre
    <2> QED BY <2>2, <2>3, <2>4 DEF Init, ChipTypeOK
  <1>2. DriverTypeOK
    <2>1. pty \in Seq(1..MaxTyped)
      BY DEF Init
    <2>2. 0 \in 0..MaxTyped /\ 0 \in 0..MaxCalls /\ MaxToSend \in 0..MaxToSend
      BY I8274Assumption DEF I8274Assumption
    <2>3. seen \in Vectors
      BY DEF Init, Vectors
    <2>4. resets \in 0..calls
      BY DEF Init
    <2>5. /\ typed \in 0..MaxTyped /\ latest \in 0..MaxTyped /\ calls \in 0..MaxCalls
          /\ tosend \in 0..MaxToSend
      BY <2>2 DEF Init
    <2>6. line \in BOOLEAN /\ busy \in BOOLEAN /\ pc = "base"
      BY DEF Init
    <2> QED BY <2>1, <2>3, <2>4, <2>5, <2>6 DEF DriverTypeOK
  <1>3. AvailableExact
    <2>1. \A c \in Channels : rx[c] = << >> /\ ~rr0.available[c]
      BY DEF Init
    <2> QED BY <2>1 DEF Init, AvailableExact
  <1>4. ServiceBalanced
    BY DEF Init, ServiceBalanced
  <1>5. PointersAtRest
    BY DEF Init, PointersAtRest, Channels
  <1> QED BY <1>1, <1>2, <1>3, <1>4, <1>5 DEF IInv

\* The main loop and the terminal.
LEMMA LoopKeepsIInv ==
  ASSUME ChipTypeOK, DriverTypeOK, AvailableExact, ServiceBalanced, PointersAtRest,
         Slice \/ SliceOfClock \/ Scan \/ Keystroke
  PROVE  IInv'
  <1> USE DEF IInv
  <1>1. CASE Slice
    <2>1. /\ ChipTypeOK' /\ line' \in BOOLEAN /\ (AvailableExact => AvailableExact')
          /\ UNCHANGED <<wr, accepted>>
      BY <1>1, GetIrqFacts DEF Slice, DriverTypeOK
    <2>2. UNCHANGED <<terminal, driver, ghosts>>
      BY <1>1 DEF Slice
    <2> QED BY <2>1, <2>2 DEF DriverTypeOK, ServiceBalanced, PointersAtRest, terminal, driver,
         ghosts
  <1>2. CASE SliceOfClock
    BY <1>2 DEF SliceOfClock, ChipTypeOK, DriverTypeOK, AvailableExact, ServiceBalanced,
                PointersAtRest, chip, terminal, driver, ghosts
  <1>3. CASE Scan
    <2>1. /\ ChipTypeOK' /\ pty' \in Seq(1..MaxTyped) /\ (AvailableExact => AvailableExact')
          /\ UNCHANGED <<wr, accepted>>
      BY <1>3, PtyInFacts DEF Scan, DriverTypeOK
    <2>2. UNCHANGED <<line, typed, driver, ghosts>>
      BY <1>3 DEF Scan
    <2> QED BY <2>1, <2>2 DEF DriverTypeOK, ServiceBalanced, PointersAtRest, driver, ghosts
  <1>4. CASE Keystroke
    <2>1. /\ typed < MaxTyped /\ typed' = typed + 1 /\ pty' = Append(pty, typed + 1)
          /\ UNCHANGED <<chip, line, driver, ghosts>>
      BY <1>4 DEF Keystroke
    <2>2. typed + 1 \in 1..MaxTyped /\ pty \in Seq(1..MaxTyped)
      BY <2>1, I8274Assumption DEF DriverTypeOK, I8274Assumption
    <2>3. pty' \in Seq(1..MaxTyped) /\ typed' \in 0..MaxTyped
      BY <2>1, <2>2, AppendProperties
    <2> QED BY <2>1, <2>3 DEF ChipTypeOK, DriverTypeOK, AvailableExact, ServiceBalanced,
                              PointersAtRest, chip, driver, ghosts
  <1> QED BY <1>1, <1>2, <1>3, <1>4

\* The driver's handler.
LEMMA HandlerKeepsIInv ==
  ASSUME ChipTypeOK, DriverTypeOK, AvailableExact, ServiceBalanced, PointersAtRest,
         Take \/ Serves
  PROVE  IInv'
  <1> USE DEF IInv
  <1>0. "A" \in Channels /\ "B" \in Channels
    BY DEF Channels
  <1>1. CASE Take
    BY <1>1 DEF Take, At, ChipTypeOK, DriverTypeOK, AvailableExact, ServiceBalanced,
                PointersAtRest, Handler, chip, terminal, ghosts
  <1>2. CASE AskVector
    <2>1. /\ ControlWrite("B", SelectRR2) /\ pc = "enter" /\ pc' = "vector"
          /\ UNCHANGED <<line, terminal, seen, tosend, busy, calls, ghosts>>
      BY <1>2 DEF AskVector, At
    <2>2. /\ ChipTypeOK' /\ (AvailableExact => AvailableExact')
          /\ wr'["A"] = wr["A"] /\ accepted' \subseteq accepted
      BY ZenonT(60), <1>0, <2>1, ControlWriteFacts, CommandBytes
    <2>3. DriverTypeOK'
      BY <2>1 DEF DriverTypeOK, Handler, terminal, ghosts
    <2>4. PointersAtRest'
      BY <2>1, <2>2 DEF PointersAtRest
    <2>5. accepted = {}
      BY <2>1 DEF ServiceBalanced
    <2> QED BY <2>2, <2>3, <2>4, <2>5, QuietStep
  <1>3. CASE ReadVector
    <2>1. /\ StatusRead("B") /\ pc = "vector" /\ pc' = "serve"
          /\ seen' = IF wr["B"].ptr = 2 THEN vector ELSE "none"
          /\ UNCHANGED <<line, terminal, tosend, busy, calls, ghosts>>
      BY <1>3 DEF ReadVector, At
    <2>2. accepted = {}
      BY <2>1 DEF ServiceBalanced
    <2>3. /\ ChipTypeOK' /\ (AvailableExact => AvailableExact')
          /\ wr'["A"] = wr["A"] /\ wr'["B"].ptr = 0
          /\ \A i, j \in accepted' : i = j
      BY <1>0, <2>1, <2>2, StatusReadFacts
    <2>4. DriverTypeOK'
      BY <2>1 DEF ChipTypeOK, DriverTypeOK, Handler, Vectors, terminal, ghosts
    <2>5. PointersAtRest'
      BY <2>1, <2>3 DEF PointersAtRest
    <2>6. ServiceBalanced'
      BY <2>1, <2>3 DEF ServiceBalanced
    <2> QED BY <2>3, <2>4, <2>5, <2>6
  <1>4. CASE ServeRx
    <2>1. /\ StatusRead("A") /\ pc' \in {"data", "eoi"} /\ pc = "serve"
          /\ UNCHANGED <<line, terminal, seen, tosend, busy, calls, ghosts>>
      BY <1>4 DEF ServeRx
    <2>2. /\ ChipTypeOK' /\ (AvailableExact => AvailableExact')
          /\ wr'["B"] = wr["B"] /\ wr'["A"].ptr = 0 /\ accepted' = accepted
      BY <1>0, <2>1, StatusReadFacts
    <2>3. DriverTypeOK'
      BY <2>1 DEF DriverTypeOK, Handler, terminal, ghosts
    <2>4. PointersAtRest'
      BY <2>1, <2>2 DEF PointersAtRest
    <2> QED BY <2>1, <2>2, <2>3, <2>4, QuietStep
  <1>5. CASE ReadData
    <2>1. /\ DataIn("A") /\ latest' = Received("A") /\ pc = "data" /\ pc' \in {"serve", "eoi"}
          /\ UNCHANGED <<line, terminal, seen, tosend, busy, calls, resets>>
      BY <1>5 DEF ReadData, At
    <2>2. /\ ChipTypeOK' /\ (AvailableExact => AvailableExact') /\ UNCHANGED <<wr, accepted>>
      BY <1>0, <2>1, DataInFacts
    <2>3. latest' \in 0..MaxTyped
      BY <1>0, <2>1, ReceivedType
    <2>4. DriverTypeOK'
      BY <2>1, <2>3 DEF DriverTypeOK, Handler, terminal
    <2>5. PointersAtRest'
      BY <2>1, <2>2 DEF PointersAtRest
    <2> QED BY <2>1, <2>2, <2>4, <2>5, QuietStep
  <1>6. CASE ServeTx
    <2>1. /\ pc = "serve" /\ pc' = "eoi"
          /\ UNCHANGED <<line, terminal, seen, calls, ghosts>>
      BY <1>6 DEF ServeTx, At
    <2>2. CASE tosend > 0
      <3>1. DataOut("A") /\ tosend' = tosend - 1 /\ busy' = TRUE
        BY <1>6, <2>2 DEF ServeTx
      <3>2. /\ ChipTypeOK' /\ (AvailableExact => AvailableExact') /\ UNCHANGED <<wr, accepted>>
        BY <1>0, <3>1, DataOutFacts
      <3>3. tosend' \in 0..MaxToSend
        BY <2>2, <3>1, I8274Assumption DEF DriverTypeOK, I8274Assumption
      <3>4. DriverTypeOK'
        BY <2>1, <3>1, <3>3 DEF DriverTypeOK, Handler, terminal, ghosts
      <3>5. PointersAtRest'
        BY <2>1, <3>2 DEF PointersAtRest
      <3> QED BY <2>1, <3>2, <3>4, <3>5, QuietStep
    <2>3. CASE ~(tosend > 0)
      <3>1. ControlWrite("A", ResetTxInt) /\ busy' = FALSE /\ UNCHANGED tosend
        BY <1>6, <2>3 DEF ServeTx
      <3>2. /\ ChipTypeOK' /\ (AvailableExact => AvailableExact')
            /\ wr'["A"].ptr = 0 /\ wr'["B"] = wr["B"] /\ accepted' \subseteq accepted
        BY ZenonT(60), <1>0, <3>1, ControlWriteFacts, CommandBytes DEF Commands
      <3>3. DriverTypeOK'
        BY <2>1, <3>1 DEF DriverTypeOK, Handler, terminal, ghosts
      <3>4. PointersAtRest'
        BY <2>1, <3>2 DEF PointersAtRest
      <3> QED BY <2>1, <3>2, <3>3, <3>4, QuietStep
    <2> QED BY <2>2, <2>3
  <1>7. CASE ServeModem
    <2>1. /\ ControlWrite("B", ResetTxInt) /\ pc = "serve" /\ pc' = "eoi"
          /\ UNCHANGED <<line, terminal, seen, tosend, busy, calls, ghosts>>
      BY <1>7 DEF ServeModem, At
    <2>2. /\ ChipTypeOK' /\ (AvailableExact => AvailableExact')
          /\ wr'["B"].ptr = 0 /\ wr'["A"] = wr["A"] /\ accepted' \subseteq accepted
      BY ZenonT(60), <1>0, <2>1, ControlWriteFacts, CommandBytes DEF Commands
    <2>3. DriverTypeOK'
      BY <2>1 DEF DriverTypeOK, Handler, terminal, ghosts
    <2>4. PointersAtRest'
      BY <2>1, <2>2 DEF PointersAtRest
    <2> QED BY <2>1, <2>2, <2>3, <2>4, QuietStep
  <1>8. CASE ServeNothing
    BY <1>8 DEF ServeNothing, At, ChipTypeOK, DriverTypeOK, AvailableExact, ServiceBalanced,
                PointersAtRest, Handler, chip, terminal, ghosts
  <1>9. CASE Eoi
    <2>1. /\ ControlWrite("A", EndOfInterrupt) /\ pc = "eoi" /\ pc' = "base"
          /\ UNCHANGED <<line, terminal, seen, tosend, busy, calls, ghosts>>
      BY <1>9 DEF Eoi, At
    <2>2. wr["A"].ptr = 0 /\ wr["B"].ptr = 0 /\ \A i, j \in accepted : i = j
      BY <2>1 DEF PointersAtRest, ServiceBalanced
    <2>3. /\ ChipTypeOK' /\ (AvailableExact => AvailableExact')
          /\ wr'["A"].ptr = 0 /\ wr'["B"] = wr["B"] /\ accepted' = {}
      BY ZenonT(60), <1>0, <2>1, <2>2, ControlWriteFacts, CommandBytes DEF Commands
    <2>4. DriverTypeOK'
      BY <2>1 DEF DriverTypeOK, Handler, terminal, ghosts
    <2>5. PointersAtRest'
      BY <2>2, <2>3 DEF PointersAtRest
    <2>6. ServiceBalanced'
      BY <2>3 DEF ServiceBalanced
    <2> QED BY <2>3, <2>4, <2>5, <2>6
  <1> QED BY <1>1, <1>2, <1>3, <1>4, <1>5, <1>6, <1>7, <1>8, <1>9 DEF Serves

\* The driver outside its handler.
LEMMA DriverKeepsIInv ==
  ASSUME ChipTypeOK, DriverTypeOK, AvailableExact, ServiceBalanced, PointersAtRest,
         Finishes \/ Open \/ Reset \/ Poll \/ Start \/ SendModem
               \/ \E c \in Channels : Configure(c)
  PROVE  IInv'
  <1> USE DEF IInv
  <1>0. "A" \in Channels /\ "B" \in Channels /\ Channels = {"A", "B"}
    BY DEF Channels
  <1>1. ASSUME Call PROVE calls' \in 0..MaxCalls /\ resets \in 0..calls' /\ resets + 1 \in 0..calls'
    BY <1>1, I8274Assumption DEF Call, DriverTypeOK, I8274Assumption
  <1>2. pc = "base" \/ pc \in {"open", "configure", "poll"} => accepted = {}
    BY DEF ServiceBalanced
  <1>3. CASE Open
    <2>1. /\ ControlWrite("A", SelectWR1) /\ pc = "base" /\ pc' = "open"
          /\ UNCHANGED <<line, terminal, seen, tosend, busy, calls, ghosts>>
      BY <1>3 DEF Open, At
    <2>2. /\ ChipTypeOK' /\ (AvailableExact => AvailableExact')
          /\ wr'["B"] = wr["B"] /\ accepted' \subseteq accepted
      BY ZenonT(60), <1>0, <2>1, ControlWriteFacts, CommandBytes
    <2>3. DriverTypeOK'
      BY <2>1 DEF DriverTypeOK, terminal, ghosts
    <2>4. PointersAtRest'
      BY <2>1, <2>2 DEF PointersAtRest
    <2> QED BY <1>2, <2>1, <2>2, <2>3, <2>4, QuietStep
  <1>4. CASE Opened
    <2>1. /\ ControlWrite("A", AllInts) /\ pc = "open" /\ pc' = "base"
          /\ UNCHANGED <<line, terminal, seen, tosend, busy, calls, ghosts>>
      BY <1>4 DEF Opened, At
    <2>3. /\ ChipTypeOK' /\ (AvailableExact => AvailableExact')
          /\ wr'["A"].ptr = 0 /\ wr'["B"] = wr["B"] /\ accepted' \subseteq accepted
      BY ZenonT(60), <1>0, <2>1, ControlWriteFacts, CommandBytes DEF Commands
    <2>4. DriverTypeOK'
      BY <2>1 DEF DriverTypeOK, terminal, ghosts
    <2>5. PointersAtRest'
      BY <2>1, <2>3 DEF PointersAtRest
    <2> QED BY <1>2, <2>1, <2>3, <2>4, <2>5, QuietStep
  <1>5. CASE \E c \in Channels : Configure(c)
    <2>1. PICK c \in Channels : Configure(c)
      BY <1>5
    <2>2. /\ Call /\ ControlWrite(c, SelectWR1) /\ pc = "base" /\ pc' = "configure"
          /\ UNCHANGED <<line, terminal, seen, tosend, busy, ghosts>>
      BY <2>1 DEF Configure, Call
    <2>3. /\ ChipTypeOK' /\ (AvailableExact => AvailableExact')
          /\ \A d \in Channels \ {c} : wr'[d] = wr[d]
          /\ accepted' \subseteq accepted
      BY ZenonT(20), <2>2, ControlWriteFacts, CommandBytes
    <2>4. DriverTypeOK'
      BY <1>1, <2>2 DEF DriverTypeOK, terminal, ghosts
    <2>5. wr["A"].ptr = 0 /\ wr["B"].ptr = 0
      BY <2>2 DEF PointersAtRest
    <2>6. PointersAtRest'
      BY <1>0, <2>2, <2>3, <2>5 DEF PointersAtRest
    <2> QED BY <1>2, <2>2, <2>3, <2>4, <2>6, QuietStep
  <1>6. CASE \E c \in Channels, byte \in WR1Values : Configured(c, byte)
    <2>1. PICK c \in Channels : \E byte \in WR1Values : Configured(c, byte)
      BY <1>6
    <2>2. PICK byte \in WR1Values : Configured(c, byte)
      BY <2>1
    <2>3. /\ ControlWrite(c, byte) /\ wr[c].ptr = 1 /\ pc = "configure" /\ pc' = "base"
          /\ UNCHANGED <<line, terminal, seen, tosend, busy, calls, ghosts>>
      BY <2>2 DEF Configured, At
    <2>4. byte \in 0..255
      BY CommandBytes
    <2>5. /\ ChipTypeOK' /\ (AvailableExact => AvailableExact')
          /\ wr'[c].ptr = 0 /\ \A d \in Channels \ {c} : wr'[d] = wr[d]
          /\ accepted' \subseteq accepted
      <3>1. ControlWrite(c, byte) /\ wr[c].ptr # 0
        BY <2>3
      <3> QED BY ZenonT(20), <2>4, <3>1, ControlWriteFacts
    <2>6. DriverTypeOK'
      BY <2>3 DEF DriverTypeOK, terminal, ghosts
    <2>7. wr'["A"].ptr = 0 /\ wr'["B"].ptr = 0
      BY <1>0, <2>3, <2>5 DEF PointersAtRest
    <2>8. PointersAtRest'
      BY <2>7 DEF PointersAtRest
    <2> QED BY <1>2, <2>3, <2>5, <2>6, <2>8, QuietStep
  <1>7. CASE PollData
    <2>1. /\ DataIn("A") /\ latest' = Received("A") /\ pc = "poll" /\ pc' = "base"
          /\ UNCHANGED <<line, terminal, seen, tosend, busy, calls, resets>>
      BY <1>7 DEF PollData, At
    <2>2. /\ ChipTypeOK' /\ (AvailableExact => AvailableExact') /\ UNCHANGED <<wr, accepted>>
      BY <1>0, <2>1, DataInFacts
    <2>3. latest' \in 0..MaxTyped
      BY <1>0, <2>1, ReceivedType
    <2>4. DriverTypeOK'
      BY <2>1, <2>3 DEF DriverTypeOK, terminal
    <2>5. PointersAtRest'
      BY <2>1, <2>2 DEF PointersAtRest
    <2> QED BY <1>2, <2>1, <2>2, <2>4, <2>5, QuietStep
  <1>8. CASE Reset
    <2>1. /\ Call /\ ControlWrite("A", ResetChannel) /\ resets' = resets + 1 /\ busy' = FALSE
          /\ pc = "base" /\ UNCHANGED <<line, terminal, pc, seen, tosend, latest>>
      BY <1>8 DEF Reset, Call
    <2>2. /\ ChipTypeOK' /\ (AvailableExact => AvailableExact')
          /\ wr'["A"].ptr = 0 /\ wr'["B"] = wr["B"] /\ accepted' \subseteq accepted
      BY ZenonT(60), <1>0, <2>1, ControlWriteFacts, CommandBytes DEF Commands
    <2>3. DriverTypeOK'
      BY <1>1, <2>1 DEF DriverTypeOK, terminal
    <2>4. PointersAtRest'
      BY <2>1, <2>2 DEF PointersAtRest
    <2> QED BY <2>1, <2>2, <2>3, <2>4, QuietStep
  <1>9. CASE Poll
    <2>1. /\ Call /\ StatusRead("A") /\ pc = "base" /\ pc' \in {"poll", "base"}
          /\ UNCHANGED <<line, terminal, seen, tosend, busy, ghosts>>
      BY <1>9 DEF Poll, Call
    <2>2. /\ ChipTypeOK' /\ (AvailableExact => AvailableExact')
          /\ wr'["B"] = wr["B"] /\ wr'["A"].ptr = 0 /\ accepted' = accepted
      BY <1>0, <2>1, StatusReadFacts
    <2>3. DriverTypeOK'
      BY <1>1, <2>1 DEF DriverTypeOK, terminal, ghosts
    <2>4. PointersAtRest'
      BY <2>1, <2>2 DEF PointersAtRest
    <2> QED BY <1>2, <2>1, <2>2, <2>3, <2>4, QuietStep
  <1>10. CASE Start
    <2>1. /\ DataOut("A") /\ tosend > 0 /\ tosend' = tosend - 1 /\ busy' = TxIntEnabled("A")
          /\ UNCHANGED <<line, terminal, pc, seen, calls, ghosts>>
      BY <1>10 DEF Start
    <2>2. /\ ChipTypeOK' /\ (AvailableExact => AvailableExact') /\ UNCHANGED <<wr, accepted>>
      BY <1>0, <2>1, DataOutFacts
    <2>3. tosend' \in 0..MaxToSend /\ busy' \in BOOLEAN
      BY <2>1, I8274Assumption DEF DriverTypeOK, TxIntEnabled, I8274Assumption
    <2>4. DriverTypeOK'
      BY <2>1, <2>3 DEF DriverTypeOK, terminal, ghosts
    <2>5. PointersAtRest'
      BY <2>1, <2>2 DEF PointersAtRest
    <2> QED BY <2>1, <2>2, <2>4, <2>5, QuietStep
  <1>11. CASE SendModem
    <2>1. /\ Call /\ DataOut("B")
          /\ UNCHANGED <<line, terminal, pc, seen, tosend, busy, ghosts>>
      BY <1>11 DEF SendModem
    <2>2. /\ ChipTypeOK' /\ (AvailableExact => AvailableExact') /\ UNCHANGED <<wr, accepted>>
      BY <1>0, <2>1, DataOutFacts
    <2>3. DriverTypeOK'
      BY <1>1, <2>1 DEF DriverTypeOK, terminal, ghosts
    <2>4. PointersAtRest'
      BY <2>1, <2>2 DEF PointersAtRest
    <2> QED BY <2>1, <2>2, <2>3, <2>4, QuietStep
  <1> QED BY <1>3, <1>4, <1>5, <1>6, <1>7, <1>8, <1>9, <1>10, <1>11 DEF Finishes

\* Every step keeps it.
LEMMA IInvStep == IInv /\ [Next]_vars => IInv'
  <1> SUFFICES ASSUME IInv, [Next]_vars PROVE IInv'
    OBVIOUS
  <1>1. CASE Slice \/ SliceOfClock \/ Scan \/ Keystroke
    BY <1>1, LoopKeepsIInv DEF IInv
  <1>2. CASE Take \/ Serves
    BY <1>2, HandlerKeepsIInv DEF IInv
  <1>3. CASE Finishes \/ Open \/ Reset \/ Poll \/ Start \/ SendModem
             \/ \E c \in Channels : Configure(c)
    BY <1>3, DriverKeepsIInv DEF IInv
  <1>4. CASE UNCHANGED vars
    BY <1>4 DEF IInv, ChipTypeOK, DriverTypeOK, AvailableExact, ServiceBalanced, PointersAtRest,
                vars, chip, terminal, driver, ghosts
  <1> QED BY <1>1, <1>2, <1>3, <1>4 DEF Next

-----------------------------------------------------------------------------
\* Type correctness of the serial controller and its driver: the FIFO never holds
\* more than its size, a vector is always one of the chip's.
THEOREM ChipTypeCorrect == Spec => []TypeOK
  <1>1. IInv => TypeOK
    <2> SUFFICES ASSUME IInv PROVE TypeOK
      OBVIOUS
    <2>1. resets \in 0..MaxCalls
      BY I8274Assumption DEF IInv, DriverTypeOK, I8274Assumption
    <2> QED BY <2>1 DEF IInv, ChipTypeOK, DriverTypeOK, TypeOK
  <1> QED BY <1>1, InitIInv, IInvStep, PTL DEF Spec

\* RR0 shows a byte exactly when the FIFO has one, and a receive interrupt stands only
\* while there is something to read, whatever the driver and the terminal do.
THEOREM RxStatusExact == Spec => []AvailableExact
  <1>1. IInv => AvailableExact
    BY DEF IInv
  <1> QED BY <1>1, InitIInv, IInvStep, PTL DEF Spec

\* At most one interrupt is in service, and none once end_of_interrupt was written:
\* the vector is never left standing still.
THEOREM OneInService == Spec => []ServiceBalanced
  <1>1. IInv => ServiceBalanced
    BY DEF IInv
  <1> QED BY <1>1, InitIInv, IInvStep, PTL DEF Spec

-----------------------------------------------------------------------------
(* The serial line: what is typed and not read is the FIFO and then the pty. *)

LEMMA SeqFront ==
  ASSUME NEW S, NEW p \in Seq(S), NEW n \in Nat, n <= Len(p) PROVE SubSeq(p, 1, n) \in Seq(S)
  <1>1. \A i \in 1..n : p[i] \in S
    BY LenProperties
  <1> QED BY <1>1, SubSeqProperties

\* What pty_in takes it adds.
LEMMA TakenAdds ==
  ASSUME NEW S, NEW r \in Seq(S), NEW p \in Seq(S), NEW n \in Nat, n <= Len(p)
  PROVE  (r \o SubSeq(p, 1, n)) \o SubSeq(p, n + 1, Len(p)) = r \o p
  <1>1. Len(p) \in Nat /\ \A i \in 1..Len(p) : p[i] \in S
    BY LenProperties
  <1>2. SubSeq(p, 1, n) \in Seq(S)
    BY SeqFront
  <1>3. SubSeq(p, n + 1, Len(p)) \in Seq(S)
    <2>1. \A i \in (n + 1)..Len(p) : p[i] \in S
      BY <1>1
    <2> QED BY <1>1, <2>1, SubSeqProperties
  <1>4. SubSeq(p, 1, n) \o SubSeq(p, n + 1, Len(p)) = p
    <2>1. /\ 1 \in 1..(Len(p) + 1) /\ n \in (1 - 1)..Len(p) /\ Len(p) \in n..Len(p)
      BY <1>1
    <2>2. SubSeq(p, 1, n) \o SubSeq(p, n + 1, Len(p)) = SubSeq(p, 1, Len(p))
      BY <2>1, ConcatAdjacentSubSeq
    <2> QED BY <2>2, SubSeqFull
  <1> DEFINE a == SubSeq(p, 1, n)
             b == SubSeq(p, n + 1, Len(p))
  <1>5. a \in Seq(S) /\ b \in Seq(S)
    BY <1>2, <1>3
  <1>6. a \o b = p
    BY <1>4
  <1> HIDE DEF a, b
  <1>7. (r \o a) \o b = r \o p
    <2>1. (r \o a) \o b = r \o (a \o b)
      BY <1>5, ConcatAssociative
    <2> QED BY <1>6, <2>1
  <1> QED BY <1>7 DEF a, b

\* A keystroke comes last.
LEMMA TypedLast ==
  ASSUME NEW S, NEW r \in Seq(S), NEW p \in Seq(S), NEW e \in S
  PROVE  r \o Append(p, e) # << >> /\ SL!Front(r \o Append(p, e)) = r \o p
  <1> DEFINE s == r \o p
             t == r \o Append(p, e)
  <1>1. s \in Seq(S) /\ Len(s) \in Nat
    BY ConcatProperties, LenProperties
  <1>2. t = Append(s, e)
    <2>1. <<e>> \in Seq(S)
      OBVIOUS
    <2>2. Append(p, e) = p \o <<e>> /\ Append(s, e) = s \o <<e>>
      BY <1>1, AppendIsConcat
    <2>3. (r \o p) \o <<e>> = r \o (p \o <<e>>)
      BY <2>1, ConcatAssociative
    <2> QED BY <2>2, <2>3
  <1> HIDE DEF s, t
  <1>3. /\ t \in Seq(S) /\ t # << >> /\ Len(t) = Len(s) + 1
        /\ \A i \in 1..Len(s) : t[i] = s[i]
    BY <1>1, <1>2, AppendProperties
  <1>4. SubSeq(t, 1, Len(t) - 1) = s
    <2>1. Len(t) - 1 = Len(s) /\ \A i \in 1..Len(s) : t[i] \in S
      <3>1. \A i \in 1..Len(s) : s[i] \in S
        BY <1>1, ElementOfSeq
      <3> QED BY <1>1, <1>3, <3>1
    <2> DEFINE f == SubSeq(t, 1, Len(s))
    <2>2. /\ f \in Seq(S) /\ Len(f) = (IF 1 <= Len(s) THEN Len(s) - 1 + 1 ELSE 0)
          /\ \A i \in 1..(Len(s) - 1 + 1) : f[i] = t[1 + i - 1]
      BY <1>1, <2>1, SubSeqProperties
    <2> HIDE DEF f
    <2>3. Len(f) = Len(s) /\ \A i \in 1..Len(s) : f[i] = s[i]
      BY <1>1, <1>3, <2>2
    <2>4. f = s
      BY <1>1, <2>2, <2>3, SeqEqual
    <2> QED BY <2>1, <2>4 DEF f
  <1>5. SL!Front(t) = s
    BY <1>4 DEF SL!Front
  <1> QED BY <1>3, <1>5 DEF s, t

\* The byte in front is the FIFO's.
LEMMA ReadFirst ==
  ASSUME NEW S, NEW r \in Seq(S), NEW p \in Seq(S), r # << >>
  PROVE  r \o p # << >> /\ Head(r \o p) = Head(r) /\ Tail(r \o p) = Tail(r) \o p
  <1> DEFINE s == r \o p
             t == Tail(r)
  <1>1. /\ s \in Seq(S) /\ Len(s) = Len(r) + Len(p) /\ Len(r) \in Nat /\ Len(p) \in Nat
        /\ \A i \in 1..Len(s) : s[i] = IF i <= Len(r) THEN r[i] ELSE p[i - Len(r)]
    BY ConcatProperties, LenProperties
  <1>2. Len(r) # 0
    BY EmptySeq
  <1>3. /\ t \in Seq(S) /\ Len(t) = Len(r) - 1
        /\ \A i \in 1..Len(t) : t[i] = r[i + 1]
    BY HeadTailProperties
  <1> HIDE DEF s, t
  <1>4. Len(s) # 0 /\ s # << >>
    BY <1>1, <1>2, EmptySeq
  <1>5. Head(s) = Head(r)
    BY <1>1, <1>2
  <1>6. /\ Tail(s) \in Seq(S) /\ Len(Tail(s)) = Len(s) - 1
        /\ \A i \in 1..Len(Tail(s)) : Tail(s)[i] = s[i + 1]
    BY <1>1, <1>4, HeadTailProperties
  <1> DEFINE u == Tail(s)
             v == t \o p
  <1>7. /\ v \in Seq(S) /\ Len(v) = Len(t) + Len(p)
        /\ \A i \in 1..(Len(t) + Len(p)) : v[i] = IF i <= Len(t) THEN t[i] ELSE p[i - Len(t)]
    BY <1>3, ConcatProperties
  <1>8. u \in Seq(S) /\ Len(u) = Len(s) - 1 /\ \A i \in 1..Len(u) : u[i] = s[i + 1]
    BY <1>6
  <1> HIDE DEF u, v
  <1>9. Len(u) = Len(v)
    BY <1>1, <1>2, <1>3, <1>7, <1>8
  <1>10. ASSUME NEW i \in 1..Len(u) PROVE u[i] = v[i]
    <2>1. CASE i <= Len(t)
      <3>1. i + 1 <= Len(r) /\ i + 1 \in 1..Len(s) /\ i \in 1..Len(t) /\ i \in 1..(Len(t) + Len(p))
        BY <1>1, <1>2, <1>3, <1>8, <2>1
      <3> QED BY <1>1, <1>3, <1>7, <1>8, <2>1, <3>1
    <2>2. CASE ~(i <= Len(t))
      <3>1. /\ ~(i + 1 <= Len(r)) /\ i + 1 \in 1..Len(s) /\ i \in 1..(Len(t) + Len(p))
            /\ (i + 1) - Len(r) = i - Len(t)
        BY <1>1, <1>2, <1>3, <1>8, <2>2
      <3> QED BY <1>1, <1>7, <1>8, <2>2, <3>1
    <2> QED BY <2>1, <2>2
  <1>11. u = v
    BY <1>7, <1>8, <1>9, <1>10, SeqEqual
  <1> QED BY <1>4, <1>5, <1>11 DEF s, t, u, v

\* A channel reset drops what had come to the FIFO.
LEMMA FifoDropped ==
  ASSUME NEW S, NEW r \in Seq(S), NEW p \in Seq(S)
  PROVE  \E n \in 0..Len(r \o p) : p = SubSeq(r \o p, n + 1, Len(r \o p))
  <1> DEFINE s == r \o p
             n == Len(r)
  <1>1. /\ s \in Seq(S) /\ Len(s) = n + Len(p) /\ n \in Nat /\ Len(p) \in Nat
        /\ \A i \in 1..Len(s) : s[i] = IF i <= n THEN r[i] ELSE p[i - n]
        /\ \A i \in 1..Len(s) : s[i] \in S
    BY ConcatProperties, LenProperties, ElementOfSeq
  <1> HIDE DEF s, n
  <1> DEFINE f == SubSeq(s, n + 1, Len(s))
  <1>2. \A i \in (n + 1)..Len(s) : s[i] \in S
    BY <1>1
  <1>3. /\ f \in Seq(S) /\ Len(f) = (IF n + 1 <= Len(s) THEN Len(s) - (n + 1) + 1 ELSE 0)
        /\ \A i \in 1..(Len(s) - (n + 1) + 1) : f[i] = s[(n + 1) + i - 1]
    BY <1>1, <1>2, SubSeqProperties
  <1> HIDE DEF f
  <1>4. Len(f) = Len(p)
    BY <1>1, <1>3
  <1>5. ASSUME NEW i \in 1..Len(f) PROVE f[i] = p[i]
    <2>1. /\ i \in 1..(Len(s) - (n + 1) + 1) /\ (n + 1) + i - 1 = n + i
          /\ n + i \in 1..Len(s) /\ ~(n + i <= n) /\ (n + i) - n = i
      BY <1>1, <1>4
    <2> QED BY <1>1, <1>3, <2>1
  <1>6. f = p
    BY <1>3, <1>4, <1>5, SeqEqual
  <1>7. n \in 0..Len(s)
    BY <1>1
  <1>8. p = SubSeq(s, n + 1, Len(s))
    BY <1>6 DEF f
  <1> QED BY <1>7, <1>8 DEF s

\* Bytes wait where the driver goes to read one, and between the two accesses of
\* Open the pointer is WR1's, so that what is written there is no command.
ReadReady ==
  /\ pc \in {"data", "poll"} => rx["A"] # << >>
  /\ pc = "open" => wr["A"].ptr = 1

\* Nothing but a reset of channel A, i8274_data_in and pty_in moves its FIFO.
LEMMA FifoStays ==
  ASSUME ChipTypeOK, NEW c \in Channels, NEW byte \in 0..255, ControlWrite(c, byte),
         c = "B" \/ wr[c].ptr # 0 \/ (byte \div 8) % 8 # 3
  PROVE  rx'["A"] = rx["A"]
  <1>1. "A" \in Channels /\ "A" # "B"
    BY DEF Channels
  <1>2. CASE c = "B"
    BY <1>1, <1>2 DEF ControlWrite, ChannelReset, ChipTypeOK
  <1>3. CASE c # "B"
    BY <1>3 DEF ControlWrite
  <1> QED BY <1>2, <1>3

LEMMA CommandsKeepFifo ==
  /\ (SelectWR1 \div 8) % 8 # 3 /\ (SelectRR2 \div 8) % 8 # 3
  /\ (ResetTxInt \div 8) % 8 # 3 /\ (EndOfInterrupt \div 8) % 8 # 3
  BY DEF SelectWR1, SelectRR2, ResetTxInt, EndOfInterrupt

\* A step in which nothing is typed, read or reset.
LEMMA QuietLine ==
  ASSUME rx'["A"] = rx["A"], UNCHANGED <<pty, latest, resets>>,
         pc' \in {"data", "poll"} => pc' = pc \/ rx["A"] # << >>, ReadReady,
         pc' = "open" => wr'["A"].ptr = 1
  PROVE  ReadReady' /\ UNCHANGED SL!slvars
  BY DEF ReadReady, SL!slvars

\* i8274_data_in where there is a byte.
LEMMA DataInReads ==
  ASSUME ChipTypeOK, pty \in Seq(1..MaxTyped), rx["A"] # << >>,
         DataIn("A"), latest' = Received("A"), UNCHANGED <<pty, resets>>
  PROVE  SL!Read
  <1> DEFINE r == rx["A"]
  <1>1. r \in Seq(1..MaxTyped) /\ r # << >>
    BY DEF ChipTypeOK, Channels
  <1>2. rx'["A"] = Tail(r) /\ latest' = Head(r)
    <2>1. rx' = [rx EXCEPT !["A"] = Tail(r)]
      BY <1>1 DEF DataIn
    <2> QED BY <1>1, <2>1 DEF ChipTypeOK, Channels, Received
  <1> HIDE DEF r
  <1>3. r \o pty # << >> /\ Head(r \o pty) = Head(r) /\ Tail(r \o pty) = Tail(r) \o pty
    BY <1>1, ReadFirst
  <1>4. /\ rx["A"] \o pty # << >> /\ latest' = Head(rx["A"] \o pty)
        /\ rx'["A"] \o pty' = Tail(rx["A"] \o pty)
    BY <1>2, <1>3 DEF r
  <1> QED BY <1>4 DEF SL!Read

\* The main loop and the terminal.
LEMMA LoopMeetsLine ==
  ASSUME IInv, ReadReady, Slice \/ SliceOfClock \/ Scan \/ Keystroke
  PROVE  ReadReady' /\ (SL!Type \/ UNCHANGED SL!slvars)
  <1> DEFINE r == rx["A"]
  <1>1. r \in Seq(1..MaxTyped) /\ Len(r) \in Nat /\ Len(r) <= FifoSize /\ pty \in Seq(1..MaxTyped)
    BY LenProperties DEF IInv, ChipTypeOK, DriverTypeOK, Channels
  <1>2. CASE Slice
    <2>1. /\ rx'["A"] = rx["A"] /\ UNCHANGED <<pty, latest, resets, pc, wr>>
      BY <1>2 DEF Slice, GetIrq, terminal, driver, ghosts
    <2> QED BY <2>1, QuietLine DEF ReadReady
  <1>3. CASE SliceOfClock
    <2>1. /\ rx'["A"] = rx["A"] /\ UNCHANGED <<pty, latest, resets, pc, wr>>
      BY <1>3 DEF SliceOfClock, chip, terminal, driver, ghosts
    <2> QED BY <2>1, QuietLine DEF ReadReady
  <1>4. CASE Scan
    <2> DEFINE room == FifoSize - Len(rx["A"])
               n == IF Len(pty) < room THEN Len(pty) ELSE room
               a == SubSeq(pty, 1, n)
               b == SubSeq(pty, n + 1, Len(pty))
    <2>1. /\ rx' = [rx EXCEPT !["A"] = r \o a] /\ pty' = b
          /\ UNCHANGED <<wr, pc, latest, resets>>
      BY <1>4 DEF Scan, PtyIn, driver, ghosts
    <2>2. n \in Nat /\ n <= Len(pty)
      <3>1. room \in Nat /\ Len(pty) \in Nat
        BY <1>1, LenProperties, I8274Assumption DEF I8274Assumption
      <3> QED BY <3>1
    <2> HIDE DEF n, r
    <2>3. (r \o a) \o b = r \o pty
      BY <1>1, <2>2, TakenAdds
    <2>4. a \in Seq(1..MaxTyped)
      <3>1. pty \in Seq(1..MaxTyped)
        BY <1>1
      <3> QED BY <2>2, <3>1, SeqFront, Zenon
    <2> HIDE DEF a, b
    <2>5. rx'["A"] = r \o a
      BY <2>1 DEF IInv, ChipTypeOK, Channels
    <2>6. rx'["A"] \o pty' = rx["A"] \o pty
      BY <2>1, <2>3, <2>5 DEF r
    <2>7. r # << >> => r \o a # << >>
      BY <1>1, <2>4, ConcatEqualIffEmpty
    <2>8. ReadReady'
      BY <2>1, <2>5, <2>7 DEF ReadReady, r
    <2> QED BY <2>1, <2>6, <2>8 DEF SL!slvars
  <1>5. CASE Keystroke
    <2> DEFINE e == typed + 1
    <2>1. /\ pty' = Append(pty, e) /\ UNCHANGED <<rx, wr, pc, latest, resets>> /\ e \in 1..MaxTyped
      BY <1>5, I8274Assumption DEF Keystroke, chip, driver, ghosts, IInv, DriverTypeOK,
         I8274Assumption
    <2> HIDE DEF e, r
    <2>2. r \o Append(pty, e) # << >> /\ SL!Front(r \o Append(pty, e)) = r \o pty
      BY <1>1, <2>1, TypedLast
    <2>3. rx'["A"] \o pty' = r \o Append(pty, e)
      BY <2>1 DEF r
    <2>4. /\ rx'["A"] \o pty' # << >> /\ SL!Front(rx'["A"] \o pty') = rx["A"] \o pty
      BY <2>2, <2>3 DEF r
    <2>5. ReadReady'
      BY <2>1 DEF ReadReady
    <2> QED BY <2>1, <2>4, <2>5 DEF SL!Type
  <1> QED BY <1>2, <1>3, <1>4, <1>5

\* The driver's handler.
LEMMA HandlerMeetsLine ==
  ASSUME IInv, ReadReady, Take \/ Serves
  PROVE  ReadReady' /\ (SL!Read \/ UNCHANGED SL!slvars)
  <1>0. ChipTypeOK /\ "A" \in Channels /\ "B" \in Channels /\ pty \in Seq(1..MaxTyped)
    BY DEF IInv, DriverTypeOK, Channels
  <1>1. CASE Take
    <2>1. rx'["A"] = rx["A"] /\ pc' = "enter" /\ UNCHANGED <<pty, latest, resets>>
      BY <1>1 DEF Take, At, chip, terminal, ghosts
    <2> QED BY <2>1, QuietLine
  <1>2. CASE AskVector
    <2>1. ControlWrite("B", SelectRR2) /\ pc' = "vector" /\ UNCHANGED <<pty, latest, resets>>
      BY <1>2 DEF AskVector, At, terminal, ghosts
    <2>2. rx'["A"] = rx["A"]
      BY ZenonT(30), <1>0, <2>1, FifoStays, CommandBytes
    <2> QED BY <2>1, <2>2, QuietLine
  <1>3. CASE ReadVector
    <2>1. rx'["A"] = rx["A"] /\ pc' = "serve" /\ UNCHANGED <<pty, latest, resets>>
      BY <1>3 DEF ReadVector, At, StatusRead, terminal, ghosts
    <2> QED BY <2>1, QuietLine
  <1>4. CASE ServeRx
    <2>1. /\ rx'["A"] = rx["A"] /\ UNCHANGED <<pty, latest, resets>>
          /\ pc' = IF rr0.available["A"] THEN "data" ELSE "eoi"
      BY <1>4 DEF ServeRx, StatusRead, terminal, ghosts
    <2>2. rr0.available["A"] => rx["A"] # << >>
      BY <1>0 DEF IInv, AvailableExact
    <2> QED BY <2>1, <2>2, QuietLine
  <1>5. CASE ReadData
    <2>1. /\ DataIn("A") /\ latest' = Received("A") /\ pc = "data" /\ pc' \in {"serve", "eoi"}
          /\ UNCHANGED <<pty, resets>>
      BY <1>5 DEF ReadData, At, terminal
    <2>2. rx["A"] # << >>
      BY <2>1 DEF ReadReady
    <2>3. SL!Read
      BY <1>0, <2>1, <2>2, DataInReads
    <2>4. ReadReady'
      BY <2>1 DEF ReadReady
    <2> QED BY <2>3, <2>4
  <1>6. CASE ServeTx
    <2>1. pc' = "eoi" /\ UNCHANGED <<pty, latest, resets>>
      BY <1>6 DEF ServeTx, At, terminal, ghosts
    <2>2. rx'["A"] = rx["A"]
      <3>1. CASE DataOut("A")
        BY <3>1 DEF DataOut
      <3>2. CASE ControlWrite("A", ResetTxInt)
        BY ZenonT(30), <1>0, <3>2, FifoStays, CommandBytes, CommandsKeepFifo DEF Commands
      <3> QED BY <1>6, <3>1, <3>2 DEF ServeTx
    <2> QED BY <2>1, <2>2, QuietLine
  <1>7. CASE ServeModem
    <2>1. ControlWrite("B", ResetTxInt) /\ pc' = "eoi" /\ UNCHANGED <<pty, latest, resets>>
      BY <1>7 DEF ServeModem, At, terminal, ghosts
    <2>2. rx'["A"] = rx["A"]
      BY ZenonT(30), <1>0, <2>1, FifoStays, CommandBytes DEF Commands
    <2> QED BY <2>1, <2>2, QuietLine
  <1>8. CASE ServeNothing
    <2>1. rx'["A"] = rx["A"] /\ pc' = "eoi" /\ UNCHANGED <<pty, latest, resets>>
      BY <1>8 DEF ServeNothing, At, chip, terminal, ghosts
    <2> QED BY <2>1, QuietLine
  <1>9. CASE Eoi
    <2>1. /\ ControlWrite("A", EndOfInterrupt) /\ pc' = "base"
          /\ UNCHANGED <<pty, latest, resets>>
      BY <1>9 DEF Eoi, At, terminal, ghosts
    <2>2. rx'["A"] = rx["A"]
      BY ZenonT(30), <1>0, <2>1, FifoStays, CommandBytes, CommandsKeepFifo DEF Commands
    <2> QED BY <2>1, <2>2, QuietLine
  <1> QED BY <1>1, <1>2, <1>3, <1>4, <1>5, <1>6, <1>7, <1>8, <1>9 DEF Serves

\* The driver outside its handler.  AllInts, written to WR0, would be a reset that no
\* one asked for: Open's first access leaves WR1 selected.
LEMMA DriverMeetsLine ==
  ASSUME IInv, ReadReady,
         Finishes \/ Open \/ Reset \/ Poll \/ Start \/ SendModem
               \/ \E c \in Channels : Configure(c)
  PROVE  ReadReady' /\ (SL!Read \/ SL!Reset \/ UNCHANGED SL!slvars)
  <1>0. ChipTypeOK /\ "A" \in Channels /\ "B" \in Channels /\ pty \in Seq(1..MaxTyped)
    BY DEF IInv, DriverTypeOK, Channels
  <1>1. CASE Open
    <2>1. ControlWrite("A", 1) /\ pc = "base" /\ pc' = "open" /\ UNCHANGED <<pty, latest, resets>>
      BY <1>1 DEF Open, At, SelectWR1, terminal, ghosts
    <2>2. rx'["A"] = rx["A"] /\ wr'["A"].ptr = 1
      <3>1. wr["A"].ptr = 0
        BY <2>1 DEF IInv, PointersAtRest
      <3>2. (1 \div 8) % 8 = 0 /\ 1 % 8 = 1
        OBVIOUS
      <3>3. UNCHANGED rx /\ wr' = [wr EXCEPT !["A"] = [ptr |-> 1, wr1 |-> wr["A"].wr1]]
        BY <1>0, <2>1, <3>1, <3>2 DEF ControlWrite, ChipTypeOK
      <3> QED BY <1>0, <3>3 DEF ChipTypeOK
    <2> QED BY <2>1, <2>2, QuietLine
  <1>2. CASE Opened
    <2>1. ControlWrite("A", AllInts) /\ pc = "open" /\ pc' = "base" /\ UNCHANGED <<pty, latest, resets>>
      BY <1>2 DEF Opened, At, terminal, ghosts
    <2>2. wr["A"].ptr # 0
      BY <2>1 DEF ReadReady
    <2>3. rx'["A"] = rx["A"]
      BY ZenonT(30), <1>0, <2>1, <2>2, FifoStays, CommandBytes DEF Commands
    <2> QED BY <2>1, <2>3, QuietLine
  <1>3. CASE \E c \in Channels : Configure(c)
    <2>1. PICK c \in Channels : Configure(c)
      BY <1>3
    <2>2. ControlWrite(c, SelectWR1) /\ pc' = "configure" /\ UNCHANGED <<pty, latest, resets>>
      BY <2>1 DEF Configure, terminal, ghosts
    <2>3. rx'["A"] = rx["A"]
      BY ZenonT(30), <1>0, <2>2, FifoStays, CommandBytes, CommandsKeepFifo
    <2> QED BY <2>2, <2>3, QuietLine
  <1>4. CASE \E c \in Channels, byte \in WR1Values : Configured(c, byte)
    <2>1. PICK c \in Channels : \E byte \in WR1Values : Configured(c, byte)
      BY <1>4
    <2>2. PICK byte \in WR1Values : Configured(c, byte)
      BY <2>1
    <2>3. /\ ControlWrite(c, byte) /\ wr[c].ptr # 0 /\ pc' = "base"
          /\ UNCHANGED <<pty, latest, resets>>
      BY <2>2 DEF Configured, At, terminal, ghosts
    <2>4. byte \in 0..255
      BY CommandBytes
    <2>5. rx'["A"] = rx["A"]
      BY ZenonT(30), <1>0, <2>3, <2>4, FifoStays
    <2> QED BY <2>3, <2>5, QuietLine
  <1>5. CASE PollData
    <2>1. /\ DataIn("A") /\ latest' = Received("A") /\ pc = "poll" /\ pc' = "base"
          /\ UNCHANGED <<pty, resets>>
      BY <1>5 DEF PollData, At, terminal
    <2>2. rx["A"] # << >>
      BY <2>1 DEF ReadReady
    <2>3. SL!Read
      BY <1>0, <2>1, <2>2, DataInReads
    <2>4. ReadReady'
      BY <2>1 DEF ReadReady
    <2> QED BY <2>3, <2>4
  <1>6. CASE Reset
    <2>1. /\ ControlWrite("A", 24) /\ pc = "base" /\ pc' = "base"
          /\ resets' = resets + 1 /\ UNCHANGED <<pty, latest>>
      BY <1>6 DEF Reset, Call, ResetChannel, terminal
    <2>2. wr["A"].ptr = 0 /\ (24 \div 8) % 8 = 3
      BY <2>1 DEF IInv, PointersAtRest
    <2>3. ChannelReset("A")
      BY <2>1, <2>2 DEF ControlWrite
    <2> DEFINE r == rx["A"]
    <2>4. rx'["A"] = << >> /\ r \in Seq(1..MaxTyped)
      BY <1>0, <2>3 DEF ChannelReset, ChipTypeOK
    <2>5. << >> \o pty = pty
      BY <1>0, ConcatEmptySeq
    <2>6. rx'["A"] \o pty' = pty
      BY <2>1, <2>4, <2>5
    <2> HIDE DEF r
    <2>7. \E n \in 0..Len(r \o pty) : pty = SubSeq(r \o pty, n + 1, Len(r \o pty))
      BY ZenonT(30), <1>0, <2>4, FifoDropped
    <2>8. SL!Reset
      BY <2>1, <2>6, <2>7 DEF SL!Reset, r
    <2>9. ReadReady'
      BY <2>1 DEF ReadReady
    <2> QED BY <2>8, <2>9
  <1>7. CASE Poll
    <2>1. /\ rx'["A"] = rx["A"] /\ UNCHANGED <<pty, latest, resets>> /\ pc = "base"
          /\ pc' = IF rr0.available["A"] THEN "poll" ELSE pc
      BY <1>7 DEF Poll, Call, StatusRead, terminal, ghosts
    <2>2. rr0.available["A"] => rx["A"] # << >>
      BY <1>0 DEF IInv, AvailableExact
    <2> QED BY <2>1, <2>2, QuietLine
  <1>8. CASE Start
    <2>1. rx'["A"] = rx["A"] /\ pc = "base" /\ pc' = "base" /\ UNCHANGED <<pty, latest, resets>>
      BY <1>8 DEF Start, DataOut, terminal, ghosts
    <2> QED BY <2>1, QuietLine
  <1>9. CASE SendModem
    <2>1. rx'["A"] = rx["A"] /\ pc = "base" /\ pc' = "base" /\ UNCHANGED <<pty, latest, resets>>
      BY <1>9 DEF SendModem, Call, DataOut, terminal, ghosts
    <2> QED BY <2>1, QuietLine
  <1> QED BY <1>1, <1>2, <1>3, <1>4, <1>5, <1>6, <1>7, <1>8, <1>9 DEF Finishes

LEMMA InitMeetsLine == Init => ReadReady /\ SL!SLInit
  <1> SUFFICES ASSUME Init PROVE ReadReady /\ SL!SLInit
    OBVIOUS
  <1>1. rx["A"] = << >> /\ pty = << >> /\ resets = 0 /\ pc = "base"
    BY DEF Init, Channels
  <1>2. << >> \o << >> = << >>
    OBVIOUS
  <1> QED BY <1>1, <1>2 DEF ReadReady, SL!SLInit

LEMMA StepMeetsLine ==
  IInv /\ ReadReady /\ [Next]_vars => ReadReady' /\ [SL!SLNext]_(SL!slvars)
  <1> SUFFICES ASSUME IInv, ReadReady, [Next]_vars PROVE ReadReady' /\ [SL!SLNext]_(SL!slvars)
    OBVIOUS
  <1>1. CASE Slice \/ SliceOfClock \/ Scan \/ Keystroke
    BY <1>1, LoopMeetsLine DEF SL!SLNext
  <1>2. CASE Take \/ Serves
    BY <1>2, HandlerMeetsLine DEF SL!SLNext
  <1>3. CASE Finishes \/ Open \/ Reset \/ Poll \/ Start \/ SendModem
             \/ \E c \in Channels : Configure(c)
    BY <1>3, DriverMeetsLine DEF SL!SLNext
  <1>4. CASE UNCHANGED vars
    BY <1>4 DEF ReadReady, SL!slvars, vars, chip, terminal, driver, ghosts
  <1> QED BY <1>1, <1>2, <1>3, <1>4 DEF Next

\* The controller, its interrupts and its driver are a serial line: with a FIFO of any
\* size, every byte typed is read in its turn and once, by interrupt or by polling, and
\* only a channel reset loses any.
THEOREM ChipIsSerialLine == Spec => ImplementsSerialLine
  <1>1. Spec => SL!SLSpec
    BY InitIInv, IInvStep, InitMeetsLine, StepMeetsLine, PTL DEF Spec, SL!SLSpec
  <1> QED BY <1>1 DEF ImplementsSerialLine
=============================================================================
