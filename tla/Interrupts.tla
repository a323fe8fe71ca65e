----------------------------- MODULE Interrupts -----------------------------
(***************************************************************************)
(* From the user's keys and the 60 Hz clock to the guest's handlers: the   *)
(* main loop of main.c presents the highest level that is wanted once per  *)
(* slice of CPU time, and holds it until the next; the clock's latch is    *)
(* set by the main loop and cleared by the CLRSINT bit of the              *)
(* Miscellaneous Control Register (memory.c); the keyboard is Keyboard.    *)
(*                                                                         *)
(* The CPU core is outside the repository: it takes a presented level      *)
(* above its mask, and the handler runs with that level for its mask.  So  *)
(* is the kernel: each handler serves its source and returns, and the base *)
(* level may raise its mask for a while.  The 8274 and the two disc        *)
(* controllers are lines that go up, and that reading a status clears.     *)
(* The ghost owed is a tick that was latched and not taken.                *)
(***************************************************************************)
EXTENDS Integers, Sequences, FiniteSets

CONSTANTS BufferSize, Keymap, Moves, MaxEvents,
          GuestReadsEmpty, GuestResetsMouse, \* Keyboard's
          MaxRaises,   \* bound on the interrupts of each device
          MaxTicks,    \* bound on the ticks of the clock
          LongHandlers \* a handler returns in a later slice than it serves

VARIABLES keystate, update_flag, mouse_enabled, lastdata_mouse, fifo, rxie,
          held, alt, events, sent, intact, decoder, received, seen, \* Keyboard's
          latch, clrsint, \* state.timer_int_latch, timer_clrsint
          ticks,          \* ticks so far
          presented,      \* the level set by the last m68k_set_irq
          pending, raises, \* the devices' interrupts
          cpu,            \* the mask, those interrupted, the levels served
          owed            \* ghost

K == INSTANCE Keyboard

kbd == <<keystate, update_flag, mouse_enabled, lastdata_mouse, fifo, rxie,
         held, alt, events, sent, intact, decoder, received, seen>>
clock == <<latch, clrsint, owed>>
devices == <<pending, raises>>
vars == <<kbd, clock, ticks, presented, devices, cpu>>

\* The two disc controllers share a level and a line.
Devices == {"serial", "disc"}
Levels == {2, 3, 4, 6}

ASSUME InterruptsAssumption == MaxRaises \in Nat /\ MaxTicks \in Nat /\ LongHandlers \in BOOLEAN

TypeOK ==
  /\ latch \in BOOLEAN /\ clrsint \in BOOLEAN /\ owed \in BOOLEAN
  /\ presented \in {0} \cup Levels /\ ticks \in 0..MaxTicks
  /\ pending \in [Devices -> BOOLEAN] /\ raises \in [Devices -> 0..MaxRaises]
  /\ cpu \in [mask : {0} \cup Levels, frames : Seq({0} \cup Levels),
              served : SUBSET Levels, held_over : BOOLEAN]

Init ==
  /\ K!Init
  /\ latch = FALSE /\ clrsint = FALSE /\ owed = FALSE
  /\ presented = 0 /\ ticks = 0
  /\ pending = [d \in Devices |-> FALSE] /\ raises = [d \in Devices |-> 0]
  /\ cpu = [mask |-> 0, frames |-> << >>, served |-> {}, held_over |-> FALSE]

-----------------------------------------------------------------------------
(* The main loop.                                                           *)

Highest ==
  IF latch THEN 6
  ELSE IF pending["serial"] THEN 4
  ELSE IF K!KeyboardIrq THEN 3
  ELSE IF pending["disc"] THEN 2
  ELSE 0

\* Mutants of Slice: a tick is presented once; a level is never taken back.
SliceDropsTick ==
  /\ presented' = Highest
  /\ latch' = FALSE
  /\ cpu' = [cpu EXCEPT !.held_over = FALSE]
  /\ UNCHANGED <<kbd, clrsint, owed, devices, ticks>>
SliceOnlyRaises ==
  /\ presented' = IF Highest > presented THEN Highest ELSE presented
  /\ cpu' = [cpu EXCEPT !.held_over = FALSE]
  /\ UNCHANGED <<kbd, clock, devices, ticks>>

\* The end of a slice: whatever is wanted now is what the next slice sees.
Slice ==
  /\ presented' = Highest
  /\ cpu' = [cpu EXCEPT !.held_over = FALSE]
  /\ UNCHANGED <<kbd, clock, devices, ticks>>

Raised(d) == raises[d] < MaxRaises /\ pending' = [pending EXCEPT ![d] = TRUE]
               /\ raises' = [raises EXCEPT ![d] = @ + 1]

\* The 60 Hz part of the main loop.  It scans the keyboard and the serial port.
Tick ==
  /\ ticks < MaxTicks /\ ticks' = ticks + 1
  /\ latch' = (latch \/ clrsint) /\ owed' = (owed \/ clrsint)
  /\ K!Scan
  /\ Raised("serial") \/ UNCHANGED devices
  /\ UNCHANGED <<clrsint, presented, cpu>>

\* The end of a transfer or of a seek.
RaiseDisc ==
  /\ Raised("disc")
  /\ UNCHANGED <<kbd, clock, presented, cpu, ticks>>

\* The user comes to rest before the last tick.
User ==
  /\ ticks < MaxTicks
  /\ K!UserNext
  /\ UNCHANGED <<clock, presented, devices, cpu, ticks>>

-----------------------------------------------------------------------------
(* The CPU and the kernel.                                                  *)

Take ==
  /\ presented > cpu.mask
  /\ cpu' = [cpu EXCEPT !.mask = presented, !.frames = Append(@, cpu.mask),
                        !.served = @ \ {presented}]
  /\ owed' = (owed /\ presented # 6)
  /\ UNCHANGED <<kbd, latch, clrsint, presented, devices, ticks>>

InHandler(l) == cpu.frames # << >> /\ cpu.mask = l
AtBase == cpu.frames = << >>

Serve(l) == cpu' = [cpu EXCEPT !.served = @ \cup {l}, !.held_over = TRUE]

\* Mutant of WriteMcr: CLRSINT low keeps new ticks out and leaves the one there is.
WriteMcrKeepsLatch(b) ==
  /\ clrsint' = b
  /\ latch' = latch
  /\ owed' = (owed /\ b)

\* CLRSINT of the Miscellaneous Control Register.
WriteMcr(b) ==
  /\ clrsint' = b
  /\ latch' = (latch /\ b)
  /\ owed' = (owed /\ b)

\* The clock's handler pulses CLRSINT low and back.
Dismiss ==
  /\ InHandler(6) /\ 6 \notin cpu.served /\ clrsint
  /\ WriteMcr(FALSE)
  /\ UNCHANGED <<kbd, presented, devices, cpu, ticks>>

Rearm ==
  /\ ~clrsint /\ WriteMcr(TRUE)
  /\ \/ InHandler(6) /\ Serve(6)
     \/ AtBase /\ UNCHANGED cpu
  /\ UNCHANGED <<kbd, presented, devices, ticks>>

ServeDevice(d) ==
  LET l == IF d = "serial" THEN 4 ELSE 2 IN
  /\ InHandler(l) /\ pending[d]
  /\ pending' = [pending EXCEPT ![d] = FALSE]
  /\ Serve(l)
  /\ UNCHANGED <<kbd, clock, presented, raises, ticks>>

\* The keyboard's handler takes a byte when the status says there is one.
ServeKeyboard ==
  /\ InHandler(3) /\ fifo.buflen > 0
  /\ K!ReadData
  /\ Serve(3)
  /\ UNCHANGED <<clock, presented, devices, ticks>>

Idle(l) == CASE l = 2 -> ~pending["disc"]
             [] l = 3 -> fifo.buflen = 0
             [] l = 4 -> ~pending["serial"]
             [] l = 6 -> FALSE

Return ==
  /\ cpu.frames # << >>
  /\ cpu.mask \in cpu.served \/ Idle(cpu.mask)
  /\ LongHandlers => ~cpu.held_over
  /\ cpu' = [cpu EXCEPT !.mask = cpu.frames[Len(cpu.frames)],
                        !.frames = SubSeq(@, 1, Len(@) - 1)]
  /\ UNCHANGED <<kbd, clock, presented, devices, ticks>>

SetMask(l) ==
  /\ AtBase
  /\ cpu' = [cpu EXCEPT !.mask = l]
  /\ UNCHANGED <<kbd, clock, presented, devices, ticks>>

EnableKeyboard ==
  /\ AtBase /\ ~rxie
  /\ K!WriteControl(FALSE, TRUE)
  /\ UNCHANGED <<clock, presented, devices, cpu, ticks>>

-----------------------------------------------------------------------------
Handlers == Dismiss \/ Rearm \/ (\E d \in Devices : ServeDevice(d)) \/ ServeKeyboard \/ Return

Next ==
  \/ Slice \/ Tick \/ RaiseDisc \/ User
  \/ Take \/ Handlers
  \/ \E l \in {0, 6} : SetMask(l)
  \/ EnableKeyboard

Spec == Init /\ [][Next]_vars

\* The main loop goes round; handlers finish; the CPU takes what is presented
\* above its mask, sooner or later, if the base level raises and lowers the mask
\* again and again; the base level lowers its mask and enables the keyboard.
Fairness ==
  /\ WF_vars(Slice) /\ WF_vars(Tick) /\ WF_vars(Handlers) /\ SF_vars(Take)
  /\ WF_vars(cpu.mask = 6 /\ SetMask(0)) /\ WF_vars(EnableKeyboard)

FairSpec == Spec /\ Fairness

-----------------------------------------------------------------------------
(* What the interrupts promise.                                             *)

\* main.c:579, level 6 "stays asserted until the guest dismisses it via
\* MCR.CLRSINT": the clock's handler runs once for a tick, for level 6 is taken
\* only for one that was latched since it was last taken or dismissed.
OneClockPerTick == [][Take /\ presented = 6 => owed]_vars

\* main.c:579, "it must not be dropped just because the CPU hasn't got around to
\* taking it yet": a latched tick is taken, however long the guest masks it.
TickServed == owed ~> ~owed

\* main.c:576, "a level which is still pending is re-presented once a higher one
\* has been serviced": no device waits for ever.
DevicesServed == \A d \in Devices : pending[d] ~> ~pending[d]

\* What the user does reaches the guest: when the user has come to rest, the
\* guest sees the keys that are down, through events, scan, ring, interrupt and
\* handler, for as long as the ring was not overrun.
KeysReachGuest == <>[](intact => seen = keystate)
=============================================================================
