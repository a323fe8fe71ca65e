------------------------------ MODULE IoPorts ------------------------------
(***************************************************************************)
(* Three devices behind memory.c's ports that the main thread only writes  *)
(* through and another actor works for: the dialer with SDL's audio        *)
(* thread, the screen with the 60 Hz turn, and the clock with the host's   *)
(* time.  They share the main thread: while dialer_write waits for the     *)
(* audio thread neither the guest nor the 60 Hz turn goes on.              *)
(*                                                                         *)
(* The guest is one program that works with one device at a time and       *)
(* leaves it at rest (Switch), which keeps the product of the three small. *)
(* The other actors never rest.                                            *)
(***************************************************************************)
EXTENDS Dialer, Screen, RealTimeClock

VARIABLE using  \* the device the guest works with

vars == <<sound, display, clock, using>>

Ports == {"dialer", "screen", "clock"}

TypeOK == DialerTypeOK /\ ScreenTypeOK /\ ClockTypeOK /\ using \in Ports

Init == DialerInit /\ ScreenInit /\ ClockInit /\ using \in Ports

AtRest ==
  CASE using = "dialer" -> /\ writer = "idle" /\ reg = <<0, 0>> /\ ~tone.active
                           /\ tone.phase_lo = 0 /\ tone.phase_hi = 0
    [] using = "screen" -> ~vram_updated /\ last_leds = leds
    [] using = "clock"  -> \A r \in Registers : date[r] = NotRead

Switch(p) ==
  /\ p # using /\ AtRest
  /\ using' = p
  /\ UNCHANGED <<sound, display, clock>>

\* IoWrite and IoRead of one access.
Access ==
  /\ writer = "idle"
  /\ \/ /\ using = "dialer"
        /\ (\E b \in LowBytes : LoadLower(b)) \/ (\E b \in HighBytes : LoadHigher(b))
        /\ UNCHANGED <<display, clock, using>>
     \/ using = "screen" /\ ScreenGuest /\ UNCHANGED <<sound, clock, using>>
     \/ using = "clock" /\ ClockGuest /\ UNCHANGED <<sound, display, using>>

MainThreadInDialer == DialerWrites /\ UNCHANGED <<display, clock, using>>

SixtyHertz == writer = "idle" /\ Tick /\ UNCHANGED <<sound, clock, using>>

SdlAudio == AudioThread /\ UNCHANGED <<display, clock, using>>

HostTime == HostClock /\ UNCHANGED <<sound, display, using>>

Next ==
  \/ Access \/ MainThreadInDialer \/ SixtyHertz
  \/ SdlAudio \/ HostTime
  \/ \E p \in Ports : Switch(p)

Spec == Init /\ [][Next]_vars /\ DialerFairness
=============================================================================
