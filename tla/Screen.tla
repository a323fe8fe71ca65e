------------------------------- MODULE Screen -------------------------------
(***************************************************************************)
(* The screen and its status bar: writes to video RAM, reverse video and   *)
(* the LEDs in memory.c, and the part of main.c's 60 Hz turn that brings   *)
(* the window up to date.  The turn looks at two flags, vram_updated and   *)
(* last_leds, to leave out what has not changed; refreshScreen draws over  *)
(* the corner that the LEDs are in.                                        *)
(***************************************************************************)
EXTENDS Integers

CONSTANTS VideoWords, \* the addresses of video RAM
          Pictures,   \* what a word of it can hold
          LedStates   \* the states of the four LEDs

ASSUME ScreenAssumption == 0 \in Pictures /\ 0 \in LedStates /\ LedStates \subseteq 0..15

VARIABLES vram,          \* state.vram
          reverse_video, \* state.reverse_video
          vram_updated,  \* state.vram_updated
          leds,          \* state.leds
          last_leds,     \* the LEDs main last drew
          window         \* what the window shows: the picture, and the LEDs over it

display == <<vram, reverse_video, vram_updated, leds, last_leds, window>>

\* The value of last_leds that is no state of the LEDs.
Undrawn == 255

\* The corner of a picture with no LEDs drawn over it.
Bare == 255

ScreenTypeOK ==
  /\ vram \in [VideoWords -> Pictures]
  /\ reverse_video \in BOOLEAN /\ vram_updated \in BOOLEAN
  /\ leds \in LedStates /\ last_leds \in LedStates \cup {Undrawn}
  /\ window \in [words : [VideoWords -> Pictures], reversed : BOOLEAN, bar : LedStates \cup {Bare}]

\* state_init, and the black window of a renderer nothing was drawn with.
ScreenInit ==
  /\ vram = [a \in VideoWords |-> 0]
  /\ reverse_video = FALSE /\ vram_updated = FALSE
  /\ leds = 0 /\ last_leds = Undrawn
  /\ window = [words |-> vram, reversed |-> FALSE, bar |-> Bare]

-----------------------------------------------------------------------------
(* The guest.                                                               *)

\* A write to video RAM marks it updated, whatever it writes.
WriteVideo(a, w) ==
  /\ vram' = [vram EXCEPT ![a] = w]
  /\ vram_updated' = TRUE
  /\ UNCHANGED <<reverse_video, leds, last_leds, window>>

\* Only a change of it is a reason to draw.
SetReverseVideo(on) ==
  /\ reverse_video' = on
  /\ vram_updated' = (vram_updated \/ on # reverse_video)
  /\ UNCHANGED <<vram, leds, last_leds, window>>

\* The low part of MISCCON; its other bits are in Interrupts and DiskDma.
SetLeds(on) ==
  /\ leds' = on
  /\ UNCHANGED <<vram, reverse_video, vram_updated, last_leds, window>>

-----------------------------------------------------------------------------
(* The 60 Hz turn.                                                          *)

\* refreshScreen: every word of video RAM, with the colours of the moment.
RefreshScreen == [words |-> vram, reversed |-> reverse_video, bar |-> Bare]

\* refreshStatusBar.
RefreshStatusBar(w) == [w EXCEPT !.bar = leds]

\* Mutant of Tick: the LEDs are drawn when they have changed.
TickDrawsChangedLeds ==
  LET w == IF vram_updated THEN RefreshScreen ELSE window
  IN /\ window' = IF last_leds # leds THEN RefreshStatusBar(w) ELSE w
     /\ last_leds' = leds /\ vram_updated' = FALSE
     /\ UNCHANGED <<vram, reverse_video, leds>>

Tick ==
  LET w == IF vram_updated THEN RefreshScreen ELSE window
  IN /\ window' = IF vram_updated \/ last_leds # leds THEN RefreshStatusBar(w) ELSE w
     /\ last_leds' = leds /\ vram_updated' = FALSE
     /\ UNCHANGED <<vram, reverse_video, leds>>

ScreenGuest ==
  \/ \E a \in VideoWords, w \in Pictures : WriteVideo(a, w)
  \/ \E on \in BOOLEAN : SetReverseVideo(on)
  \/ \E on \in LedStates : SetLeds(on)

-----------------------------------------------------------------------------
\* The flags never hide a change: while neither says that something is to be
\* drawn, the window shows video RAM, in its present sense, with the present LEDs
\* over it (the tests of main.c:600 and 603 leave nothing out).
WindowFollows ==
  /\ ~vram_updated => window.words = vram /\ window.reversed = reverse_video
  /\ last_leds = leds => window.bar = leds
=============================================================================
