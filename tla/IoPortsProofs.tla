---------------------------- MODULE IoPortsProofs ----------------------------
(***************************************************************************)
(* Proofs about the dialer, the screen and the clock on their main thread: *)
(* for any frequencies, buffer size, video RAM and host clock, and for any *)
(* interleaving of the main thread with the audio thread.                  *)
(***************************************************************************)
EXTENDS IoPorts, SequenceTheorems, TLAPS

-----------------------------------------------------------------------------
(* The screen.                                                              *)

Windows == [words : [VideoWords -> Pictures], reversed : BOOLEAN, bar : LedStates \cup {Bare}]

\* The LEDs in the window are those last drawn, and a picture that is not to be
\* drawn again is there.
ScreenInv ==
  /\ ScreenTypeOK
  /\ window.bar = last_leds
  /\ ~vram_updated => window.words = vram /\ window.reversed = reverse_video

LEMMA ScreenStarts == ASSUME ScreenInit PROVE ScreenInv
<1>1. vram \in [VideoWords -> Pictures]
  BY ScreenAssumption DEF ScreenInit
<1>2. window \in [words : [VideoWords -> Pictures], reversed : BOOLEAN, bar : LedStates \cup {Bare}]
  BY <1>1 DEF ScreenInit
<1>3. leds \in LedStates /\ last_leds \in LedStates \cup {Undrawn}
  BY ScreenAssumption DEF ScreenInit
<1>4. window.bar = last_leds /\ window.words = vram /\ window.reversed = reverse_video
  BY DEF ScreenInit, Bare, Undrawn
<1> QED
  BY <1>1, <1>2, <1>3, <1>4 DEF ScreenInit, ScreenInv, ScreenTypeOK

LEMMA ScreenGuestKeeps == ASSUME ScreenInv, ScreenGuest PROVE ScreenInv'
<1>1. ASSUME NEW a \in VideoWords, NEW w \in Pictures, WriteVideo(a, w) PROVE ScreenInv'
  BY <1>1 DEF WriteVideo, ScreenInv, ScreenTypeOK
<1>2. ASSUME NEW on \in BOOLEAN, SetReverseVideo(on) PROVE ScreenInv'
  BY <1>2 DEF SetReverseVideo, ScreenInv, ScreenTypeOK
<1>3. ASSUME NEW on \in LedStates, SetLeds(on) PROVE ScreenInv'
  BY <1>3 DEF SetLeds, ScreenInv, ScreenTypeOK
<1> QED
  BY <1>1, <1>2, <1>3 DEF ScreenGuest

LEMMA TickKeeps == ASSUME ScreenInv, Tick PROVE ScreenInv'
<1> DEFINE w == IF vram_updated THEN RefreshScreen ELSE window
<1>1. w \in Windows /\ w.words = vram /\ w.reversed = reverse_video
  BY DEF RefreshScreen, ScreenInv, ScreenTypeOK, Windows
<1>2. /\ window' = IF vram_updated \/ last_leds # leds THEN RefreshStatusBar(w) ELSE w
      /\ last_leds' = leds /\ vram_updated' = FALSE
      /\ UNCHANGED <<vram, reverse_video, leds>>
  BY DEF Tick
<1>3. ~(vram_updated \/ last_leds # leds) => w.bar = leds
  BY DEF ScreenInv
<1> HIDE DEF w
<1>4. /\ window' \in Windows /\ window'.words = vram /\ window'.reversed = reverse_video
      /\ window'.bar = leds
  BY <1>1, <1>2, <1>3 DEF RefreshStatusBar, Windows, ScreenInv, ScreenTypeOK
<1> QED
  BY <1>2, <1>4 DEF ScreenInv, ScreenTypeOK, Windows

-----------------------------------------------------------------------------
(* The lock.                                                                *)

Steps == 1..(Turn - 1)
Bytes == 0..255
Dialers == [active : BOOLEAN, f_low : Int, f_high : Int, to_speaker : BOOLEAN]
Tones == [active : BOOLEAN, phase_lo : Int, phase_hi : Int, step_lo : Int, step_hi : Int]
SampleSet == Int \X Int \X Int \X Int

DialerTyped ==
  /\ reg \in Bytes \X Bytes /\ sent \in Bytes \X Bytes
  /\ dialer \in Dialers /\ opened \in BOOLEAN /\ tone \in Tones
  /\ filling \in Seq(SampleSet) /\ played \in Seq(SampleSet)

\* Each thread is inside its part exactly while it holds the device.
LockHeld ==
  /\ holder \in {"nobody", "main", "audio"}
  /\ writer \in {"idle", "locking", "on", "on_high", "on_active", "off", "unlocking"}
  /\ callback \in {"idle", "silent", "sample", "filled"}
  /\ holder = "main" <=> writer \notin {"idle", "locking"}
  /\ holder = "audio" <=> callback # "idle"
  /\ writer # "idle" => opened

\* The generator against the last whole word, at each place of dialer_write.
ToneOf(d) == tone.active /\ tone.step_lo = d.f_low /\ tone.step_hi = d.f_high

WordTaken ==
  /\ writer # "idle" => dialer = Decoded(sent)
  /\ writer \in {"on", "on_high", "on_active"} => Audible(dialer)
  /\ writer \in {"on_high", "on_active"} => tone.step_lo = dialer.f_low
  /\ writer = "on_active" => tone.step_hi = dialer.f_high
  /\ writer = "off" => ~Audible(dialer)
  /\ opened /\ writer \in {"idle", "unlocking"} =>
       IF Audible(Decoded(sent)) THEN ToneOf(Decoded(sent)) ELSE ~tone.active

\* While it makes a tone the generator has the frequencies of some word.
ActiveSteps == tone.active => tone.step_lo \in Steps /\ tone.step_hi \in Steps

\* What the callback has written so far.
BufferInv ==
  /\ callback \in {"idle", "silent"} => filling = << >>
  /\ callback = "sample" =>
       /\ tone.active
       /\ \A i \in 1..Len(filling) : filling[i][3] = tone.step_lo /\ filling[i][4] = tone.step_hi
  /\ callback = "filled" => Len(filling) > 0
  /\ \A i, j \in 1..Len(filling) : filling[i][3] = filling[j][3] /\ filling[i][4] = filling[j][4]

DialerInv == DialerTyped /\ LockHeld /\ WordTaken /\ ActiveSteps /\ BufferInv

\* What dialer_write makes of a word.
LEMMA DecodedFacts ==
  ASSUME NEW w \in Bytes \X Bytes
  PROVE  /\ Decoded(w) \in Dialers
         /\ Decoded(w).f_low = RowStep[w[1] % 4] /\ Decoded(w).f_low \in Steps
         /\ Decoded(w).f_high = ColumnStep[(w[1] \div 4) % 4] /\ Decoded(w).f_high \in Steps
         /\ Decoded(w).active <=> w[1] # 0
         /\ Decoded(w).to_speaker <=> (w[2] \div 2) % 2 = 1
<1>1. w[1] % 4 \in 0..3 /\ (w[1] \div 4) % 4 \in 0..3
  BY DEF Bytes
<1>2. RowStep[w[1] % 4] \in Steps /\ ColumnStep[(w[1] \div 4) % 4] \in Steps
  BY <1>1, DialerAssumption DEF Steps
<1>3. Steps \subseteq Int
  BY DialerAssumption DEF Steps
<1> QED
  BY <1>2, <1>3 DEF Decoded, Dialers

LEMMA DialerStarts == ASSUME DialerInit PROVE DialerInv
<1>1. tone \in Tones /\ dialer \in Dialers /\ ~tone.active
  BY DEF DialerInit, Tones, Dialers
<1>2. reg \in Bytes \X Bytes /\ sent \in Bytes \X Bytes /\ ~Audible(Decoded(sent))
  <2>1. reg \in Bytes \X Bytes /\ sent \in Bytes \X Bytes /\ sent[1] = 0
    BY DEF DialerInit, Bytes
  <2> QED
    BY <2>1, DecodedFacts DEF Audible
<1>3. filling = << >> /\ played = << >> /\ opened \in BOOLEAN
      /\ holder = "nobody" /\ writer = "idle" /\ callback = "idle"
  BY DEF DialerInit
<1>4. DialerTyped
  BY <1>1, <1>2, <1>3 DEF DialerTyped
<1>5. LockHeld /\ ActiveSteps /\ BufferInv
  BY <1>1, <1>3 DEF LockHeld, ActiveSteps, BufferInv
<1>6. WordTaken
  BY <1>1, <1>2, <1>3 DEF WordTaken
<1> QED
  BY <1>4, <1>5, <1>6 DEF DialerInv

\* Loads change no more than the word and what is decoded of it.
LEMMA LoadLowerKeeps ==
  ASSUME DialerInv, NEW b \in LowBytes, LoadLower(b) PROVE DialerInv'
<1>1. b \in Bytes
  BY DialerAssumption DEF Bytes
<1> QED
  BY <1>1 DEF LoadLower, DialerInv, DialerTyped, LockHeld, WordTaken, ToneOf, ActiveSteps, BufferInv

LEMMA LoadHigherKeeps ==
  ASSUME DialerInv, NEW b \in HighBytes, LoadHigher(b) PROVE DialerInv'
<1>1. reg' \in Bytes \X Bytes
  BY DialerAssumption DEF Bytes, LoadHigher, DialerInv, DialerTyped
<1>2. Decoded(reg') \in Dialers
  BY <1>1, DecodedFacts
<1>3. DialerTyped'
  BY <1>1, <1>2 DEF LoadHigher, DialerInv, DialerTyped
<1>4. LockHeld' /\ ActiveSteps' /\ BufferInv'
  BY DEF LoadHigher, DialerInv, DialerTyped, LockHeld, ActiveSteps, BufferInv
<1>5. WordTaken'
  BY DEF LoadHigher, DialerInv, DialerTyped, WordTaken
<1> QED
  BY <1>3, <1>4, <1>5 DEF DialerInv

LEMMA LockDeviceKeeps == ASSUME DialerInv, LockDevice PROVE DialerInv'
<1>1. DialerTyped' /\ ActiveSteps' /\ BufferInv'
  BY DEF LockDevice, DialerInv, DialerTyped, ActiveSteps, BufferInv
<1>2. LockHeld'
  BY DEF LockDevice, DialerInv, LockHeld
<1>3. WordTaken'
  BY DEF LockDevice, DialerInv, LockHeld, WordTaken, Audible
<1> QED
  BY <1>1, <1>2, <1>3 DEF DialerInv

LEMMA UnlockDeviceKeeps == ASSUME DialerInv, UnlockDevice PROVE DialerInv'
<1>1. DialerTyped' /\ ActiveSteps' /\ BufferInv'
  BY DEF UnlockDevice, DialerInv, DialerTyped, ActiveSteps, BufferInv
<1>2. LockHeld'
  BY DEF UnlockDevice, DialerInv, LockHeld
<1>3. WordTaken'
  BY DEF UnlockDevice, DialerInv, LockHeld, WordTaken, ToneOf
<1> QED
  BY <1>1, <1>2, <1>3 DEF DialerInv

\* A store of dialer_write needs the types, the steps and the word to be looked
\* at; the buffer is empty, since the main thread holds the device.
LEMMA StoreKeeps ==
  ASSUME DialerInv, NEW at, NEW next, NEW new, Stores(at, next, new),
         at \in {"on", "on_high", "on_active", "off"},
         next \in {"on_high", "on_active", "unlocking"},
         new \in Tones, ActiveSteps', WordTaken'
  PROVE  DialerInv'
<1>1. DialerTyped'
  BY DEF Stores, DialerInv, DialerTyped
<1>2. LockHeld'
  BY DEF Stores, DialerInv, LockHeld
<1>3. BufferInv'
  BY DEF Stores, DialerInv, LockHeld, BufferInv
<1> QED
  BY <1>1, <1>2, <1>3 DEF DialerInv

LEMMA SetStepLowKeeps == ASSUME DialerInv, SetStepLow PROVE DialerInv'
<1> DEFINE t == [tone EXCEPT !.step_lo = dialer.f_low]
<1>1. dialer = Decoded(sent) /\ dialer.f_low \in Steps /\ dialer.f_low \in Int
  BY DecodedFacts DEF SetStepLow, Stores, DialerInv, WordTaken, DialerTyped, Dialers
<1>2. t \in Tones /\ t.active = tone.active /\ t.step_lo = dialer.f_low /\ t.step_hi = tone.step_hi
  BY <1>1 DEF DialerInv, DialerTyped, Tones
<1> HIDE DEF t
<1>3. Stores("on", "on_high", t)
  BY DEF SetStepLow, t
<1>4. ActiveSteps' /\ WordTaken'
  BY <1>1, <1>2, <1>3 DEF Stores, DialerInv, ActiveSteps, WordTaken
<1> QED
  BY <1>2, <1>3, <1>4, StoreKeeps

LEMMA SetStepHighKeeps == ASSUME DialerInv, SetStepHigh PROVE DialerInv'
<1> DEFINE t == [tone EXCEPT !.step_hi = dialer.f_high]
<1>1. dialer = Decoded(sent) /\ dialer.f_high \in Steps /\ dialer.f_high \in Int
  BY DecodedFacts DEF SetStepHigh, Stores, DialerInv, WordTaken, DialerTyped, Dialers
<1>2. t \in Tones /\ t.active = tone.active /\ t.step_hi = dialer.f_high /\ t.step_lo = tone.step_lo
  BY <1>1 DEF DialerInv, DialerTyped, Tones
<1> HIDE DEF t
<1>3. Stores("on_high", "on_active", t)
  BY DEF SetStepHigh, t
<1>4. ActiveSteps' /\ WordTaken'
  BY <1>1, <1>2, <1>3 DEF Stores, DialerInv, ActiveSteps, WordTaken
<1> QED
  BY <1>2, <1>3, <1>4, StoreKeeps

LEMMA ToneOnKeeps == ASSUME DialerInv, ToneOn PROVE DialerInv'
<1> DEFINE t == [tone EXCEPT !.active = TRUE]
<1>1. /\ dialer = Decoded(sent) /\ Audible(dialer)
      /\ tone.step_lo = dialer.f_low /\ tone.step_hi = dialer.f_high
      /\ dialer.f_low \in Steps /\ dialer.f_high \in Steps
  BY DecodedFacts DEF ToneOn, Stores, DialerInv, WordTaken, DialerTyped
<1>2. t \in Tones /\ t.active /\ t.step_hi = tone.step_hi /\ t.step_lo = tone.step_lo
  BY DEF DialerInv, DialerTyped, Tones
<1> HIDE DEF t
<1>3. Stores("on_active", "unlocking", t)
  BY DEF ToneOn, t
<1>4. ActiveSteps' /\ WordTaken'
  BY <1>1, <1>2, <1>3 DEF Stores, ActiveSteps, WordTaken, ToneOf
<1> QED
  BY <1>2, <1>3, <1>4, StoreKeeps

LEMMA ToneOffKeeps == ASSUME DialerInv, ToneOff PROVE DialerInv'
<1> DEFINE t == [tone EXCEPT !.active = FALSE]
<1>1. dialer = Decoded(sent) /\ ~Audible(dialer)
  BY DEF ToneOff, Stores, DialerInv, WordTaken
<1>2. t \in Tones /\ ~t.active
  BY DEF DialerInv, DialerTyped, Tones
<1> HIDE DEF t
<1>3. Stores("off", "unlocking", t)
  BY DEF ToneOff, t
<1>4. ActiveSteps' /\ WordTaken'
  BY <1>1, <1>2, <1>3 DEF Stores, ActiveSteps, WordTaken
<1> QED
  BY <1>2, <1>3, <1>4, StoreKeeps

-----------------------------------------------------------------------------
(* The callback.                                                            *)

LEMMA CallbackBeginsKeeps == ASSUME DialerInv, CallbackBegins PROVE DialerInv'
<1>1. DialerTyped'
  BY DEF CallbackBegins, DialerInv, DialerTyped
<1>2. LockHeld'
  BY DEF CallbackBegins, DialerInv, LockHeld
<1>3. WordTaken' /\ ActiveSteps'
  BY DEF CallbackBegins, DialerInv, WordTaken, ToneOf, ActiveSteps
<1>4. BufferInv'
  BY DEF CallbackBegins, BufferInv
<1> QED
  BY <1>1, <1>2, <1>3, <1>4 DEF DialerInv

\* What a callback stores in the generator: phases.
PhasesSet(t, a, b) ==
  /\ t \in Tones /\ t.active = tone.active
  /\ t.step_lo = tone.step_lo /\ t.step_hi = tone.step_hi
  /\ t.phase_lo = a /\ t.phase_hi = b

LEMMA SetPhases ==
  ASSUME tone \in Tones, NEW a \in Int, NEW b \in Int
  PROVE  PhasesSet([tone EXCEPT !.phase_lo = a, !.phase_hi = b], a, b)
  BY DEF PhasesSet, Tones

LEMMA SilentBufferFacts == ASSUME DialerInv, SilentBuffer PROVE PhasesSet(tone', 0, 0)
<1>1. tone \in Tones /\ 0 \in Int
  BY DEF DialerInv, DialerTyped
<1>2. PhasesSet([tone EXCEPT !.phase_lo = 0, !.phase_hi = 0], 0, 0)
  BY <1>1, SetPhases, Zenon
<1>3. tone' = [tone EXCEPT !.phase_lo = 0, !.phase_hi = 0]
  BY DEF SilentBuffer
<1> QED
  BY <1>2, <1>3

LEMMA SilentBufferKeeps == ASSUME DialerInv, SilentBuffer PROVE DialerInv'
<1>1. /\ tone' \in Tones /\ tone'.active = tone.active
      /\ tone'.step_hi = tone.step_hi /\ tone'.step_lo = tone.step_lo
  BY SilentBufferFacts DEF PhasesSet
<1>2. Silence \in SampleSet /\ Samples \in Nat /\ Samples > 0
  BY DialerAssumption DEF SampleSet, Silence
<1>3. filling' \in Seq(SampleSet) /\ Len(filling') > 0 /\ \A i \in 1..Len(filling') : filling'[i] = Silence
  BY <1>2 DEF SilentBuffer
<1>4. DialerTyped'
  BY <1>1, <1>3 DEF SilentBuffer, DialerInv, DialerTyped
<1>5. LockHeld'
  BY DEF SilentBuffer, DialerInv, LockHeld
<1>6. WordTaken' /\ ActiveSteps'
  BY <1>1 DEF SilentBuffer, DialerInv, WordTaken, ToneOf, ActiveSteps
<1>7. BufferInv'
  BY <1>3 DEF SilentBuffer, BufferInv
<1> QED
  BY <1>4, <1>5, <1>6, <1>7 DEF DialerInv

\* The sample of this moment, and the generator after it.
Now == <<tone.phase_lo, tone.phase_hi, tone.step_lo, tone.step_hi>>

LEMMA SampleFacts ==
  ASSUME DialerInv, Sample
  PROVE  /\ PhasesSet(tone', Advance(tone.phase_lo, tone.step_lo), Advance(tone.phase_hi, tone.step_hi))
         /\ Now \in SampleSet /\ filling' = Append(filling, Now)
<1>1. /\ tone.phase_lo \in Int /\ tone.phase_hi \in Int
      /\ tone.step_lo \in Int /\ tone.step_hi \in Int
  BY DEF DialerInv, DialerTyped, Tones
<1>2. Advance(tone.phase_lo, tone.step_lo) \in Int /\ Advance(tone.phase_hi, tone.step_hi) \in Int
  BY <1>1, DialerAssumption DEF Advance
<1>3. tone' = [tone EXCEPT !.phase_lo = Advance(tone.phase_lo, tone.step_lo),
                           !.phase_hi = Advance(tone.phase_hi, tone.step_hi)]
  BY DEF Sample
<1>4. Now \in SampleSet /\ filling' = Append(filling, Now)
  BY <1>1 DEF Sample, Now, SampleSet
<1> QED
  BY <1>2, <1>3, <1>4, SetPhases DEF DialerInv, DialerTyped

LEMMA SampleKeeps == ASSUME DialerInv, Sample PROVE DialerInv'
<1>1. /\ filling \in Seq(SampleSet) /\ filling' = Append(filling, Now) /\ Now \in SampleSet
      /\ Now[3] = tone.step_lo /\ Now[4] = tone.step_hi
  BY SampleFacts DEF DialerInv, DialerTyped, Now
<1>2. /\ filling' \in Seq(SampleSet) /\ Len(filling') = Len(filling) + 1
      /\ \A i \in 1..Len(filling) : filling'[i] = filling[i]
      /\ filling'[Len(filling')] = Now
  BY <1>1
<1>3. DialerTyped'
  BY <1>2, SampleFacts DEF Sample, DialerInv, DialerTyped, PhasesSet
<1>4. LockHeld'
  BY DEF Sample, DialerInv, LockHeld
<1>5. WordTaken' /\ ActiveSteps'
  BY SampleFacts DEF Sample, DialerInv, WordTaken, ToneOf, ActiveSteps, PhasesSet
<1>6. \A i \in 1..Len(filling') : filling'[i][3] = tone.step_lo /\ filling'[i][4] = tone.step_hi
  BY <1>1, <1>2 DEF Sample, DialerInv, BufferInv
<1>7. BufferInv'
  BY <1>1, <1>2, <1>6, SampleFacts DEF Sample, DialerInv, BufferInv, PhasesSet
<1> QED
  BY <1>3, <1>4, <1>5, <1>7 DEF DialerInv

LEMMA CallbackEndsKeeps == ASSUME DialerInv, CallbackEnds PROVE DialerInv'
<1>1. DialerTyped'
  BY DEF CallbackEnds, DialerInv, DialerTyped
<1>2. LockHeld'
  BY DEF CallbackEnds, DialerInv, LockHeld
<1>3. WordTaken' /\ ActiveSteps'
  BY DEF CallbackEnds, DialerInv, WordTaken, ToneOf, ActiveSteps
<1>4. BufferInv'
  BY DEF CallbackEnds, BufferInv
<1> QED
  BY <1>1, <1>2, <1>3, <1>4 DEF DialerInv

-----------------------------------------------------------------------------
(* The phases.                                                              *)

\* What has been played and is to be played, of the last two buffers.
All == played \o filling

\* The phases a sample leaves behind.
Left(s) == IF s = Silence THEN <<0, 0>> ELSE <<Advance(s[1], s[3]), Advance(s[2], s[4])>>

\* No sample breaks off from the one before it, and the generator stands where
\* the last sample left it.
PhaseInv ==
  /\ \A i \in 1..(Len(All) - 1) : All[i + 1] = Silence \/ Follows(All[i], All[i + 1])
  /\ Len(All) > 0 => <<tone.phase_lo, tone.phase_hi>> = Left(All[Len(All)])

LEMMA FollowsLeft ==
  ASSUME NEW s, NEW t PROVE Follows(s, t) <=> <<t[1], t[2]>> = Left(s)
  BY DEF Follows, Left

\* Steps that write no sample and leave the phases alone.
LEMMA PhaseUntouched ==
  ASSUME PhaseInv, UNCHANGED <<played, filling>>,
         tone'.phase_lo = tone.phase_lo, tone'.phase_hi = tone.phase_hi
  PROVE  PhaseInv'
  BY DEF PhaseInv, All

LEMMA AllTyped ==
  ASSUME DialerInv
  PROVE  /\ All \in Seq(SampleSet) /\ Len(All) = Len(played) + Len(filling)
         /\ \A i \in 1..Len(played) : All[i] = played[i]
         /\ \A i \in 1..Len(filling) : All[Len(played) + i] = filling[i]
  BY ConcatProperties DEF All, DialerInv, DialerTyped

LEMMA SampleKeepsPhase == ASSUME DialerInv, PhaseInv, Sample PROVE PhaseInv'
<1>1. /\ tone.active /\ tone.step_lo \in Steps /\ tone.step_hi \in Steps
  BY DEF Sample, DialerInv, BufferInv, ActiveSteps
<1>2. Now # Silence
  BY <1>1, DialerAssumption DEF Now, Silence, Steps
<1>3. <<tone'.phase_lo, tone'.phase_hi>> = Left(Now)
  BY <1>2, SampleFacts DEF Left, Now, PhasesSet
<1>4. /\ All \in Seq(SampleSet) /\ All' \in Seq(SampleSet) /\ Len(All') = Len(All) + 1
      /\ \A i \in 1..Len(All) : All'[i] = All[i]
      /\ All'[Len(All')] = Now
  <2>1. /\ filling \in Seq(SampleSet) /\ played \in Seq(SampleSet) /\ Now \in SampleSet
        /\ filling' = Append(filling, Now) /\ played' = played
    BY SampleFacts DEF Sample, DialerInv, DialerTyped
  <2>2. played \o Append(filling, Now) = Append(played \o filling, Now)
    BY <2>1
  <2>3. All' = Append(All, Now) /\ All \in Seq(SampleSet)
    BY <2>1, <2>2 DEF All
  <2> HIDE DEF All
  <2> QED
    BY <2>1, <2>3
<1>5. ASSUME Len(All) > 0 PROVE Follows(All[Len(All)], Now)
  BY <1>5, FollowsLeft DEF PhaseInv, Now
<1>6. ASSUME NEW i \in 1..(Len(All') - 1) PROVE All'[i + 1] = Silence \/ Follows(All'[i], All'[i + 1])
  <2>1. CASE i = Len(All)
    BY <1>4, <1>5, <2>1
  <2>2. CASE i # Len(All)
    BY <1>4, <2>2 DEF PhaseInv
  <2> QED
    BY <2>1, <2>2
<1> QED
  BY <1>3, <1>4, <1>6 DEF PhaseInv

LEMMA SilentBufferLeavesZero == ASSUME DialerInv, PhaseInv, SilentBuffer PROVE PhaseInv'
<1>1. Samples \in Nat /\ Samples > 0
  BY DialerAssumption
<1>2. /\ filling = << >> /\ played' = played /\ played \in Seq(SampleSet)
      /\ filling' = [i \in 1..Samples |-> Silence]
  BY DEF SilentBuffer, DialerInv, DialerTyped, BufferInv
<1>3. filling' \in Seq(SampleSet) /\ Len(filling') = Samples /\ \A i \in 1..Samples : filling'[i] = Silence
  BY <1>1, <1>2 DEF SampleSet, Silence
<1>4. All = played
  BY <1>2 DEF All
<1>5. /\ All' \in Seq(SampleSet) /\ Len(All') = Len(All) + Samples
      /\ \A i \in 1..Len(All) : All'[i] = All[i]
      /\ \A i \in (Len(All) + 1)..Len(All') : All'[i] = Silence
  <2>1. All' = played \o filling'
    BY <1>2 DEF All
  <2>2. /\ All' \in Seq(SampleSet) /\ Len(All') = Len(played) + Samples
        /\ \A i \in 1..Len(played) : All'[i] = played[i]
        /\ \A i \in (Len(played) + 1)..Len(All') : All'[i] = filling'[i - Len(played)]
    <3>1. /\ All' \in Seq(SampleSet) /\ Len(All') = Len(played) + Len(filling')
          /\ \A i \in 1..(Len(played) + Len(filling')) :
               All'[i] = IF i <= Len(played) THEN played[i] ELSE filling'[i - Len(played)]
      BY <1>2, <1>3, <2>1, ConcatProperties
    <3> QED
      BY <1>1, <1>2, <1>3, <3>1
  <2> QED
    BY <1>1, <1>2, <1>3, <1>4, <2>2
<1>6. <<tone'.phase_lo, tone'.phase_hi>> = Left(Silence)
  BY SilentBufferFacts DEF Left, PhasesSet
<1>7. All \in Seq(SampleSet)
  BY <1>2, <1>4
<1>8. ASSUME NEW i \in 1..(Len(All') - 1) PROVE All'[i + 1] = Silence \/ Follows(All'[i], All'[i + 1])
  <2>1. CASE i + 1 \in 1..Len(All)
    <3>1. i \in 1..(Len(All) - 1) /\ i \in 1..Len(All)
      BY <1>7, <2>1
    <3>2. All'[i] = All[i] /\ All'[i + 1] = All[i + 1]
      BY <1>5, <2>1, <3>1
    <3> QED
      BY <3>1, <3>2 DEF PhaseInv
  <2>2. CASE i + 1 \notin 1..Len(All)
    BY <1>1, <1>5, <1>7, <2>2
  <2> QED
    BY <2>1, <2>2
<1> QED
  BY <1>1, <1>5, <1>6, <1>7, <1>8 DEF PhaseInv

\* What is forgotten is the buffer before; the last sample remains.
LEMMA CallbackEndsKeepsPhase == ASSUME DialerInv, PhaseInv, CallbackEnds PROVE PhaseInv'
<1>1. /\ filling \in Seq(SampleSet) /\ played \in Seq(SampleSet) /\ Len(filling) > 0
      /\ played' = filling /\ filling' = << >> /\ tone' = tone
  BY DEF CallbackEnds, DialerInv, DialerTyped, BufferInv
<1>2. All' = filling
  BY <1>1 DEF All
<1>3. ASSUME NEW i \in 1..(Len(filling) - 1)
      PROVE  filling[i + 1] = Silence \/ Follows(filling[i], filling[i + 1])
  <2>1. Len(played) + i \in 1..(Len(All) - 1)
    BY <1>1, AllTyped
  <2>2. /\ All[Len(played) + i] = filling[i]
        /\ All[(Len(played) + i) + 1] = filling[i + 1]
    <3>1. \A k \in 1..Len(filling) : All[Len(played) + k] = filling[k]
      BY AllTyped
    <3>2. i \in 1..Len(filling) /\ i + 1 \in 1..Len(filling)
      BY <1>1
    <3>3. (Len(played) + i) + 1 = Len(played) + (i + 1)
      BY <1>1
    <3>4. All[Len(played) + (i + 1)] = filling[i + 1]
      BY <3>1, <3>2
    <3> QED
      BY <3>1, <3>2, <3>3, <3>4
  <2> QED
    BY <2>1, <2>2 DEF PhaseInv
<1>4. All[Len(All)] = filling[Len(filling)] /\ Len(All) > 0
  <2>1. Len(filling) \in 1..Len(filling) /\ Len(played) \in Nat
    BY <1>1
  <2>2. Len(All) = Len(played) + Len(filling) /\ All[Len(played) + Len(filling)] = filling[Len(filling)]
    BY <2>1, AllTyped
  <2> QED
    BY <1>1, <2>1, <2>2
<1> QED
  BY <1>1, <1>2, <1>3, <1>4 DEF PhaseInv

LEMMA CallbackBeginsKeepsPhase == ASSUME DialerInv, PhaseInv, CallbackBegins PROVE PhaseInv'
<1>1. filling = << >>
  BY DEF CallbackBegins, DialerInv, BufferInv
<1> QED
  BY <1>1, PhaseUntouched DEF CallbackBegins

\* The main thread, whatever it does, and the audio thread.
SoundInv == DialerInv /\ PhaseInv

LEMMA LoadsKeep ==
  ASSUME SoundInv, (\E b \in LowBytes : LoadLower(b)) \/ (\E b \in HighBytes : LoadHigher(b))
  PROVE  SoundInv'
<1>1. DialerInv'
  BY LoadLowerKeeps, LoadHigherKeeps DEF SoundInv
<1>2. PhaseInv'
  BY PhaseUntouched DEF SoundInv, LoadLower, LoadHigher
<1> QED
  BY <1>1, <1>2 DEF SoundInv

LEMMA DialerWritesKeep == ASSUME SoundInv, DialerWrites PROVE SoundInv'
<1>1. DialerInv'
  BY LockDeviceKeeps, SetStepLowKeeps, SetStepHighKeeps, ToneOnKeeps, ToneOffKeeps,
     UnlockDeviceKeeps DEF SoundInv, DialerWrites
<1>2. UNCHANGED <<played, filling>>
  BY DEF DialerWrites, LockDevice, UnlockDevice, SetStepLow, SetStepHigh, ToneOn, ToneOff, Stores
<1>3. tone'.phase_lo = tone.phase_lo /\ tone'.phase_hi = tone.phase_hi
  <2>1. tone \in Tones
    BY DEF SoundInv, DialerInv, DialerTyped
  <2>2. CASE LockDevice \/ UnlockDevice
    BY <2>2 DEF LockDevice, UnlockDevice
  <2>3. CASE SetStepLow \/ SetStepHigh \/ ToneOn \/ ToneOff
    BY <2>1, <2>3 DEF SetStepLow, SetStepHigh, ToneOn, ToneOff, Stores, Tones
  <2> QED
    BY <2>2, <2>3 DEF DialerWrites
<1>4. PhaseInv'
  BY <1>2, <1>3, PhaseUntouched DEF SoundInv
<1> QED
  BY <1>1, <1>4 DEF SoundInv

LEMMA AudioThreadKeeps == ASSUME SoundInv, AudioThread PROVE SoundInv'
<1>1. DialerInv'
  BY CallbackBeginsKeeps, SilentBufferKeeps, SampleKeeps, CallbackEndsKeeps DEF SoundInv, AudioThread
<1>2. PhaseInv'
  BY CallbackBeginsKeepsPhase, SilentBufferLeavesZero, SampleKeepsPhase, CallbackEndsKeepsPhase
     DEF SoundInv, AudioThread
<1> QED
  BY <1>1, <1>2 DEF SoundInv

LEMMA SoundStarts == ASSUME DialerInit PROVE SoundInv
<1>1. All = << >>
  BY DEF DialerInit, All
<1>2. PhaseInv
  BY <1>1 DEF PhaseInv
<1> QED
  BY <1>2, DialerStarts DEF SoundInv

LEMMA SoundStutters == ASSUME SoundInv, UNCHANGED sound PROVE SoundInv'
<1>1. DialerInv'
  BY DEF SoundInv, sound, DialerInv, DialerTyped, LockHeld, WordTaken, ToneOf, ActiveSteps, BufferInv
<1>2. PhaseInv'
  BY PhaseUntouched DEF SoundInv, sound
<1> QED
  BY <1>1, <1>2 DEF SoundInv

-----------------------------------------------------------------------------
(* The clock.                                                               *)

\* The address is the one the guest latched, and each digit it has read since it
\* began is the one of an instant since then.
ClockInv ==
  /\ now \in 0..LastTime /\ began \in 0..now
  /\ asked = address
  /\ date \in [Registers -> Int]
  /\ \A r \in Registers : date[r] # NotRead => \E t \in began..now : date[r] = Digit(r, t)

SecondsDigit == <<"second", "ONE">>
OtherDigits == Registers \ {SecondsDigit}

SameTenSeconds(t, u) == \A r \in OtherDigits : Digit(r, t) = Digit(r, u)

\* The host's clock does not come back to ten seconds that it left: it is not
\* set back, no hour is repeated, and no year passes (the year reads as 87).
NeverBack ==
  \A t, u, v \in 0..LastTime :
    t <= u /\ u <= v /\ SameTenSeconds(t, v) => SameTenSeconds(u, t)

\* A digit of tc8250_read_reg is a number.
LEMMA DigitFacts ==
  ASSUME NEW r \in Registers, NEW t \in 0..LastTime PROVE Digit(r, t) \in Int
<1>1. Tm[t][r[1]] \in 0..99
  BY ClockAssumption DEF Registers
<1> QED
  BY <1>1 DEF Digit

LEMMA ClockStarts == ASSUME ClockInit PROVE ClockInv
  BY ClockAssumption DEF ClockInit, ClockInv, NotRead

LEMMA RtcReadKeeps == ASSUME ClockInv, RtcRead PROVE ClockInv'
<1>1. now \in 0..LastTime /\ began \in 0..now /\ asked = address /\ UNCHANGED <<now, began, address, asked>>
  BY DEF ClockInv, RtcRead
<1>2. ASSUME NEW r \in Registers
      PROVE  date'[r] = IF r = asked THEN Digit(r, now) ELSE date[r]
  BY <1>1 DEF ClockInv, RtcRead
<1>3. date' \in [Registers -> Int]
  BY <1>1, DigitFacts DEF ClockInv, RtcRead
<1>4. ASSUME NEW r \in Registers, date'[r] # NotRead
      PROVE  \E t \in began..now : date'[r] = Digit(r, t)
  <2>1. CASE r = asked
    <3>1. now \in began..now
      BY <1>1
    <3> QED
      BY <1>2, <2>1, <3>1
  <2>2. CASE r # asked
    BY <1>2, <1>4, <2>2 DEF ClockInv
  <2> QED
    BY <2>1, <2>2
<1> QED
  BY <1>1, <1>3, <1>4 DEF ClockInv, Digit

LEMMA ClockGuestKeeps == ASSUME ClockInv, ClockGuest PROVE ClockInv'
<1>1. ASSUME NEW r \in Registers, NEW ale \in BOOLEAN, RtcWrite(r, ale) PROVE ClockInv'
  BY <1>1 DEF RtcWrite, ClockInv, Digit
<1>2. ASSUME BeginDate PROVE ClockInv'
  BY <1>2 DEF BeginDate, ClockInv, NotRead
<1> QED
  BY <1>1, <1>2, RtcReadKeeps DEF ClockGuest

LEMMA HostClockKeeps == ASSUME ClockInv, HostClock PROVE ClockInv'
<1>1. /\ now' \in 0..LastTime /\ began' \in 0..now' /\ began..now \subseteq began'..now'
      /\ UNCHANGED <<address, asked, date>>
  BY ClockAssumption DEF HostClock, ClockInv
<1>2. ASSUME NEW r \in Registers, date[r] # NotRead
      PROVE  \E t \in began'..now' : date[r] = Digit(r, t)
  BY <1>1, <1>2 DEF ClockInv
<1> QED
  BY <1>1, <1>2 DEF ClockInv, Digit

LEMMA ClockStutters == ASSUME ClockInv, UNCHANGED clock PROVE ClockInv'
  BY DEF ClockInv, clock, Digit

\* With no carry the digits other than the last are those of any instant since
\* the guest began, also of the one at which it read the last.
LEMMA OneMoment == ASSUME NeverBack, ClockInv PROVE DateOfOneMoment
<1> SUFFICES ASSUME \A r \in Registers : date[r] # NotRead, ~Carried
             PROVE  \E t \in began..now : \A r \in Registers : date[r] = Digit(r, t)
  BY DEF DateOfOneMoment
<1>1. \A r \in Registers : \E t \in began..now : date[r] = Digit(r, t)
  BY DEF ClockInv
<1>2. began \in 0..LastTime /\ now \in 0..LastTime /\ began \in began..now
  BY ClockAssumption DEF ClockInv
<1>3. SameTenSeconds(began, now)
  BY DEF Carried, OtherDigits, SecondsDigit, SameTenSeconds
<1>4. ASSUME NEW u \in began..now PROVE SameTenSeconds(u, began)
  <2>1. u \in 0..LastTime /\ began <= u /\ u <= now
    BY <1>2, ClockAssumption
  <2> QED
    BY <1>2, <1>3, <2>1 DEF NeverBack
<1>5. ASSUME NEW u \in began..now, NEW r \in OtherDigits PROVE date[r] = Digit(r, u)
  <2>1. PICK t \in began..now : date[r] = Digit(r, t)
    BY <1>1 DEF OtherDigits
  <2> QED
    BY <1>4, <2>1 DEF SameTenSeconds
<1>6. CASE SecondsDigit \in Registers
  <2>1. PICK u \in began..now : date[SecondsDigit] = Digit(SecondsDigit, u)
    BY <1>1, <1>6
  <2>2. \A r \in Registers : date[r] = Digit(r, u)
    BY <1>5, <2>1 DEF OtherDigits
  <2> QED
    BY <2>2
<1>7. CASE SecondsDigit \notin Registers
  BY <1>2, <1>5, <1>7 DEF OtherDigits
<1> QED
  BY <1>6, <1>7

-----------------------------------------------------------------------------
(* The three devices and their main thread.                                 *)

IInv == SoundInv /\ ScreenInv /\ ClockInv

LEMMA ScreenStutters == ASSUME ScreenInv, UNCHANGED display PROVE ScreenInv'
  BY DEF ScreenInv, ScreenTypeOK, display

LEMMA InitIInv == Init => IInv
  BY SoundStarts, ScreenStarts, ClockStarts DEF Init, IInv

LEMMA NextIInv == IInv /\ [Next]_vars => IInv'
<1> SUFFICES ASSUME IInv, [Next]_vars PROVE IInv'
  OBVIOUS
<1> USE DEF IInv
<1>1. CASE Access
  <2>1. CASE /\ (\E b \in LowBytes : LoadLower(b)) \/ (\E b \in HighBytes : LoadHigher(b))
             /\ UNCHANGED <<display, clock, using>>
    BY <2>1, LoadsKeep, ScreenStutters, ClockStutters
  <2>2. CASE ScreenGuest /\ UNCHANGED <<sound, clock, using>>
    BY <2>2, ScreenGuestKeeps, SoundStutters, ClockStutters
  <2>3. CASE ClockGuest /\ UNCHANGED <<sound, display, using>>
    BY <2>3, ClockGuestKeeps, SoundStutters, ScreenStutters
  <2> QED
    BY <1>1, <2>1, <2>2, <2>3 DEF Access
<1>2. CASE MainThreadInDialer
  BY <1>2, DialerWritesKeep, ScreenStutters, ClockStutters DEF MainThreadInDialer
<1>3. CASE SixtyHertz
  BY <1>3, TickKeeps, SoundStutters, ClockStutters DEF SixtyHertz
<1>4. CASE SdlAudio
  BY <1>4, AudioThreadKeeps, ScreenStutters, ClockStutters DEF SdlAudio
<1>5. CASE HostTime
  BY <1>5, HostClockKeeps, SoundStutters, ScreenStutters DEF HostTime
<1>6. CASE (\E p \in Ports : Switch(p)) \/ UNCHANGED vars
  BY <1>6, SoundStutters, ScreenStutters, ClockStutters DEF Switch, vars
<1> QED
  BY <1>1, <1>2, <1>3, <1>4, <1>5, <1>6 DEF Next

LEMMA AlwaysIInv == Spec => []IInv
  BY InitIInv, NextIInv, PTL DEF Spec

-----------------------------------------------------------------------------
(* The results.                                                             *)

\* Whatever the frequencies, the bytes loaded and the size of a buffer: a buffer
\* is of one tone, or silent, from its first sample to its last, although
\* dialer_write stores the tone in three steps.
THEOREM OneWordPerBuffer == Spec => []BufferOfOneWord
<1>1. IInv => BufferOfOneWord
  <2> SUFFICES ASSUME IInv PROVE BufferOfOneWord
    OBVIOUS
  <2>1. DOMAIN filling = 1..Len(filling)
    BY DEF IInv, SoundInv, DialerInv, DialerTyped
  <2> QED
    BY <2>1 DEF IInv, SoundInv, DialerInv, BufferInv, BufferOfOneWord
<1> QED
  BY <1>1, AlwaysIInv, PTL

\* The samples of a tone go on from one to the next over buffers and over
\* changes of the word, and a tone starts from zero after silence.
THEOREM NoClicks == Spec => []PhaseUnbroken
<1>1. IInv => PhaseUnbroken
  BY DEF IInv, SoundInv, PhaseInv, PhaseUnbroken, All
<1> QED
  BY <1>1, AlwaysIInv, PTL

\* Outside dialer_write the generator makes the tone of the last complete word.
THEOREM GeneratorMakesTone == Spec => []GeneratorFollowsWord
<1>1. IInv => GeneratorFollowsWord
  <2> SUFFICES ASSUME IInv, opened, writer = "idle"
               PROVE  /\ tone.active <=> sent[1] # 0 /\ (sent[2] \div 2) % 2 = 1
                      /\ tone.active => /\ tone.step_lo = RowStep[sent[1] % 4]
                                        /\ tone.step_hi = ColumnStep[(sent[1] \div 4) % 4]
    BY DEF GeneratorFollowsWord
  <2>1. IF Audible(Decoded(sent)) THEN ToneOf(Decoded(sent)) ELSE ~tone.active
    BY DEF IInv, SoundInv, DialerInv, WordTaken
  <2>2. sent \in Bytes \X Bytes
    BY DEF IInv, SoundInv, DialerInv, DialerTyped
  <2>3. Audible(Decoded(sent)) <=> sent[1] # 0 /\ (sent[2] \div 2) % 2 = 1
    BY <2>2, DecodedFacts DEF Audible
  <2> QED
    BY <2>1, <2>2, <2>3, DecodedFacts DEF ToneOf
<1> QED
  BY <1>1, AlwaysIInv, PTL

\* For any video RAM and any LEDs: the two tests by which the 60 Hz turn leaves
\* drawing out never leave the window behind what the guest wrote.
THEOREM WindowIsUpToDate == Spec => []WindowFollows
<1>1. IInv => WindowFollows
  BY DEF IInv, ScreenInv, WindowFollows
<1> QED
  BY <1>1, AlwaysIInv, PTL

\* On any host whose clock does not come back to a time it left, a date read
\* digit by digit is a moment of the reading, unless a digit other than the
\* seconds' last one changed meanwhile.
THEOREM DatesAreMoments == ASSUME NeverBack PROVE Spec => []DateOfOneMoment
<1>1. IInv => DateOfOneMoment
  BY OneMoment DEF IInv
<1> QED
  BY <1>1, AlwaysIInv, PTL
=============================================================================
