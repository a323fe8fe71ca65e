------------------------------- MODULE Dialer -------------------------------
(***************************************************************************)
(* The dialer and its tone generator: the two byte loads of memory.c,      *)
(* dialer_write on the main thread, and dialer_callback, which SDL's audio *)
(* thread calls with the device locked.  The two threads share the fields  *)
(* of tone; each store of dialer_write is a step, and so is each sample of *)
(* the callback.                                                           *)
(*                                                                         *)
(* A phase is a place on a circle of Turn places; the step of a tone is    *)
(* what its frequency adds to it per sample.  A sample stands for what it  *)
(* is computed from: two phases and the steps that lead to the next one.   *)
(***************************************************************************)
EXTENDS Integers, Sequences

CONSTANTS LowBytes,   \* bytes the guest loads: the tone,
          HighBytes,  \* and the paths
          Turn,       \* 2 pi
          RowStep, ColumnStep, \* row_hz and col_hz, as steps
          Samples     \* samples in a buffer

ASSUME DialerAssumption ==
  /\ LowBytes \subseteq 0..255 /\ HighBytes \subseteq 0..255
  /\ Turn \in Nat /\ Turn > 1 /\ Samples \in Nat \ {0}
  /\ RowStep \in [0..3 -> 1..(Turn - 1)] /\ ColumnStep \in [0..3 -> 1..(Turn - 1)]

VARIABLES reg,       \* dialerReg, as <<low, high>>
          dialer,    \* what dialer_get_state gives
          opened,    \* audio_dev # 0
          tone,      \* what the threads share
          holder,    \* who holds the device lock: "nobody", "main" or "audio"
          writer,    \* where the main thread is in dialer_write, or "idle"
          callback,  \* where the audio thread is in dialer_callback, or "idle"
          filling,   \* the samples of this call
          played,    \* those of the call before
          sent       \* ghost: the control word last completed

sound == <<reg, dialer, opened, tone, holder, writer, callback, filling, played, sent>>

Silence == <<0, 0, 0, 0>>

\* The fields of DIALER_STATE that something depends on.
Decoded(w) == [ active     |-> w[1] # 0,
                f_low      |-> RowStep[w[1] % 4],
                f_high     |-> ColumnStep[(w[1] \div 4) % 4],
                to_speaker |-> (w[2] \div 2) % 2 = 1 ]

Audible(d) == d.active /\ d.to_speaker

\* Phases go on where they were, and turn once at 2 pi.
Advance(p, s) == IF p + s >= Turn THEN p + s - Turn ELSE p + s

DialerTypeOK ==
  /\ {reg, sent} \subseteq (LowBytes \cup {0}) \X (HighBytes \cup {0})
  /\ dialer \in [active : BOOLEAN, f_low : 0..(Turn - 1), f_high : 0..(Turn - 1),
                 to_speaker : BOOLEAN]
  /\ opened \in BOOLEAN
  /\ tone \in [active : BOOLEAN, phase_lo : 0..(Turn - 1), phase_hi : 0..(Turn - 1),
               step_lo : 0..(Turn - 1), step_hi : 0..(Turn - 1)]
  /\ holder \in {"nobody", "main", "audio"}
  /\ writer \in {"idle", "locking", "on", "on_high", "on_active", "off", "unlocking"}
  /\ callback \in {"idle", "silent", "sample", "filled"}
  /\ Len(filling) <= Samples /\ Len(played) <= Samples

\* dialer_init: with the volume at zero, or without an audio device, there is
\* no device to lock.
DialerInit ==
  /\ reg = <<0, 0>> /\ sent = <<0, 0>>
  /\ dialer = [active |-> FALSE, f_low |-> 0, f_high |-> 0, to_speaker |-> FALSE]
  /\ opened \in BOOLEAN
  /\ tone = [active |-> FALSE, phase_lo |-> 0, phase_hi |-> 0, step_lo |-> 0, step_hi |-> 0]
  /\ holder = "nobody" /\ writer = "idle" /\ callback = "idle"
  /\ filling = <<>> /\ played = <<>>

-----------------------------------------------------------------------------
(* The main thread.                                                         *)

LoadLower(b) ==
  /\ writer = "idle"
  /\ reg' = <<b, reg[2]>>
  /\ UNCHANGED <<dialer, opened, tone, holder, writer, callback, filling, played, sent>>

\* Loading the upper byte completes the word; dialer_write decodes it.
LoadHigher(b) ==
  /\ writer = "idle"
  /\ reg' = <<reg[1], b>> /\ sent' = reg'
  /\ dialer' = Decoded(reg')
  /\ writer' = IF opened THEN "locking" ELSE "idle"
  /\ UNCHANGED <<opened, tone, holder, callback, filling, played>>

\* Mutant of LockDevice: the device is not locked.
LockDeviceForgotten ==
  /\ writer = "locking"
  /\ writer' = IF Audible(dialer) THEN "on" ELSE "off"
  /\ UNCHANGED <<reg, dialer, opened, tone, holder, callback, filling, played, sent>>

LockDevice ==
  /\ writer = "locking" /\ holder = "nobody"
  /\ holder' = "main"
  /\ writer' = IF Audible(dialer) THEN "on" ELSE "off"
  /\ UNCHANGED <<reg, dialer, opened, tone, callback, filling, played, sent>>

\* One store of dialer_write, and where it goes from there.
Stores(at, next, new) ==
  /\ writer = at /\ writer' = next
  /\ tone' = new
  /\ UNCHANGED <<reg, dialer, opened, holder, callback, filling, played, sent>>

SetStepLow == Stores("on", "on_high", [tone EXCEPT !.step_lo = dialer.f_low])
SetStepHigh == Stores("on_high", "on_active", [tone EXCEPT !.step_hi = dialer.f_high])
ToneOn == Stores("on_active", "unlocking", [tone EXCEPT !.active = TRUE])

\* Mutant of ToneOff: without a tone byte the generator is left as it is.
ToneOffBySpeakerOnly ==
  Stores("off", "unlocking", [tone EXCEPT !.active = tone.active /\ dialer.to_speaker])

ToneOff == Stores("off", "unlocking", [tone EXCEPT !.active = FALSE])

\* Mutant of UnlockDevice: a word that turns no tone on returns with the lock.
UnlockDeviceIfAudible ==
  /\ writer = "unlocking"
  /\ writer' = "idle"
  /\ holder' = IF Audible(dialer) THEN "nobody" ELSE holder
  /\ UNCHANGED <<reg, dialer, opened, tone, callback, filling, played, sent>>

UnlockDevice ==
  /\ writer = "unlocking"
  /\ writer' = "idle" /\ holder' = "nobody"
  /\ UNCHANGED <<reg, dialer, opened, tone, callback, filling, played, sent>>

DialerWrites ==
  \/ LockDevice \/ SetStepLow \/ SetStepHigh \/ ToneOn \/ ToneOff \/ UnlockDevice

-----------------------------------------------------------------------------
(* The audio thread.                                                        *)

\* SDL locks the device and calls dialer_callback, which looks at tone.active.
CallbackBegins ==
  /\ opened /\ callback = "idle" /\ holder = "nobody"
  /\ holder' = "audio"
  /\ callback' = IF tone.active THEN "sample" ELSE "silent"
  /\ filling' = <<>>
  /\ UNCHANGED <<reg, dialer, opened, tone, writer, played, sent>>

\* Mutant of SilentBuffer: the phases stay where the tone left them.
SilentBufferKeepsPhase ==
  /\ callback = "silent" /\ callback' = "filled"
  /\ filling' = [i \in 1..Samples |-> Silence]
  /\ UNCHANGED <<reg, dialer, opened, tone, holder, writer, played, sent>>

SilentBuffer ==
  /\ callback = "silent" /\ callback' = "filled"
  /\ filling' = [i \in 1..Samples |-> Silence]
  /\ tone' = [tone EXCEPT !.phase_lo = 0, !.phase_hi = 0]
  /\ UNCHANGED <<reg, dialer, opened, holder, writer, played, sent>>

Sample ==
  /\ callback = "sample"
  /\ filling' = Append(filling, <<tone.phase_lo, tone.phase_hi, tone.step_lo, tone.step_hi>>)
  /\ callback' = IF Len(filling') = Samples THEN "filled" ELSE "sample"
  /\ tone' = [tone EXCEPT !.phase_lo = Advance(tone.phase_lo, tone.step_lo),
                          !.phase_hi = Advance(tone.phase_hi, tone.step_hi)]
  /\ UNCHANGED <<reg, dialer, opened, holder, writer, played, sent>>

\* The callback returns, and SDL unlocks the device and plays the buffer.
CallbackEnds ==
  /\ callback = "filled" /\ callback' = "idle"
  /\ holder' = "nobody"
  /\ played' = filling /\ filling' = <<>>
  /\ UNCHANGED <<reg, dialer, opened, tone, writer, sent>>

AudioThread == CallbackBegins \/ SilentBuffer \/ Sample \/ CallbackEnds

-----------------------------------------------------------------------------
\* The sample after another of the same tone, or the first of a new one.
Follows(s, t) ==
  IF s = Silence THEN <<t[1], t[2]>> = <<0, 0>>
  ELSE <<t[1], t[2]>> = <<Advance(s[1], s[3]), Advance(s[2], s[4])>>

\* However loads and callbacks interleave, a buffer is silent or one tone from
\* its first sample to its last: dialer_write's three stores never show in the
\* middle of it (the device lock of dialer.c:154).
BufferOfOneWord ==
  \A i, j \in DOMAIN filling : <<filling[i][3], filling[i][4]>> = <<filling[j][3], filling[j][4]>>

\* No clicks: every sample of a tone goes on from the phase of the sample
\* before it, over buffers and changes of the word, and after a silent buffer a
\* tone starts from zero (dialer.c:41, dialer.c:54).
PhaseUnbroken ==
  LET all == played \o filling
  IN \A i \in 1..(Len(all) - 1) : all[i + 1] = Silence \/ Follows(all[i], all[i + 1])

\* Outside dialer_write the generator makes the tone of the last complete word
\* if that is audible, and none otherwise; a low byte loaded since has no effect.
GeneratorFollowsWord ==
  opened /\ writer = "idle" =>
    /\ tone.active <=> sent[1] # 0 /\ (sent[2] \div 2) % 2 = 1
    /\ tone.active => /\ tone.step_lo = RowStep[sent[1] % 4]
                      /\ tone.step_hi = ColumnStep[(sent[1] \div 4) % 4]

\* Neither thread waits for ever for the other: dialer_write returns to the
\* guest, and the audio device gets its buffers.
BothThreadsGoOn ==
  /\ writer # "idle" ~> writer = "idle"
  /\ [](opened => <>(callback # "idle") /\ <>(callback = "idle"))

\* Each thread runs on, and gets a lock that is free again and again.
DialerFairness ==
  /\ SF_sound(LockDevice) /\ SF_sound(CallbackBegins)
  /\ WF_sound(SetStepLow \/ SetStepHigh \/ ToneOn \/ ToneOff \/ UnlockDevice)
  /\ WF_sound(SilentBuffer \/ Sample \/ CallbackEnds)
=============================================================================
