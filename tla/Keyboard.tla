------------------------------ MODULE Keyboard ------------------------------
(***************************************************************************)
(* The keyboard and mouse of keyboard.c: what the user does reaches        *)
(* keystate and the ring buffer through SDL's events, the 60 Hz scan turns *)
(* changed keys into a list of scan codes, and the guest takes the bytes   *)
(* out through the data register of a 6850.                                *)
(*                                                                         *)
(* The ring is as in the code: a full one is written over, and the read    *)
(* pointer moves on even when there is nothing to read; either puts reader *)
(* and writer out of step until a reset.  The ghost intact says that it    *)
(* has not happened.  The ghosts sent, decoder, received and seen follow   *)
(* the messages through the ring and out of it, decoded as the comments of *)
(* keyboard.c describe the protocol; no action's guard reads them.         *)
(***************************************************************************)
EXTENDS Integers, Sequences, FiniteSets

CONSTANTS BufferSize,  \* KEYBOARD_BUFFER_SIZE
          Keymap,      \* keymap[]: entries of a host key, extended or not
          Moves,       \* the mouse events SDL may report
          MaxEvents,   \* bound on the events of the user
          GuestReadsEmpty, \* the guest reads data also when SR0 says there are none
          GuestResetsMouse \* it resets the keyboard also when the mouse spoke last

Scancodes == {Keymap[i].scancode : i \in DOMAIN Keymap}
HostKeys == {Keymap[i].key : i \in DOMAIN Keymap}

ASSUME KeyboardAssumption ==
  /\ BufferSize \in Nat /\ BufferSize > 4 /\ BufferSize > Cardinality(Scancodes)
  /\ Scancodes \subseteq (1..127) \ {64, 78, 95}
  /\ Keymap \in Seq([key : HostKeys, extended : BOOLEAN, scancode : Scancodes])
  /\ Moves \subseteq [dx : Int, dy : Int, db : 0..7]
  /\ MaxEvents \in Nat
  /\ GuestReadsEmpty \in BOOLEAN /\ GuestResetsMouse \in BOOLEAN

AllUp == 64           \* KEY_ALL_UP
ListEnd == 128        \* KEY_LIST_END
BeginMouse == 206     \* KEY_BEGIN_MOUSE
BeginKeyboard == 223  \* KEY_BEGIN_KEYBOARD

VARIABLES keystate,        \* the scan codes of the keys that are down
          update_flag,
          mouse_enabled, lastdata_mouse,
          fifo,            \* buffer, readp, writep, buflen
          rxie,            \* receive interrupt enable
          held, alt, events, \* the user: keys held, ALT, events so far
          sent, intact, decoder, received, seen \* ghosts

keys == <<keystate, update_flag>>
mouse == <<mouse_enabled, lastdata_mouse>>
user == <<held, alt, events>>
line == <<fifo, sent, intact>>
guest == <<decoder, received, seen>>
kvars == <<keys, mouse, rxie, user, line, guest>>

\* A message is a set of keys or the three bytes of a mouse event.
KeysMessage(S) == [keys |-> S, move |-> << >>]
MoveMessage(bytes) == [keys |-> {}, move |-> bytes]
Bytes == 0..255
Messages == [keys : SUBSET Scancodes, move : {<< >>} \cup (Bytes \X Bytes \X Bytes)]
Unknown == {-1}

Fresh == [mode |-> "keys", keys |-> {}, move |-> << >>]

Init ==
  /\ keystate = {} /\ update_flag = FALSE
  /\ mouse_enabled = FALSE /\ lastdata_mouse = FALSE
  /\ fifo = [buffer |-> [i \in 0..(BufferSize - 1) |-> 0], readp |-> 0, writep |-> 0, buflen |-> 0]
  /\ rxie = FALSE
  /\ held = {} /\ alt = FALSE /\ events = 0
  /\ sent = << >> /\ intact = TRUE
  /\ decoder = Fresh /\ received = KeysMessage({}) /\ seen = {}

-----------------------------------------------------------------------------
(* The ring.                                                                *)

Smaller(a, b) == IF a < b THEN a ELSE b

\* f after the bytes were put in one by one: the reader is not told when they
\* go over what it has not read.
Put(f, bytes) ==
  [buffer |-> [i \in 0..(BufferSize - 1) |->
                 LET k == ((i - f.writep) % BufferSize) + 1
                 IN IF k <= Len(bytes) THEN bytes[k] ELSE f.buffer[i]],
   readp |-> f.readp,
   writep |-> (f.writep + Len(bytes)) % BufferSize,
   buflen |-> Smaller(BufferSize, f.buflen + Len(bytes))]

Transmit(bytes, message) ==
  /\ fifo' = Put(fifo, bytes)
  /\ sent' = Append(sent, message)
  /\ intact' = (intact /\ fifo.buflen + Len(bytes) <= BufferSize)

-----------------------------------------------------------------------------
(* The user's side.                                                         *)

MayAct == events < MaxEvents /\ events' = events + 1

\* The code an event of this key is for: the first entry that wants ALT as it is.
Matches(k) == {i \in DOMAIN Keymap : Keymap[i].key = k /\ Keymap[i].extended = alt}
Code(k) == Keymap[CHOOSE i \in Matches(k) : \A j \in Matches(k) : i <= j].scancode

KeyEvent(k, down) ==
  IF Matches(k) = {} THEN UNCHANGED keys
  ELSE /\ keystate' = IF down THEN keystate \cup {Code(k)} ELSE keystate \ {Code(k)}
       /\ update_flag' = TRUE

Press(k) ==
  /\ MayAct /\ k \notin held
  /\ KeyEvent(k, TRUE)
  /\ held' = held \cup {k}
  /\ UNCHANGED <<mouse, rxie, alt, line, guest>>

Release(k) ==
  /\ MayAct /\ k \in held
  /\ KeyEvent(k, FALSE)
  /\ held' = held \ {k}
  /\ UNCHANGED <<mouse, rxie, alt, line, guest>>

\* ALT has no entry in the keymap: its own events change nothing.
Alt ==
  /\ MayAct
  /\ alt' = ~alt
  /\ UNCHANGED <<keys, mouse, rxie, held, line, guest>>

Flags(dx, dy, db) == (IF dx > 0 THEN 16 ELSE 0) + (IF dy < 0 THEN 8 ELSE 0) + db
Distance(d) == Smaller(127, IF d < 0 THEN -d ELSE d)

MouseEvent(m) ==
  /\ MayAct
  /\ IF mouse_enabled
     THEN LET y == Distance(m.dy) + 128
              move == <<Flags(m.dx, m.dy, m.db), Distance(m.dx), y>>
          IN /\ Transmit(<<BeginMouse>> \o move \o (IF y = BeginKeyboard THEN <<y>> ELSE << >>),
                         MoveMessage(move))
             /\ lastdata_mouse' = TRUE
     ELSE UNCHANGED <<line, lastdata_mouse>>
  /\ UNCHANGED <<keys, mouse_enabled, rxie, held, alt, guest>>

-----------------------------------------------------------------------------
(* The 60 Hz scan.                                                          *)

Ascending(S) ==
  CHOOSE c \in [1..Cardinality(S) -> S] : \A i, j \in DOMAIN c : i < j => c[i] < c[j]

\* The codes in ascending order, the last one marked.
KeyList(S) ==
  IF S = {} THEN <<AllUp>>
  ELSE [Ascending(S) EXCEPT ![Cardinality(S)] = @ + ListEnd]

\* Mutant of Begin: the list does not say that the mouse is over.
BeginUnmarked == << >>

Begin == IF lastdata_mouse THEN <<BeginKeyboard>> ELSE << >>

\* Mutant of Scan: the list with no key in it is not sent.
ScanNoAllUp ==
  /\ IF update_flag /\ keystate # {}
     THEN Transmit(Begin \o KeyList(keystate), KeysMessage(keystate)) /\ lastdata_mouse' = FALSE
     ELSE UNCHANGED <<line, lastdata_mouse>>
  /\ update_flag' = FALSE
  /\ UNCHANGED <<keystate, mouse_enabled, rxie, user, guest>>

Scan ==
  /\ IF update_flag
     THEN Transmit(Begin \o KeyList(keystate), KeysMessage(keystate)) /\ lastdata_mouse' = FALSE
     ELSE UNCHANGED <<line, lastdata_mouse>>
  /\ update_flag' = FALSE
  /\ UNCHANGED <<keystate, mouse_enabled, rxie, user, guest>>

-----------------------------------------------------------------------------
(* The guest's side.                                                        *)

\* Mutant of KeyboardIrq: off by one.
KeyboardIrqAtTwo == rxie /\ fifo.buflen > 1

KeyboardIrq == rxie /\ fifo.buflen > 0

\* What the guest's driver has understood after one more byte: 0xCE opens a
\* mouse event, 0xDF the key lists that follow one, and doubles in its data.
Decoded(d, b) ==
  LET move == Append(d.move, b)
      whole == Len(move) = 4 \/ (Len(move) = 3 /\ b # BeginKeyboard)
  IN CASE d.mode = "keys" /\ b = BeginMouse -> [d EXCEPT !.mode = "move", !.move = << >>]
       [] d.mode = "keys" /\ b # BeginMouse ->
            [d EXCEPT !.keys = IF b = AllUp THEN {} ELSE @ \cup {b % ListEnd},
                      !.mode = IF b = AllUp \/ b >= ListEnd THEN "list" ELSE "keys"]
       [] d.mode = "mouse" -> [Fresh EXCEPT !.mode = IF b = BeginMouse THEN "move" ELSE "keys"]
       [] d.mode = "move" -> [d EXCEPT !.move = move, !.mode = IF whole THEN "moved" ELSE "move"]

\* The message that is whole now, and the decoder ready for the next.
Hear(b) ==
  LET d == Decoded(decoder, b) IN
  CASE d.mode = "list" ->
         /\ received' = KeysMessage(d.keys) /\ seen' = d.keys
         /\ decoder' = Fresh /\ sent' = SubSeq(sent, 2, Len(sent))
    [] d.mode = "moved" ->
         /\ received' = MoveMessage(SubSeq(d.move, 1, 3)) /\ seen' = seen
         /\ decoder' = [Fresh EXCEPT !.mode = "mouse"] /\ sent' = SubSeq(sent, 2, Len(sent))
    [] d.mode \notin {"list", "moved"} ->
         decoder' = d /\ UNCHANGED <<received, seen, sent>>

\* keyboard_read of the data register.
ReadData ==
  /\ GuestReadsEmpty \/ fifo.buflen > 0
  /\ fifo' = [fifo EXCEPT !.readp = (@ + 1) % BufferSize,
                          !.buflen = IF @ > 0 THEN @ - 1 ELSE 0]
  /\ intact' = (intact /\ fifo.buflen > 0)
  /\ IF intact' THEN Hear(fifo.buffer[fifo.readp]) ELSE UNCHANGED <<guest, sent>>
  /\ UNCHANGED <<keys, mouse, rxie, user>>

\* Both resets: they empty the ring, and leave lastdata_mouse and update_flag.
\* The driver's decoder starts anew.
Flush ==
  /\ GuestResetsMouse \/ ~lastdata_mouse
  /\ fifo' = [fifo EXCEPT !.readp = 0, !.writep = 0, !.buflen = 0]
  /\ sent' = << >> /\ intact' = TRUE
  /\ decoder' = Fresh /\ received' = received
  /\ seen' = IF intact /\ sent = << >> THEN seen ELSE Unknown

\* The control register: a software reset, or not, and the interrupt enable.
WriteControl(reset, enable) ==
  /\ IF reset THEN Flush ELSE UNCHANGED <<line, guest>>
  /\ rxie' = enable
  /\ UNCHANGED <<keys, mouse, user>>

WriteReset ==
  /\ Flush
  /\ UNCHANGED <<keys, mouse, rxie, user>>

WriteMouseEnable(b) ==
  /\ mouse_enabled' = b
  /\ UNCHANGED <<keys, lastdata_mouse, rxie, user, line, guest>>

-----------------------------------------------------------------------------
UserNext ==
  \/ \E k \in HostKeys : Press(k) \/ Release(k)
  \/ Alt
  \/ \E m \in Moves : MouseEvent(m)

GuestNext ==
  \/ ReadData
  \/ \E reset, enable \in BOOLEAN : WriteControl(reset, enable)
  \/ WriteReset
  \/ \E b \in BOOLEAN : WriteMouseEnable(b)

Next == UserNext \/ Scan \/ GuestNext

Spec == Init /\ [][Next]_kvars

-----------------------------------------------------------------------------
(* What the keyboard promises.                                              *)

TypeOK ==
  /\ keystate \subseteq Scancodes /\ update_flag \in BOOLEAN
  /\ mouse_enabled \in BOOLEAN /\ lastdata_mouse \in BOOLEAN /\ rxie \in BOOLEAN
  /\ fifo \in [buffer : [0..(BufferSize - 1) -> Bytes], readp : 0..(BufferSize - 1),
               writep : 0..(BufferSize - 1), buflen : 0..BufferSize]
  /\ held \subseteq HostKeys /\ alt \in BOOLEAN /\ events \in 0..MaxEvents
  /\ intact \in BOOLEAN

Channel == INSTANCE MessageChannel WITH queue <- IF intact THEN sent ELSE << >>, latest <- received

\* While the ring has not been overrun and the guest reads no more than there
\* is, the guest understands each key list and mouse event as it was sent, in
\* order and once; after either accident, from the next reset on
\* (keyboard_scan, mouse_event, keyboard_read, keyboard_write).
ImplementsChannel == Channel!MCSpec

\* When nothing is on its way and no scan is due, the guest's idea of the keys
\* that are down is the keyboard's, but for what a reset has thrown away
\* (update_flag of keyboard_event and keyboard_scan).
GuestSeesKeys ==
  intact /\ fifo.buflen = 0 /\ ~update_flag => seen \in {keystate, Unknown}

\* keyboard.c:198, of an extended key, "need ALT set when pressing the key for
\* this to be a match", and :185, "Key up (released)": the code a press began
\* ends with the key's release, wherever ALT is by then.
\* It fails when ALT moves in between (MCKeyboard_Alt).
ReleasedKeysUp ==
  \A c \in keystate : \E i \in DOMAIN Keymap : Keymap[i].scancode = c /\ Keymap[i].key \in held

\* keyboard.h:26, "Number of bytes in keyboard buffer", and keyboard.c:346, "pop
\* off the fifo": the reader is as many bytes behind the writer as there are.
\* It fails when the ring is overrun or read empty (MCKeyboard_Full, _Empty).
RingInStep == (fifo.writep - fifo.readp) % BufferSize = fifo.buflen % BufferSize

\* keyboard.c:275, of BEGKBD, "only supposed to be sent if the last data sent was
\* from the mouse (sending it otherwise breaks the keyboard)": the guest hears
\* the mark after a mouse event, and else only as a byte of one.
\* It fails after a reset (MCKeyboard_Reset).
BegkbdAfterMouse ==
  intact /\ fifo.buflen > 0 /\ fifo.buffer[fifo.readp] = BeginKeyboard
    => decoder.mode \in {"mouse", "move"}
=============================================================================
