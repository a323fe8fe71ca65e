------------------------------- MODULE WD2010 -------------------------------
(***************************************************************************)
(* The WD2010 hard disc controller of wd2010.c with the three parties that *)
(* touch it: the guest's driver (register accesses, the controller reset   *)
(* of the Disk Control Register), the DMA engine (a word at a time, or a   *)
(* missed transfer when DMA is off), and SDL's timer thread, which runs    *)
(* seek_complete concurrently with the main thread.                        *)
(*                                                                         *)
(* A word is two calls of wd2010_read_data or wd2010_write_data: the DMA   *)
(* engine is their only caller and makes them in pairs, and a sector is an *)
(* even number of bytes.  The two cylinder registers are one value, as are *)
(* the SDH head bits and MCR2's fourth.  The ghosts req and moved follow   *)
(* the request being served; no action's guard reads them.                 *)
(***************************************************************************)
EXTENDS Integers, Sequences, FiniteSets

CONSTANTS Drives, SecWords, Words,  \* as in BlockDevice
          Tracks, Heads, Spt,       \* geometry of a drive
          MemoryWords,    \* the words the DMA engine may find in memory
          TaskValues,     \* values the guest writes to a task file register
          Commands,       \* the <<command, multi>> pairs the guest issues
          MaxCommands,    \* bound on the commands issued
          Blank,          \* the contents of a drive's image at the start
          DmaMayStop,     \* the guest may switch the DMA engine off
          GuestPolls,     \* the guest reads the status while it waits
          GuestResets,    \* the guest may reset the controller at any time
          GuestCountsZero \* the guest may transfer with a sector count of 0

ASSUME WD2010Assumption ==
  /\ SecWords \in Nat \ {0} /\ Tracks \in Nat \ {0}
  /\ Heads \in Nat \ {0} /\ Spt \in Nat \ {0}
  /\ 0 \in Drives /\ MaxCommands \in Nat
  /\ DmaMayStop \in BOOLEAN /\ GuestPolls \in BOOLEAN /\ GuestResets \in BOOLEAN
  /\ GuestCountsZero \in BOOLEAN /\ MemoryWords \subseteq Words
  /\ Blank \in [Drives -> Seq(Words)] /\ \A c \in Commands : c[2] \in BOOLEAN
  /\ DOMAIN TaskValues \subseteq {"cyl", "head", "sec", "count", "drive"}
  /\ \A r \in DOMAIN TaskValues : TaskValues[r] \subseteq IF r = "drive" THEN Drives ELSE Nat

VARIABLES task,      \* task file: cyl, head, sec, count, and the drive of MCR2
          at,        \* track, head, sector: where the last command put the head
          xfer,      \* data_pos, data_len, drq, multi_sector, write_pos, formatting
          buf,       \* the words of the transfer in data[]
          irq, status,
          image,     \* disc_image: the words of each drive, in LBA order
          timers,    \* seek timers that have not run to their end
          firing,    \* seek_complete has set status and not yet irq
          poll,      \* how far a status read in progress has come
          drv,       \* the driver: "idle", or "wait" for the interrupt
          dmaen,     \* state.dmaen
          dma_reading, \* state.dma_reading: the DMA engine reads memory
          commands,  \* commands issued so far
          req, moved \* ghosts, see BlockDevice

device == <<task, at, xfer, buf, image>>
lines == <<irq, status>>
timer == <<timers, firing>>
guest == <<poll, drv, dmaen, dma_reading, commands>>
ghosts == <<req, moved>>
vars == <<device, lines, timer, guest, ghosts>>

\* A hard disc takes any words.
Fits(d, lba, words) == TRUE

BD == INSTANCE BlockDevice WITH disk <- image

\* SR_READY | SR_SEEK_COMPLETE; SR_ERROR; SR_DRQ | SR_BUSY and in progress.
StatusValues == {"clear", "ready", "error", "busy"}
NoWrite == -1

TypeOK ==
  /\ task \in [cyl : Nat, head : Nat, sec : Nat, count : Int, drive : Drives]
  /\ at \in [track : 0..(Tracks - 1), head : Nat, sector : Nat]
  /\ xfer \in [pos : Nat, len : Nat, drq : BOOLEAN, multi : BOOLEAN,
               write_pos : Int, formatting : BOOLEAN]
  /\ buf \in Seq(Words) /\ image \in [Drives -> Seq(Words)]
  /\ irq \in BOOLEAN /\ status \in StatusValues
  /\ timers \in Nat /\ firing \in BOOLEAN
  /\ poll \in {"no", "cleared", "done", "not_done"} /\ drv \in {"idle", "wait"}
  /\ dmaen \in BOOLEAN /\ dma_reading \in BOOLEAN /\ commands \in 0..MaxCommands
  /\ req \in BD!Requests \cup {BD!NoRequest}
  /\ moved \in Seq(Words)

ResetTask == [cyl |-> 0, head |-> 0, sec |-> 0, count |-> 0, drive |-> 0]
ResetAt == [track |-> 0, head |-> 0, sector |-> 0]

\* wd2010_init: a reset on a context of zeroes, one image for each drive.
Init ==
  /\ task = ResetTask /\ at = ResetAt
  /\ xfer = [pos |-> 0, len |-> 0, drq |-> FALSE, multi |-> FALSE,
             write_pos |-> 0, formatting |-> FALSE]
  /\ buf = << >>
  /\ irq = FALSE /\ status = "clear"
  /\ image = Blank
  /\ timers = 0 /\ firing = FALSE
  /\ poll = "no" /\ drv = "idle" /\ dmaen = TRUE /\ dma_reading = FALSE
  /\ commands = 0
  /\ req = BD!NoRequest /\ moved = << >>

GetDrq == xfer.drq /\ xfer.pos < xfer.len

-----------------------------------------------------------------------------
(* Task file and commands.                                                  *)

\* The main thread is between two accesses of the guest, not inside one.
Running == poll = "no"

\* The Disk Control Register rewrites the head bits of SDH at any time.
WriteTask(r, v) ==
  /\ Running /\ (drv = "idle" \/ r = "head")
  /\ task' = [task EXCEPT ![r] = v]
  /\ UNCHANGED <<at, xfer, buf, image, lines, timer, guest, ghosts>>

\* The driver issues one command at a time, with the direction of the DMA
\* engine set for it, and waits for its interrupt.
Issue(cmd) ==
  /\ Running /\ drv = "idle" /\ commands < MaxCommands
  /\ cmd \in {"READ", "WRITE"} => task.count > 0 \/ GuestCountsZero
  /\ drv' = "wait" /\ commands' = commands + 1
  /\ dma_reading' = (cmd # "READ")
  /\ moved' = << >>
  /\ UNCHANGED <<image, poll, dmaen, firing>>

SeekCommands == {"SCAN_ID", "FORMAT", "SEEK", "READ", "WRITE"}
Transfers == {"FORMAT", "READ", "WRITE"}

Restore ==
  /\ at' = [at EXCEPT !.track = 0]
  /\ timers' = timers + 1
  /\ irq' = FALSE
  /\ req' = [BD!NoRequest EXCEPT !.op = "seek"]
  /\ UNCHANGED <<task, xfer, buf, status>>

\* SCAN_ID first loads the task file from the position of the head.
Addressed(cmd) ==
  IF cmd = "SCAN_ID"
  THEN [task EXCEPT !.cyl = at.track, !.head = at.head, !.sec = at.sector]
  ELSE task

Fail(t, a, f) ==
  /\ task' = t /\ at' = a
  /\ xfer' = [xfer EXCEPT !.formatting = f]
  /\ status' = "error" /\ irq' = TRUE
  /\ req' = BD!NoRequest
  /\ UNCHANGED <<buf, timers>>

TrackExists(t) == t < Tracks

SeekError(cmd) ==
  /\ cmd \in SeekCommands
  /\ ~TrackExists(Addressed(cmd).cyl)
  /\ Fail(Addressed(cmd), at, xfer.formatting)

\* The position a command that is in range leaves the head at.
Sought(cmd) ==
  [track |-> Addressed(cmd).cyl, head |-> Addressed(cmd).head,
   sector |-> IF cmd = "FORMAT" THEN 0 ELSE Addressed(cmd).sec]

\* The limit check of READ and WRITE, over sector_count also when the command
\* moves a single sector.
BeyondLimits(a) == a.head > Heads - 1 \/ a.sector + task.count - 1 > Spt - 1

BadAddress(cmd) ==
  /\ cmd \in {"READ", "WRITE"} /\ TrackExists(task.cyl)
  /\ BeyondLimits(Sought(cmd))
  /\ Fail(task, Sought(cmd), FALSE)

Seek(cmd) ==
  /\ cmd \in {"SEEK", "SCAN_ID"}
  /\ TrackExists(Addressed(cmd).cyl)
  /\ task' = Addressed(cmd) /\ at' = Sought(cmd)
  /\ xfer' = [xfer EXCEPT !.formatting = FALSE]
  /\ timers' = IF cmd = "SEEK" THEN timers + 1 ELSE timers
  /\ irq' = FALSE
  /\ req' = [BD!NoRequest EXCEPT !.op = "seek"]
  /\ UNCHANGED <<buf, status>>

\* Mutant of Lba: the heads and the sectors of a track are swapped.
LbaHeadsFirst(a) == (a.track * Spt + a.sector) * Heads + a.head

Lba(a) == (a.track * Heads + a.head) * Spt + a.sector

\* The same by counting: how many sectors of the drive come before this one.
SectorsBefore(a) ==
  Cardinality({b \in (0..(Tracks - 1)) \X (0..(Heads - 1)) \X (0..(Spt - 1)) :
                 \/ b[1] < a.track
                 \/ b[1] = a.track /\ b[2] < a.head
                 \/ b[1] = a.track /\ b[2] = a.head /\ b[3] < a.sector})

\* fread from the sector on: short at the end of the image.
FromImage(d, lba, n) ==
  LET from == lba * SecWords
      to == (lba + n) * SecWords
  IN SubSeq(image[d], from + 1, IF to > Len(image[d]) THEN Len(image[d]) ELSE to)

Transfer(cmd, multi) ==
  /\ cmd \in Transfers /\ TrackExists(task.cyl)
  /\ cmd = "FORMAT" \/ ~BeyondLimits(Sought(cmd))
  /\ LET a == Sought(cmd)
         n == IF multi THEN task.count ELSE 1
         data == IF cmd = "READ" THEN FromImage(task.drive, Lba(a), n) ELSE << >>
         len == IF cmd = "READ" THEN Len(data) ELSE n * SecWords
     IN /\ at' = a
        /\ buf' = data
        /\ xfer' = [xfer EXCEPT !.pos = 0, !.len = len, !.drq = TRUE,
                      !.multi = multi, !.formatting = (cmd = "FORMAT"),
                      !.write_pos = IF cmd = "READ" THEN @ ELSE Lba(a) * SecWords]
        /\ status' = IF len > 0 THEN "busy" ELSE "clear"
        /\ req' = [op |-> CASE cmd = "READ" -> "read" [] cmd = "WRITE" -> "write"
                            [] cmd = "FORMAT" -> "format",
                   drive |-> task.drive, lba |-> SectorsBefore(a), n |-> n]
  /\ irq' = FALSE
  /\ UNCHANGED <<task, timers>>

Unknown(cmd) ==
  /\ cmd = "EXT"
  /\ Fail(task, at, xfer.formatting)

WriteCommand(cmd, multi) ==
  /\ Issue(cmd)
  /\ \/ cmd = "RESTORE" /\ Restore
     \/ SeekError(cmd)
     \/ BadAddress(cmd)
     \/ Seek(cmd)
     \/ Transfer(cmd, multi)
     \/ Unknown(cmd)

-----------------------------------------------------------------------------
(* The DMA engine's side.                                                   *)

\* Mutant of Advanced: the task file moves on with a sector's last word.
AdvancedEarly ==
  IF xfer.multi /\ (xfer.pos + 1) % SecWords = 0
  THEN [task EXCEPT !.count = @ - 1, !.sec = @ + 1] ELSE task

\* A new sector of a multiple sector transfer begins with this word.
Advanced ==
  IF xfer.multi /\ xfer.pos > 0 /\ xfer.pos % SecWords = 0
  THEN [task EXCEPT !.count = @ - 1, !.sec = @ + 1] ELSE task

Last == xfer.pos + 1 = xfer.len

Finish == status' = "ready" /\ irq' = TRUE /\ req' = BD!NoRequest

\* A word to memory.
DmaRead ==
  /\ Running /\ dmaen /\ ~dma_reading /\ GetDrq
  /\ task' = Advanced
  /\ xfer' = [xfer EXCEPT !.pos = @ + 1, !.drq = ~Last]
  /\ moved' = Append(moved, buf[xfer.pos + 1])
  /\ IF Last THEN Finish ELSE UNCHANGED <<lines, req>>
  /\ UNCHANGED <<at, buf, image, timer, guest>>

\* A word from memory.  The last one writes the buffer out at write_pos, unless the command formats.
DmaWrite(w) ==
  /\ Running /\ dmaen /\ dma_reading /\ GetDrq
  /\ IF xfer.write_pos # NoWrite
     THEN LET b == BD!Overwrite(buf, xfer.pos, <<w>>)
          IN /\ task' = Advanced
             /\ buf' = b
             /\ xfer' = [xfer EXCEPT !.pos = @ + 1, !.drq = ~Last,
                           !.write_pos = IF Last THEN NoWrite ELSE @,
                           !.formatting = @ /\ ~Last]
             /\ image' = IF Last /\ ~xfer.formatting
                         THEN [image EXCEPT ![task.drive] =
                                 BD!Overwrite(@, xfer.write_pos, b)]
                         ELSE image
             /\ moved' = Append(moved, w)
             /\ IF Last THEN Finish ELSE UNCHANGED <<lines, req>>
     ELSE UNCHANGED <<task, buf, xfer, image, lines, ghosts>>
  /\ UNCHANGED <<at, timer, guest>>

\* Mutant of DmaMiss: the interrupt forgotten.
DmaMissSilently ==
  /\ Running /\ ~dmaen /\ GetDrq
  /\ xfer' = [xfer EXCEPT !.pos = xfer.len, !.write_pos = 0]
  /\ status' = "ready" /\ req' = BD!NoRequest
  /\ UNCHANGED <<task, at, buf, image, irq, timer, guest, moved>>

\* wd2010_dma_miss: the main loop found DRQ with the DMA engine off.
DmaMiss ==
  /\ Running /\ ~dmaen /\ GetDrq
  /\ xfer' = [xfer EXCEPT !.pos = xfer.len, !.write_pos = 0]
  /\ Finish
  /\ UNCHANGED <<task, at, buf, image, timer, guest, moved>>

SetDmaEnable(b) ==
  /\ Running /\ (DmaMayStop \/ b)
  /\ dmaen' = b
  /\ UNCHANGED <<device, lines, timer, poll, drv, dma_reading, commands, ghosts>>

-----------------------------------------------------------------------------
(* seek_complete on the timer thread, and the guest's status reads.         *)

\* Mutant of SeekStatus: the interrupt is raised before the status is set.
SeekStatusLate ==
  /\ timers > 0 /\ ~firing
  /\ irq' = TRUE /\ firing' = TRUE
  /\ UNCHANGED <<device, status, timers, guest, ghosts>>

SeekStatus ==
  /\ timers > 0 /\ ~firing
  /\ status' = "ready" /\ firing' = TRUE
  /\ UNCHANGED <<device, irq, timers, guest, ghosts>>

SeekIrq ==
  /\ firing
  /\ irq' = TRUE /\ firing' = FALSE /\ timers' = timers - 1
  /\ req' = IF req.op = "seek" THEN BD!NoRequest ELSE req
  /\ UNCHANGED <<device, status, guest, moved>>

\* Mutant of Seen: BUSY is what the status register says, not the buffer.
SeenStatusOnly == IF status \in {"ready", "error"} THEN "done" ELSE "not_done"

\* A status read is a store (irq = false) and a load (status) that the timer
\* thread can come between, and nothing orders them for that thread: the store
\* may also become visible after the load.  BUSY is set while the buffer holds
\* data; the driver takes its command for done when it sees READY or an error.
Seen == IF xfer.pos >= xfer.len /\ status \in {"ready", "error"} THEN "done"
                                                                ELSE "not_done"

ReadBegins ==
  /\ Running /\ drv = "wait" /\ (irq \/ GuestPolls)
  /\ \/ poll' = "cleared" /\ irq' = FALSE
     \/ poll' = Seen /\ UNCHANGED irq
  /\ UNCHANGED <<device, status, timer, drv, dmaen, dma_reading, commands, ghosts>>

ReadEnds ==
  /\ poll # "no" /\ poll' = "no"
  /\ irq' = IF poll = "cleared" THEN irq ELSE FALSE
  /\ drv' = IF (IF poll = "cleared" THEN Seen ELSE poll) = "done" THEN "idle" ELSE drv
  /\ UNCHANGED <<device, status, timer, dmaen, dma_reading, commands, ghosts>>

\* Mutant of Reset: the data left in the buffer stays on offer.
ResetKeepsData ==
  /\ Running /\ GuestResets
  /\ task' = ResetTask /\ at' = ResetAt
  /\ irq' = FALSE /\ status' = "clear"
  /\ drv' = "idle"
  /\ req' = BD!NoRequest /\ moved' = << >>
  /\ UNCHANGED <<xfer, buf, image, timer, poll, dmaen, dma_reading, commands>>

\* The Disk Control Register's controller reset; a seek timer keeps running.
Reset ==
  /\ Running /\ GuestResets
  /\ task' = ResetTask /\ at' = ResetAt
  /\ irq' = FALSE /\ status' = "clear"
  /\ xfer' = [xfer EXCEPT !.pos = 0, !.len = 0]
  /\ drv' = "idle"
  /\ req' = BD!NoRequest /\ moved' = << >>
  /\ UNCHANGED <<buf, image, timer, poll, dmaen, dma_reading, commands>>

-----------------------------------------------------------------------------
TimerThread == SeekStatus \/ SeekIrq

MainThread ==
  \/ \E r \in DOMAIN TaskValues : \E v \in TaskValues[r] : WriteTask(r, v)
  \/ \E c \in Commands : WriteCommand(c[1], c[2])
  \/ DmaRead
  \/ \E w \in MemoryWords : DmaWrite(w)
  \/ DmaMiss
  \/ \E b \in BOOLEAN : SetDmaEnable(b)
  \/ ReadBegins \/ ReadEnds
  \/ Reset

Next == TimerThread \/ MainThread

Spec == Init /\ [][Next]_vars

\* The timer thread runs; the main loop serves DRQ in every slice, one way or
\* the other; the guest ends the accesses it begins and takes its interrupts.
Fairness ==
  /\ WF_vars(TimerThread)
  /\ WF_vars(DmaRead \/ (\E w \in MemoryWords : DmaWrite(w)) \/ DmaMiss)
  /\ WF_vars(ReadEnds) /\ WF_vars(ReadBegins)

FairSpec == Spec /\ Fairness

-----------------------------------------------------------------------------
(* What the controller promises.                                            *)

\* Seen by those who move words, the controller is a block device: a read hands
\* over the words of the sectors addressed, a write reaches the disc whole, with
\* its last word, at the sectors addressed by the command that began it, and a
\* missed or reset transfer leaves the disc alone (wd2010_read_data,
\* wd2010_write_data, wd2010_dma_miss, wd2010_reset).
ImplementsBlockDevice == BD!BDSpec

\* The interrupt comes when the command is over: while it is up no request is
\* being served, no word is asked for, and the status says so.
IrqMeansDone ==
  irq => req.op = "none" /\ ~GetDrq /\ status \in {"ready", "error"}

\* During a multiple sector transfer the task file points at the sector being
\* transferred and counts it and those after it, so that a driver can resume.
TaskFileFollows ==
  GetDrq /\ xfer.multi /\ req.op # "format" =>
    LET done == IF xfer.pos = 0 THEN 0 ELSE (xfer.pos - 1) \div SecWords
    IN task.sec = at.sector + done /\ task.count = req.n - done

\* Every command the driver issues is answered, and the driver learns of it.
EveryCommandAnswered == drv = "wait" ~> drv = "idle"

\* wd2010.c:373, "HDC is busy if there is still data in the buffer": whatever
\* statuses older seeks and transfers have left behind or their timers bring
\* now, a driver that polls does not take a transfer for done whose words are
\* still asked for (wd2010_read_reg, seek_complete, wd2010_reset).
IdleMeansNoDrq == drv = "idle" => ~GetDrq

\* wd2010.c:478 and 530, "Check to see if the cyl, hd and sec are valid": the
\* sectors a transfer addresses lie on the track it addresses.
\* It fails for a count of 0 (MCWD2010_CountZero).
TransferOnTrack ==
  req.op \in {"read", "write"} => at.head < Heads /\ at.sector + req.n <= Spt

\* wd2010.c:363, "Get current status flags (set by last command)": an error is
\* there to be read until the next command or a reset.
\* It fails when a timer outlives its command (MCWD2010_StaleTimer).
StatusOfLastCommand ==
  [][status = "error" /\ status' # "error" => commands' # commands \/ status' = "clear"]_vars

\* wd2010.c:568, of a command accepted as a seek and not served, "this shouldn't
\* happen!": a seek in progress has a timer that will end it.
\* It fails for SCAN_ID (MCWD2010_ScanId).
SeekHasTimer == req.op = "seek" => timers > 0

\* wd2010.c:437, of RESTORE: "throw an IRQ".  A seek that has ended leaves its
\* interrupt for the driver that waits for it.
SeekThrowsIrq == drv = "wait" /\ req.op = "none" => irq \/ poll # "no"
=============================================================================
