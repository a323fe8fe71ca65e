------------------------------- MODULE WD2797 -------------------------------
(***************************************************************************)
(* The WD2797 floppy controller of wd279x.c with those who touch it: the   *)
(* guest's driver (register accesses, the controller reset of the Disk     *)
(* Control Register), the DMA engine, and the user, who ejects and inserts *)
(* discs with F11 (main.c).  Seeks take no time here, so one thread is all *)
(* there is.  Discs are files of the formats of DiskImage.                 *)
(*                                                                         *)
(* A word is two accesses of the data register, as in WD2010.  The status  *)
(* register is the set of its bits that are up: 7 not ready, 6 write       *)
(* protect, 5 head loaded, 4 seek error or record not found, 2 track 0 or  *)
(* lost data; DRQ and BUSY follow the buffer when the register is read.    *)
(* The ghosts req and moved follow the request being served, asked is what *)
(* the latest command was to move; no action's guard reads them.           *)
(***************************************************************************)
EXTENDS DiskImage, FiniteSets

CONSTANTS Drives,         \* the discs the user may insert
          Protected,      \* those whose image opens for reading only
          Words,          \* as in BlockDevice
          MemoryWords,    \* the words the DMA engine may find at each place of memory
          Commands,       \* the commands the guest issues
          MaxCommands,    \* bound on the commands issued
          Blank,          \* the discs' files at the start
          GuestLeavesFormats \* the guest may break off a command that formats

ASSUME WD2797Assumption ==
  /\ 0 \in Drives /\ Protected \subseteq Drives /\ MaxCommands \in Nat
  /\ GuestLeavesFormats \in BOOLEAN
  /\ MemoryWords \in [1..(2 * SecWords) -> SUBSET Words]
  /\ Words \subseteq Nat /\ \A w \in Words : w < 256 * 256
  /\ \A t \in 0..(Tracks - 1), h \in 0..1, s \in 0..(Spt + 1) :
       {256 * t + h, 256 * s + 2, 0} \subseteq Words

NoDisc == -1

VARIABLES track, regs,  \* the head's track; track_reg, sector, data_reg
          step_dir,     \* last_step_dir
          xfer,         \* data_pos, data_len, write_pos, formatting
          buf,          \* data[]: the words of the transfer, until it is over
          irq, status,
          disc,         \* disc_image: the disc in the drive
          sector_map,   \* dif->sectorMap, of a disc that has one
          image,        \* the file of each disc
          drv,          \* the driver: "idle", or "wait" for the interrupt
          dma,          \* state.dmaen and dma_reading
          commands,     \* commands issued so far
          req, moved, asked \* ghosts

head == <<track, regs, step_dir>>
transfer == <<xfer, buf>>
lines == <<irq, status>>
media == <<disc, sector_map, image>>
guest == <<drv, dma, commands>>
ghosts == <<req, moved, asked>>
vars == <<head, transfer, lines, media, guest, ghosts>>

S == INSTANCE SequencesExt

\* What a disc has room for no write changes.
Fits(d, lba, words) == HasRoom(Blank[d], lba, words)

BD == INSTANCE BlockDevice WITH disk <- [d \in Drives |-> Contents(image[d])]

NoWrite == -1

TypeOK ==
  /\ track \in 0..(Tracks - 1)
  /\ regs \in [track : 0..(Tracks - 1), sector : Nat, data : Nat]
  /\ step_dir \in {-1, 1}
  /\ xfer \in [pos : Nat, len : Nat, write_pos : Int, formatting : BOOLEAN]
  /\ xfer.pos <= xfer.len
  /\ buf \in Seq(Words)
  /\ \A d \in Drives : DOMAIN image[d] = DOMAIN Blank[d]
  /\ irq \in BOOLEAN /\ status \subseteq 0..7
  /\ disc \in Drives \cup {NoDisc} /\ drv \in {"idle", "wait"}
  /\ dma \in [en : BOOLEAN, reading : BOOLEAN] /\ commands \in 0..MaxCommands
  /\ req \in BD!Requests \cup {BD!NoRequest}
  /\ moved \in Seq(Words) /\ asked \in Nat

LoadedMap(file) == IF file.format = "IMD" THEN SectorMap(file) ELSE << >>

\* wd2797_init on a context of zeroes, then load_fd.
Init ==
  /\ track = 0 /\ regs = [track |-> 0, sector |-> 0, data |-> 0] /\ step_dir = -1
  /\ xfer = [pos |-> 0, len |-> 0, write_pos |-> 0, formatting |-> FALSE]
  /\ buf = << >>
  /\ irq = FALSE /\ status = {}
  /\ disc = 0 /\ image = Blank /\ sector_map = LoadedMap(image[0])
  /\ drv = "idle" /\ dma = [en |-> TRUE, reading |-> FALSE] /\ commands = 0
  /\ req = BD!NoRequest /\ moved = << >> /\ asked = 0

GetDrq == xfer.pos < xfer.len

\* Where the driver may reset the controller, interrupt its command or switch
\* the DMA engine.
MayLeave == GuestLeavesFormats \/ ~xfer.formatting

-----------------------------------------------------------------------------
(* Registers and commands.                                                  *)

\* Registers are set for a command to come.
MaySet == drv = "idle" /\ commands < MaxCommands

\* The track register moves the head with it.
WriteTrackReg(v) ==
  /\ MaySet
  /\ track' = v /\ regs' = [regs EXCEPT !.track = v]
  /\ UNCHANGED <<step_dir, transfer, lines, media, guest, ghosts>>

WriteSectorReg(v) ==
  /\ MaySet
  /\ regs' = [regs EXCEPT !.sector = v]
  /\ UNCHANGED <<track, step_dir, transfer, lines, media, guest, ghosts>>

\* The data register, between commands, when it holds the target of a seek.
WriteDataReg(v) ==
  /\ MaySet
  /\ regs' = [regs EXCEPT !.data = v]
  /\ UNCHANGED <<track, step_dir, transfer, lines, media, guest, ghosts>>

Type1 == {"RESTORE", "SEEK", "STEP", "STEP_TU", "STEPIN", "STEPIN_TU", "STEPOUT", "STEPOUT_TU"}
Reads == {"READ_SECTOR", "READ_SECTOR_MULTI"}
Writes == {"WRITE_SECTOR", "FORMAT_TRACK"}

\* The driver issues one command at a time, with the direction of the DMA
\* engine set for it, and waits for its interrupt; Force Interrupt it may issue
\* at any time.  It writes on sectors of the track, and reads a track from its
\* first sector on.
Issue(cmd, side) ==
  /\ commands < MaxCommands /\ commands' = commands + 1
  /\ IF cmd = "FORCE_INTERRUPT" THEN drv' = "idle" /\ MayLeave
                                ELSE drv = "idle" /\ drv' = "wait"
  /\ cmd = "WRITE_SECTOR" => regs.sector \in 1..Spt /\ side < Heads
  /\ cmd = "READ_SECTOR_MULTI" => regs.sector <= 1
  /\ dma' = [dma EXCEPT !.reading = (cmd \in Writes)]
  /\ moved' = << >>
  /\ UNCHANGED <<media>>

\* A command with no disc in the drive.
NotReady ==
  /\ disc = NoDisc
  /\ status' = {7} /\ irq' = TRUE
  /\ req' = BD!NoRequest /\ asked' = 0
  /\ UNCHANGED <<head, transfer>>

\* The track after a step, which ends at the first and at the last.
Stepped(dir) ==
  CASE track + dir < 0       -> 0
    [] track + dir >= Tracks -> Tracks - 1
    [] track + dir \in 0..(Tracks - 1) -> track + dir

\* Where a type 1 command leaves the head: a seek goes to the track in the data
\* register and STEP, unlike STEP_TU, nowhere.
Positioned(cmd) ==
  LET dir == CASE cmd \in {"STEPIN", "STEPIN_TU"} -> 1
               [] cmd \in {"STEPOUT", "STEPOUT_TU"} -> -1
               [] cmd \notin {"STEPIN", "STEPIN_TU", "STEPOUT", "STEPOUT_TU"} -> step_dir
      found == cmd = "SEEK" /\ regs.data < Tracks
      steps == cmd \in Type1 \ {"RESTORE", "SEEK", "STEP"}
  IN /\ step_dir' = dir
     /\ track' = CASE cmd = "RESTORE" -> 0 [] found -> regs.data [] steps -> Stepped(dir)
                   [] ~(cmd = "RESTORE" \/ found \/ steps) -> track
     /\ regs' = IF cmd = "RESTORE" \/ found \/ cmd \in {"STEP_TU", "STEPIN_TU", "STEPOUT_TU"}
                THEN [regs EXCEPT !.track = track'] ELSE regs

\* A type 1 command ends at once, and ends any transfer; the seek error it may
\* have met is overwritten with the status of success.
Position(cmd) ==
  /\ cmd \in Type1 /\ disc # NoDisc
  /\ Positioned(cmd)
  /\ xfer' = [xfer EXCEPT !.pos = 0, !.len = 0]
  /\ status' = {5} \cup (IF track' = 0 THEN {2} ELSE {})
  /\ irq' = TRUE
  /\ req' = BD!NoRequest /\ asked' = 0
  /\ buf' = << >>

\* A command that ends with an error before it has begun.
Fail(bit, n) ==
  /\ status' = {bit} /\ irq' = TRUE
  /\ req' = BD!NoRequest /\ asked' = n
  /\ UNCHANGED <<head, transfer>>

WriteProtected(cmd) ==
  /\ cmd \in Writes /\ disc \in Protected
  /\ Fail(6, SecWords)

\* READ_SECTOR's check of the address; READ_TRACK is not there.
BadAddress(cmd, side) ==
  /\ disc # NoDisc
  /\ \/ cmd = "READ_TRACK"
     \/ cmd \in Reads /\ (track > Tracks - 1 \/ side > Heads - 1 \/ regs.sector \notin 1..Spt)
  /\ Fail(4, SecWords)

\* wd279x.c turns the LBA of a write back into cylinder, head and sector.
Written(lba) ==
  Lba(lba \div (Heads * Spt), (lba \div Spt) % Heads, (lba % Spt) + 1)

\* The same by counting: how many sectors of the disc come before this one.
SectorsBefore(t, h, s) ==
  Cardinality({b \in (0..(Tracks - 1)) \X (0..(Heads - 1)) \X (1..Spt) :
                 \/ b[1] < t
                 \/ b[1] = t /\ b[2] < h
                 \/ b[1] = t /\ b[2] = h /\ b[3] < s})

Request(op, side, n) ==
  [op |-> op, drive |-> disc, lba |-> SectorsBefore(track, side, regs.sector), n |-> n]

\* read_sector, once for each sector.
Read(cmd, side) ==
  /\ cmd \in Reads /\ disc # NoDisc /\ side < Heads /\ regs.sector \in 1..Spt
  /\ LET n == IF cmd = "READ_SECTOR_MULTI" THEN Spt ELSE 1
         data == S!FlattenSeq([i \in 1..n |->
                   ReadSector(image[disc], sector_map, Lba(track, side, regs.sector + i - 1))])
     IN /\ buf' = data
        /\ xfer' = [xfer EXCEPT !.pos = 0, !.len = Len(data)]
        /\ req' = Request("read", side, n) /\ asked' = n * SecWords
  /\ status' = {} /\ irq' = FALSE
  /\ UNCHANGED head

\* WRITE_SECTOR, whose address nothing checks, and FORMAT_TRACK, whose 7170
\* bytes are two sectors here.
Write(cmd, side) ==
  /\ cmd \in Writes /\ disc \notin Protected \cup {NoDisc}
  /\ xfer' = [xfer EXCEPT !.pos = 0, !.len = IF cmd = "WRITE_SECTOR" THEN SecWords ELSE 2 * SecWords,
                !.write_pos = IF cmd = "WRITE_SECTOR" THEN Lba(track, side, regs.sector) ELSE @,
                !.formatting = @ \/ cmd = "FORMAT_TRACK"]
  /\ req' = IF cmd = "WRITE_SECTOR" THEN Request("write", side, 1) ELSE Request("format", side, 2)
  /\ asked' = xfer'.len
  /\ status' = {} /\ irq' = FALSE
  /\ UNCHANGED <<head, buf>>

\* The ID field of the sector under the head, three words of it.
ReadAddress(cmd, side) ==
  /\ cmd = "READ_ADDRESS" /\ disc # NoDisc
  /\ buf' = <<256 * track + side, 256 * regs.sector + 2, 0>>
  /\ xfer' = [xfer EXCEPT !.pos = 0, !.len = 3]
  /\ req' = [BD!NoRequest EXCEPT !.op = "address"] /\ asked' = 3
  /\ status' = {} /\ irq' = FALSE
  /\ UNCHANGED head

\* cmd & 8, which would raise the interrupt, is tested after cmd was masked.
ForceInterrupt(cmd) ==
  /\ cmd = "FORCE_INTERRUPT" /\ disc # NoDisc
  /\ xfer' = [xfer EXCEPT !.pos = 0, !.len = 0]
  /\ status' = IF track = 0 THEN {2} ELSE {5} \cup (IF disc \in Protected THEN {6} ELSE {})
  /\ irq' = FALSE
  /\ req' = BD!NoRequest /\ asked' = 0
  /\ buf' = << >>
  /\ UNCHANGED head

WriteCommand(cmd, side) ==
  /\ Issue(cmd, side)
  /\ \/ NotReady
     \/ Position(cmd)
     \/ WriteProtected(cmd)
     \/ BadAddress(cmd, side)
     \/ Read(cmd, side)
     \/ Write(cmd, side)
     \/ ReadAddress(cmd, side)
     \/ ForceInterrupt(cmd)

-----------------------------------------------------------------------------
(* The DMA engine's side.                                                   *)

\* Mutant of Last: the interrupt comes a word early.
LastButOne == xfer.pos + 2 >= xfer.len

Last == xfer.pos + 1 = xfer.len

\* A word to memory.
DmaRead ==
  /\ dma.en /\ ~dma.reading /\ GetDrq
  /\ xfer' = [xfer EXCEPT !.pos = @ + 1]
  /\ moved' = Append(moved, buf[xfer.pos + 1])
  /\ IF Last THEN irq' = TRUE /\ req' = BD!NoRequest ELSE UNCHANGED <<irq, req>>
  /\ buf' = IF Last THEN << >> ELSE buf
  /\ UNCHANGED <<head, status, media, guest, asked>>

\* What the next word of a write may be.
FromMemory == IF GetDrq /\ dma.reading THEN MemoryWords[xfer.pos + 1] ELSE {}

\* A word from memory, whose low byte stays in the data register.  The last one
\* writes the sector out, unless the command formats.
DmaWrite(w) ==
  /\ dma.en /\ dma.reading /\ GetDrq
  /\ regs' = [regs EXCEPT !.data = w % 256]
  /\ IF xfer.formatting \/ xfer.write_pos >= 0
     THEN LET b == IF xfer.formatting THEN buf ELSE BD!Overwrite(buf, xfer.pos, <<w>>)
          IN /\ buf' = IF Last THEN << >> ELSE b
             /\ xfer' = [xfer EXCEPT !.pos = @ + 1,
                           !.write_pos = IF Last THEN NoWrite ELSE @,
                           !.formatting = @ /\ ~Last]
             /\ image' = IF Last /\ ~xfer.formatting
                         THEN [image EXCEPT ![disc] =
                                 WriteSector(@, sector_map, Written(xfer.write_pos), b)]
                         ELSE image
             /\ moved' = Append(moved, w)
             /\ IF Last THEN irq' = TRUE /\ req' = BD!NoRequest ELSE UNCHANGED <<irq, req>>
     ELSE UNCHANGED <<buf, xfer, image, moved, irq, req>>
  /\ UNCHANGED <<track, step_dir, status, disc, sector_map, guest, asked>>

\* Mutants of DmaMiss: no lost data is reported; the interrupt is forgotten.
DmaMissAllWell ==
  /\ ~dma.en /\ GetDrq
  /\ xfer' = [xfer EXCEPT !.pos = xfer.len, !.write_pos = 0]
  /\ status' = {} /\ irq' = TRUE
  /\ req' = BD!NoRequest
  /\ buf' = << >>
  /\ UNCHANGED <<head, media, guest, moved, asked>>
DmaMissSilently ==
  /\ ~dma.en /\ GetDrq
  /\ xfer' = [xfer EXCEPT !.pos = xfer.len, !.write_pos = 0]
  /\ status' = {2} /\ irq' = irq
  /\ req' = BD!NoRequest
  /\ buf' = << >>
  /\ UNCHANGED <<head, media, guest, moved, asked>>

\* wd2797_dma_miss: the main loop found DRQ with the DMA engine off.
DmaMiss ==
  /\ ~dma.en /\ GetDrq
  /\ xfer' = [xfer EXCEPT !.pos = xfer.len, !.write_pos = 0]
  /\ status' = {2} /\ irq' = TRUE
  /\ req' = BD!NoRequest
  /\ buf' = << >>
  /\ UNCHANGED <<head, media, guest, moved, asked>>

SetDmaEnable(b) ==
  /\ MayLeave
  /\ b # dma.en /\ dma' = [dma EXCEPT !.en = b]
  /\ UNCHANGED <<head, transfer, lines, media, drv, commands, ghosts>>

-----------------------------------------------------------------------------
(* Status reads, resets, and the user.                                      *)

\* A status read clears the interrupt; the driver takes its command for done
\* when BUSY, which follows the buffer, is down.
ReadStatus ==
  /\ drv = "wait"
  /\ irq' = FALSE
  /\ IF GetDrq THEN UNCHANGED <<drv, ghosts>>
     ELSE drv' = "idle" /\ moved' = << >> /\ asked' = 0 /\ req' = BD!NoRequest
  /\ UNCHANGED <<head, transfer, status, media, dma, commands>>

\* The Disk Control Register's controller reset.
Reset ==
  /\ MayLeave
  /\ track' = 0 /\ regs' = [track |-> 0, sector |-> 0, data |-> 0] /\ step_dir' = -1
  /\ xfer' = [xfer EXCEPT !.pos = 0, !.len = 0]
  /\ irq' = FALSE /\ status' = {}
  /\ drv' = "idle"
  /\ req' = BD!NoRequest /\ moved' = << >> /\ asked' = 0
  /\ buf' = << >>
  /\ UNCHANGED <<media, dma, commands>>

\* F11 ejects the disc, or inserts one.  wd2797_unload leaves the registers and
\* the buffer's positions as they are; the user waits for the drive to rest.
Eject ==
  /\ disc # NoDisc /\ ~GetDrq
  /\ disc' = NoDisc /\ sector_map' = << >>
  /\ UNCHANGED <<head, transfer, lines, image, guest, ghosts>>

Insert(d) ==
  /\ disc = NoDisc
  /\ disc' = d /\ sector_map' = LoadedMap(image[d])
  /\ UNCHANGED <<head, transfer, lines, image, guest, ghosts>>

-----------------------------------------------------------------------------
Next ==
  \/ \E v \in 0..(Tracks - 1) : WriteTrackReg(v)
  \/ \E v \in 0..(Spt + 1) : WriteSectorReg(v)
  \/ \E v \in 0..Tracks : WriteDataReg(v)
  \/ \E cmd \in Commands, side \in 0..1 : WriteCommand(cmd, side)
  \/ DmaRead \/ \E w \in FromMemory : DmaWrite(w)
  \/ DmaMiss
  \/ \E b \in BOOLEAN : SetDmaEnable(b)
  \/ ReadStatus
  \/ Reset
  \/ Eject \/ \E d \in Drives : Insert(d)

Spec == Init /\ [][Next]_vars

\* The main loop serves DRQ in every slice, one way or the other, and the guest
\* takes its interrupts.
Fairness ==
  /\ WF_vars(DmaRead \/ (\E w \in FromMemory : DmaWrite(w)) \/ DmaMiss)
  /\ WF_vars(irq /\ ReadStatus)

FairSpec == Spec /\ Fairness

-----------------------------------------------------------------------------
(* What the controller promises.                                            *)

\* Seen by those who move words, the controller is a block device, as WD2010 is:
\* a read hands over the words of the sectors addressed, a write reaches the
\* disc in the drive whole at the sector its command addressed, through discs
\* that come and go, misses and resets, whatever the format of the file and the
\* order of its records; only words that a compressed sector of an ImageDisk
\* file cannot hold are dropped (wd2797_*_reg, diskraw.c, diskimd.c).
ImplementsBlockDevice == BD!BDSpec

\* The interrupt comes when the command is over: while it is up no request is
\* being served and no word is asked for.
IrqMeansDone == irq => req.op = "none" /\ ~GetDrq

\* When the driver reads a status without an error, every word of its transfer
\* has moved: no transfer that was given up passes for a complete one.
SuccessMeansMoved ==
  [][drv = "wait" /\ drv' = "idle" /\ UNCHANGED <<commands, xfer, status>>
     /\ status \cap {7, 6, 4} = {} /\ (asked = 0 \/ 2 \notin status)
       => Len(moved) = asked]_vars

\* wd279x.h:52, of formatting, "True if a format command is in progress": when
\* words from memory are counted and thrown away, a format is being served, and
\* not the write of a sector (wd279x.c:527).
\* It fails when a format is broken off (MCWD2797_Formats).
FormattingIsFormat ==
  xfer.formatting /\ dma.reading /\ GetDrq /\ moved # << >> => req.op = "format"

\* Every command the driver issues is answered, with or without a disc.
EveryCommandAnswered == drv = "wait" ~> drv = "idle"
=============================================================================
