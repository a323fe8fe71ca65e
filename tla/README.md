# FreeBee in TLA+

FreeBee emulates the AT&T UNIX PC (3B1): a 68010, a page-mapping MMU, a disc DMA
engine, a WD2010 hard disc controller, a WD2797 floppy controller, an 8274 serial
controller, a keyboard controller, a real-time clock, a dialer and a 60 Hz timer.
This directory holds TLA+ models of its device logic, the TLC configurations that
check them and TLAPS proofs about them. Every definition is translated from the C
source under `src/`; `PROJECT.json` maps each one to the lines it stands for.

## 1. Inventory

One thread (`main`) runs the CPU in slices of 200 cycles; after each slice it runs
the DMA engine and presents the highest pending interrupt; every 10 ms it handles
SDL events, and at 60 Hz it latches the timer tick, scans the keyboard and polls the
serial pty. Two more threads exist: SDL's timer thread (the hard disc's seek timer)
and SDL's audio thread (the dialer's tone generator).

| component (source) | state | operations | interacts with | correct when |
|---|---|---|---|---|
| MMU (`memory.c`) | map RAM, GSR, BSR0/1, EE, ROMLMAP, NMI latch | every CPU and DMA cycle; map RAM, CSR, EE, ROMLMAP writes | CPU core (bus error, NMI), DMA engine | status bits say exactly what was done to a page; user code is confined; a refused access has no effect and is reported truthfully; one NMI per fault |
| hard disc controller (`wd2010.c`) | task file registers, status, DRQ, IRQ, sector buffer and its position, two drives | register reads and writes, DMA byte reads and writes, missed DMA, seek timer, reset | DMA engine, interrupt cascade, image files, seek timer thread | every accepted command ends in one interrupt; a finished write is on the disc at the commanded place and nothing else is |
| DMA engine (`main.c`, `memory.c`) | address, count, enable, direction, device | one burst of words per slice; count, address and control writes | MMU, both disc controllers, RAM | no word lost or duplicated over page faults and device waits |
| interrupt cascade and timer (`main.c`, `memory.c`) | timer latch, CLRSINT, the level presented | one evaluation per slice, a tick, an MCR write | all interrupting devices, CPU core | a latched tick stays until dismissed; a lower level waits its turn |
| floppy controller (`wd279x.c`) | registers, command type, buffer, position, inserted disc | register reads and writes, DMA, missed DMA, load, unload, reset | DMA engine, cascade, disc images, user | as the hard disc controller |
| keyboard and mouse (`keyboard.c`) | key states, byte FIFO, enables, IRQ | SDL events, 60 Hz scan, status/data reads, control and command writes | SDL, cascade | bytes leave the FIFO in order, once; a key down is followed by its key up |
| serial controller (`i8274.c`) | two channels: FIFOs, WR/RR registers, interrupt requests in service | status/data reads and writes, pty poll, interrupt request and end of interrupt | pty, cascade | no received byte is lost or reordered; the vector read is the one acknowledged |
| RAM (`memory.c`, `memory.h`, `state.c`) | base and expansion RAM of configured sizes | loads and stores of 8, 16 and 32 bits, DMA words, the debugger's reads | map (frames, status bits), DMA engine | a byte of installed RAM is the one last stored there; a page whose bytes change is dirty |
| real-time clock (`tc8250.c`, `memory.c`) | address latch, enables | digit reads, register writes | host clock | a date read digit by digit is one moment's date |
| dialer (`dialer.c`, `memory.c`) | control word, tone generator, shared with the audio callback | byte loads, `dialer_write`, audio callback | SDL audio thread, under its device lock | a buffer is one tone or silence; phases are unbroken; the generator plays the last whole word; neither thread blocks the other for ever |
| screen and LEDs (`main.c`, `memory.c`) | video RAM, reverse video, LEDs, two flags of what to draw | video RAM and MISCCON writes, the 60 Hz turn | main loop | the window shows what the guest last wrote |
| disc images (`diskraw.c`, `diskimd.c`) | raw file, or records of tracks with a sector map | load, sector reads and writes | both controllers | a sector written is the sector read, whatever the file's layout |
| main loop (`main.c`, `state.c`) | whole machine | init, load and eject images | all | |

Not modelled: `toml.c` (vendored parser), `fbconfig.c` (configuration lookup),
`lightbar.c` (bitmap) and the pixels `main.c` draws, `tools/makehdimg.c`, the modem
and printer stubs, and the Musashi CPU core, of which the models keep only the
interrupt lines and the bus-error pulse as `memory.c` and `main.c` use them.

## 2. Plan

Done:

1. `PageMap`, `Mmu`: pure map operators and the MMU state machine; proofs in `MmuProofs`.
2. `WD2010`: the hard disc controller with its timer thread and images, against
   `BlockDevice`; proofs in `WD2010Proofs`.
3. `DiskDma`: the DMA engine with two devices, the page map and the NMI, against
   `DmaChannel`; proofs in `DiskDmaProofs`.
4. `WD2797`: the floppy controller, against the same `BlockDevice`; proofs in `WD2797Proofs`.
5. `Keyboard`, against `MessageChannel`; proofs in `KeyboardProofs`.
6. `Interrupts`: timer latch, cascade and the CPU's interrupt mask, with `Keyboard` in it;
   proofs at the end of `KeyboardProofs`.
7. `I8274`, against `SerialLine`; proofs in `I8274Proofs`.
8. `Ram`: the arrays behind the map, with their sizes, masks and checks; proofs in `RamProofs`.
9. `DiskImage`: raw and ImageDisk files, below `WD2797`, and so below the same `BlockDevice`;
   proofs in `WD2797Proofs`.
10. `Dialer`, `Screen`, `RealTimeClock`, and `IoPorts`, which puts them on one main thread;
    proofs in `IoPortsProofs`.

Left, in this order:

1. Models: `WRITE_SECTOR_MULTI` and the guest's own reads of the data register in `WD2797`.
2. Composition: one controller behind `DiskDma` in place of the run of words, with `Ram`
   behind its other end, and `I8274` in place of the line `Interrupts` has for it.

## 3. Modules

Every module has the device's state as variables, one action per register access,
callback or turn of the main loop, and the guest's driver reduced to the order in
which it makes those accesses. A definition marked as a mutant (`LbaHeadsFirst`,
`DmaMissSilently`, ...) is a plausible mistake: the model does not use it, and the property
`PROJECT.json` names beside it fails when it takes the place of the definition below it. Ghost variables record what was asked for; no guard of a
device reads them. Every module has a `TypeOK` that states its variables' types; the runs check
those of `Mmu` and `I8274`, which the proofs rest on.

### PageMap, Mmu, MmuProofs (`memory.c`)

`PageMap` has the map entry's status (not present, present, accessed, dirty), its
write enable, and `CheckMemoryAccess` with the order of tests of
`check_memory_access`. `Mmu` has the map RAM, ROMLMAP, EE, GSR, BSR, the NMI latch,
and one action per outcome of an access: `CpuMapped`, `CpuRefused`, `CpuOffTheEnd`
(`mapAddr`'s assertion), `CpuElsewhere` (ROM, video and map RAM), `DmaMapped` and
`DmaRefused`, beside the writes of the map, CSR, EE and ROMLMAP. An access has one or two
words (`m68k_read_memory_32` checks both before it uses either). `aborted` is the
failed assertion. The ghosts `hist` and `userUse` record the strongest access a page
has completed since it was installed, and what user code did to it. Frame numbers are
left out: no property depends on which frame a page has.

### BlockDevice, WD2010, WD2010Proofs (`wd2010.c`)

`BlockDevice` is the disc as its driver sees it: a request names an operation, a drive
and a run of sectors; a read hands over their words in order; a write reaches the disc once, whole,
with its last word; a request that is given up leaves the disc alone. `Fits` is the one
exception it grants: a write that the image has no room for is dropped whole.

`WD2010` has the task file, the head's position, the transfer (`data_pos`, `data_len`,
`drq`, `write_pos`, `multi_sector`, `formatting`), `irq`, `status`, the images and the
seek timers. `WriteCommand` is the whole of the command register's write, with
`Restore`, `Seek`, `BadAddress`, `Transfer` and the failures as its alternatives.
`SeekStatus` and `SeekIrq` are the two stores of `seek_complete`, on SDL's timer
thread, between which the main thread may do anything. A status read is two steps
(`ReadBegins` clears `irq`, `ReadEnds` reads `status`) for the same reason. A word is
two calls of `wd2010_read_data` or `wd2010_write_data`.

### DmaChannel, DiskDma, DiskDmaProofs (`main.c`, `memory.c`)

`DmaChannel` promises that the words a device hands over go to consecutive words of
memory, each once, that those it takes come from there the same way, and that no more
move than were programmed. `DiskDma` is the
engine's loop turn by turn: `DmaBegins` after a slice with the engine on, a missed
transfer (`DmaMiss`) with it off and a controller asking, then for every turn `DmaWord`,
`DmaRefused` (page fault: the NMI is latched and the turn is lost), `DmaWaits` and
`DmaFinishes`. The count, address (low and high halves), direction and drive-select
writes are actions of the guest, and the kernel's answer to a fault is
`EnableErrors`, `TakeNmi`, `InstallPage`, `ClearStatus`. A controller is the run of
words its command asks for.

### WD2797, WD2797Proofs (`wd279x.c`)

Registers, head, transfer, `irq`, `status`, the discs that are inserted, removed and
write-protected. `WriteCommand` has the four command types; `Force Interrupt` breaks a
transfer off. `BlockDevice` is instantiated again: both controllers are shown to be the
same kind of thing.

### DiskImage (`diskraw.c`, `diskimd.c`)

`WD2797` reads and writes sectors through `DiskImage`, by the file's format. A raw file is
its words in order; an ImageDisk file has its tracks in order, each with the map of its
sector numbers, and a record per sector, plain or compressed (`init_imd`'s `sectorMap` is
the variable `sector_map`, made when the disc is loaded). The refinement maps both to the
same array of words by `Contents`, which finds a sector's record in the file's own maps
and not in `sector_map`: that the map and the files stay in step is what is checked. A
compressed record takes only data of one byte's value, and `HasRoom` is `BlockDevice`'s
`Fits`.

### Ram, RamProofs (`memory.c`, `memory.h`, `main.c`, `state.c`)

The two arrays behind the page map in units of banks (512K), with an entry's frame, which
`Mmu` leaves out. Each path has the check and the mask it has in the code: `CpuStore` goes
to memory that is there, `Load` wraps around in base RAM and reads `EmptyByte` beyond
expansion RAM, `DmaStore` checks nothing, `DebugLoad` checks both. An access of 32 bits is
two words through two translations. The ghost `mem` is memory without banks or masks.

### Dialer, Screen, RealTimeClock, IoPorts, IoPortsProofs (`dialer.c`, `tc8250.c`, `main.c`, `memory.c`)

`Dialer` has the two byte loads of the control word, `dialer_write` one store at a time,
and the callback one sample at a time, with SDL's device lock between them. `Screen` has
video RAM, reverse video and LEDs, the two flags `vram_updated` and `last_leds`, and the
60 Hz turn that draws what they say has changed; a refresh draws over the LEDs.
`RealTimeClock` has the address latch and digit reads that ask the host's clock each time.
`IoPorts` composes them: the guest works with one device at a time and leaves it at rest
(`Switch`), and while `dialer_write` waits for the lock neither the guest nor the 60 Hz
turn goes on; the audio thread and the host's clock always do.

### MessageChannel, Keyboard, KeyboardProofs (`keyboard.c`)

`MessageChannel` is a queue of messages that arrive whole, once and in order, and may be
dropped all together by a reset. `Keyboard` has
SDL's events (with the keymap's extended entries and ALT), the 60 Hz scan that sends
lists of keys, mouse packets, the ring `fifo` with its pointers, and the guest's
decoder, which assembles bytes into messages again and keeps its own idea of the keys
that are down (`seen`). `intact` is false once the ring has been overrun or read
empty; the properties are about the time before.

### SerialLine, I8274, I8274Proofs (`i8274.c`, `main.c`)

`I8274` has both channels' FIFO, register pointer and WR1, RR0, the interrupt requests
and those in service, channel B's RR2 (the vector), and what `i8274_get_irq` last said.
The main loop is `Slice` (or `SliceOfClock`, which does not look at the line while the
clock's tick is latched) and the 60 Hz `Scan`. The driver's handler asks for the vector
(`AskVector`, `ReadVector`), serves what it names (`ServeRx`, `ReadData`, `ServeTx`,
`ServeModem`, `ServeNothing`) and ends the interrupt (`Eoi`); outside it the driver
opens, configures, resets, polls and sends.

### Interrupts (`main.c`, `memory.c`)

The slice's evaluation of the cascade, the tick that is latched and dismissed through
CLRSINT, and a CPU with an interrupt mask and nested handlers. `Keyboard` is
instantiated whole; the 8274 and the disc controllers are lines that are raised and
served. `presented` is the level given to `m68k_set_irq` and stays until the next
slice, which is why a handler can be entered again for a level that is already served.

## 4. Runs

| run | question | bounds and why they are enough |
|---|---|---|
| `mmu_pages` | page status bits, user mode, NMI and fault latches under all accesses | one kernel and one user page of RAM with every installed status, the map RAM, a video and a ROM page: each branch of `check_memory_access` has a page to itself; the theorems cover every size |
| `wd2010_commands` | every command answered, reads and writes at the commanded place | two drives of 2 tracks, 2 heads, 2 sectors of 2 words; addresses on and beyond each limit; two commands, so that one finds what the other left behind |
| `wd2010_resets` | an abandoned transfer never reaches the disc; a driver that takes its command for done is asked for no word | one track, sectors on its last and one beyond, counts of 0 to 2; three commands, resets, polls and DMA switched at any moment, seek timers that outlive their commands |
| `wd2010_lost_irq` (violation) | SEEK throws an interrupt (`wd2010.c:437`) | one drive, seeks only, the guest polls |
| `dma_transfers` | each word once, at its place, over page faults | two pages of two words, transfers up to four words, a slice of one word, a page evicted in between: the address crosses a page and the fault may fall on any word |
| `wd2797_commands` | as `wd2010_commands`, over any image | a raw disc, an ImageDisk disc whose odd tracks are interleaved and whose first record is compressed, and a protected raw disc, with no word in common; ejected and inserted; two commands of any kind; one word that fits the compressed record and one that does not |
| `keyboard_messages` | messages whole, once and in order; a guest that has read all knows the keys | two keys, one with an extended entry before its standard one, two mouse moves (one whose last byte is that of a list and is doubled), ALT at any moment, four events on a ring of six bytes, which wraps, overruns and is read while empty |
| `serial_line` | bytes read in order and once, both directions come to an end | three bytes typed into a FIFO of two, two to send, two further calls of the driver |
| `interrupts` | no tick dropped or counted twice, no device waits for ever, a key press reaches the guest | three ticks, one raise per device, one key pressed and released: two ticks meet in one handler, and every pair of levels meets |
| `ram` | an installed byte is the one last stored; what changes is dirty | base RAM of one and two banks, expansion RAM of none, one and two, a frame per bank, an entry for each of the eight banks: present, absent and wrapped frames meet in one access. A page is one word, so that every longword crosses a page |
| `ram_1536k` (violation) | expansion RAM may be any multiple of 512K (`main.c:351`) | the same with three expansion banks |
| `io_ports` | tones whole and in phase, the window up to date, a date of one moment, no thread waits for ever | a circle of three places and two samples a buffer: a phase turns in each buffer; a beep, a digit and silence, with and without the speaker; one word of video RAM, two LED states; the seconds 8, 9 and 10 |

Every bound is a constant of its module (`Max...`) and appears in a guard.

### Fairness

The temporal properties hold under fairness of the main loop and of the timer thread,
and of what the guest does to end what it began:

- `WD2010`, `WD2797` (weak fairness): a raised DRQ is served in every slice, by a word or
  as a missed transfer (the main loop does one or the other); the timer thread runs; a guest
  that began a read of the status ends it, and one that is interrupted reads the status.
- `DiskDma`: the engine runs after each slice and the kernel takes its NMI (weak); the
  kernel enables errors, accesses CSR in its handler and installs pages, each of which the
  engine's turns and the pager interrupt again and again (strong).
- `I8274`: the line is evaluated with nothing in service again and again (strong
  fairness of `accepted = {} /\ Slice`): the slice is 200 cycles, shorter than the way
  out of one handler and into the next. Without it a stale vector
  makes the handler go round for ever. The pty is scanned, handlers and pairs
  of accesses finish, and an interrupt presented again and again is taken.
- `Interrupts`: slices and ticks go on, handlers finish, the base level lowers its mask and
  enables the keyboard (weak); a level presented above the mask again and again is taken
  (strong). Ticks are bounded by `MaxTicks` and the user rests before the last: a clock that
  ticks faster than its handler returns starves every other device, as it would on the
  machine. `LongHandlers` has a handler return in a later slice than the one it
  serves in: a level presented before it was served is looked at again by then.

- `IoPorts` (`DialerFairness`): each thread runs on (weak), and gets a lock that is free
  again and again (strong, for `LockDevice` and `CallbackBegins`: SDL's mutex does not
  starve a thread that waits while the other one lets go of it once per buffer).

No fairness is assumed of SDL's user, of resets or of anything optional.

### The guest's discipline

The passing runs and the proofs are about a guest that keeps to a discipline. Where the
code has something to lose by it, the discipline is a constant. It is lifted in the runs, the
theorems or the counterexamples of section 5 that the table names:

| constant | the guest that keeps to it | lifted in |
|---|---|---|
| `GuestCountsZero` | asks for at least one sector (needed by `wd2010_commands` only) | `wd2010_resets`, `ControllerIsBlockDevice`, `IdleDriverIsNotAsked`, `MCWD2010_CountZero` |
| `Commands` without `SCAN_ID` | does not issue `SCAN_ID` | `ControllerIsBlockDevice`, `IdleDriverIsNotAsked`, `MCWD2010_ScanId` |
| `GuestPolls`, `GuestResets` | waits for its interrupts | `wd2010_resets`, `wd2010_lost_irq`, `MCWD2010_StaleTimer` |
| `GuestMiscounts` | programs as many words as its command asks for | `NmiHandledOnce`, `MCDiskDma_Overrun` |
| `GuestLeavesFormats` | lets a format run to its end | `MCWD2797_Formats` |
| `GuestReadsEmpty` | reads the keyboard's data only when there are some | `keyboard_messages`, the theorems, `MCKeyboard_Empty` |
| `GuestResetsMouse` | resets the keyboard while the mouse is silent | `KeyboardTypes`, `MCKeyboard_Reset` |
| `LongHandlers` | returns from a handler in a later slice than it serves in | `MCInterrupts_Short` |

Left out of every model: a second command before the first has ended; writes to sectors that
do not exist in the image; `READ_SECTOR_MULTI` from a sector beyond the first (the transfer
would run past the track); ejecting a disc in the middle of a transfer; two accesses of an 8274
register with the interrupt unmasked between them; more than one end of interrupt; pointing the
DMA engine at RAM that is not installed. Section 5 says what the code does where one of these is
broken.

## 5. Findings

| run | where | what |
|---|---|---|
| `wd2010_lost_irq` | `wd2010.c:362` | a status read on the main thread wipes out the interrupt the timer thread is raising |
| `ram_1536k` | `memory.h:17` | with 1536K of expansion RAM, a size that is allowed, the mask makes its middle bank an alias of the first |

Counterexamples. Each of these configurations checks one property that fails, with a discipline of
section 4 lifted where it takes that. They are kept beside the runs, and no run or theorem counts on
them; `tlc -config MCKeyboard_Alt.cfg MCKeyboard` shows the shortest way there.

| configuration | where | property | what |
|---|---|---|---|
| `MCWD2010_CountZero` | `wd2010.c:479` | `TransferOnTrack` | with a count of 0 a command for one sector passes the limit check (`:478`) one sector beyond the track |
| `MCWD2010_StaleTimer` | `wd2010.c:326` | `StatusOfLastCommand` | a seek timer outlives a reset and the next command (`:217`, `:439`), and turns the error of a later command, whose status it is to be (`:363`), into "ready" |
| `MCWD2010_ScanId` | `wd2010.c:568` | `SeekHasTimer` | `SCAN_ID` is accepted as a seek and never answered |
| `MCDiskDma_Overrun` | `main.c:565` | `CountIsKept` | the engine is not turned off at the end of its count (`:562`) and moves one more word in each slice |
| `MCWD2797_Formats` | `wd279x.c:527` | `FormattingIsFormat` | a format that is broken off leaves `formatting` set (`wd279x.h:52`): the next sector write is accepted, answered and not stored |
| `MCKeyboard_Alt` | `keyboard.c:199` | `ReleasedKeysUp` | a key that goes down and up with ALT in different positions stays down |
| `MCKeyboard_Empty` | `keyboard.c:348` | `RingInStep` | a read of the empty ring puts the reader ahead of the writer, until a reset |
| `MCKeyboard_Full` | `keyboard.c:225` | `RingInStep` | a write to the full ring puts the writer ahead of the reader, until a reset |
| `MCKeyboard_Reset` | `keyboard.c:378` | `BegkbdAfterMouse` | a reset leaves `lastdata_mouse` up, and the next key list begins with the mark that "breaks the keyboard" (`:277`) |
| `MCInterrupts_Short` | `main.c:586` | `OneClockPerTick` | a level stays presented until the end of the slice: a handler that dismisses its tick and returns within it is entered again |

Observed while translating and left without either:

- `wd2010.c:498` a multiple sector command with a count of zero makes `data_len` 0; `:299` a
  read with the direction bit wrong overwrites the start of the disc; `:513` a short `fread`
  is not noticed; `:404` the drive bit is taken per byte.
- `wd279x.c:506` Force Interrupt never interrupts, against the comment at `:496`; `:317`
  the seek error is overwritten; `:423` a multi-sector read runs past the track; `:467`
  the address of a write is not checked; `:535` `WRITE_SECTOR_MULTI` stores one sector.
- `memory.c:56` a longword at 0x3FFFFE passes the access check, and `mapAddr`'s assertion
  aborts the emulator (`CpuOffTheEnd`).
- `memory.c:166` GSR is overwritten by a second fault before CSR is read, against the
  comment at `:567`; `:351` the NMI is raised again for the same fault after CSR.
- `main.c:493` 21 words are moved per slice; `:507` with no drive selected zeroes are
  moved.
- `keyboard.c:378` a key list that a reset throws away is not sent again; `:194` two host keys may
  share a scan code.
- `i8274.c:180` the request acknowledged may be another than the one the vector names
  (`:249`). `RxDrains` and `TxDrains` show that a driver loses nothing by it.
- `main.c:528` the DMA engine's stores are not checked against the size of RAM, unlike
  the CPU's: beyond it base RAM wraps around.
- `dialer.c:54` says that the phase starts at zero when a tone begins; a tone switched off and
  on between two callbacks goes on where it was, as no silent buffer comes between.
- `tc8250.c:116` a date read over a carry is no moment's date; `:102` the year is always 87.
- `diskimd.c` the cylinder and head in a track's header are not used (tracks are taken in
  file order); `:139` a failure is `(size_t)-1`; `:173` a compressed sector drops what
  it cannot hold; `write_sector_imd` reads a byte and then writes without positioning the
  file between, and does not flush a fill byte. `main.c` gives every floppy 40 tracks,
  though the README speaks of any number.

## 6. Proofs

`MmuProofs` proves, for every number of pages, every layout and every set of statuses
the kernel installs:

- `TypeCorrect`: `Spec => []TypeOK`;
- `StatusBitsExact`: the status of a page is the stronger of what was installed
  and the strongest access completed since (`StatusExact`). Not inductive without
  `TypeOK`; the lemmas `CheckFacts`, `MapAddrFacts` and `UsedFacts` say what a permitted
  access leaves in the map and in the history;
- `UserModeConfined` and `OneNmiPerClear`: `PermittedFacts` and `TrapSteps` carry them over
  accesses of two words and over refusals;
- `RefusedAccessHasNoEffect` and `LatchedPageIsRefusing`: action properties, from
  `TypeOK` and the shape of each action.

The assumptions are `PageMapAssumption` and `MmuAssumption`, on the layout of the
address space. Each proof splits `Next` into its actions, one step per action.

`I8274Proofs` proves, for every size of the FIFO and any number of bytes and calls:

- `ChipTypeCorrect`: `Spec => []TypeOK`, with it that the FIFO never exceeds its size;
- `RxStatusExact` (`AvailableExact`) and `OneInService` (`ServiceBalanced`);
- `ChipIsSerialLine` (`ImplementsSerialLine`): what is typed and not read is the FIFO and then the
  pty. `pty_in` moves bytes from the one to the other and so is a stutter (`TakenAdds`), a
  keystroke comes last (`TypedLast`), `i8274_data_in` takes the oldest (`ReadFirst`), and a
  channel reset drops what had come to the FIFO (`FifoDropped`).

`ServiceBalanced` is not inductive: `end_of_interrupt` is found only if WR0 is selected
when the handler writes it, and it ends the request it finds highest, which is the
one acknowledged only if there is no other. The invariant `IInv` adds
`PointersAtRest`, that a register pointer is set only between the two accesses of a pair and
on one channel at a time. There is a lemma for each function of the chip (`PtyInFacts`,
`DataInFacts`, `DataOutFacts`, `GetIrqFacts`, `StatusReadFacts`, `ControlWriteFacts`), and a
step of `Next` is one of these and a move of the driver (`LoopKeepsIInv`,
`HandlerKeepsIInv`, `DriverKeepsIInv`). The refinement needs `ReadReady` beside it: a byte waits
wherever the driver goes to read one, and WR1 is selected between the two accesses of `Open`,
where the value written would be the reset command to WR0. `I8274Assumption` is all that is
assumed.

`DiskDmaProofs` proves, for any pages, sizes of a page, slices and counts:

- `NmiHandledOnce` (`HandlerNotReentered`), from `LatchHeld`, whatever the guest counts: an NMI that waits, or a handler
  that has not accessed CSR, keeps the latch set, so that the retries raise no other;
- `EngineIsDmaChannel` (`ImplementsDmaChannel`), for a guest that programs as many words as its
  commands ask for (`~GuestMiscounts`; `MCDiskDma_Overrun` shows the other): a slice is a stutter of `DmaChannel` except
  for the turn that moves a word. `RequestFits` ties the engine's count and the device's
  position to the request, `FieldFacts` the two halves of the address to its carry.

`RamProofs` assumes that the two sizes are powers of two banks (`RamSizes \subseteq
PowersOfTwo`: the sizes for which a mask keeps places apart; `ram_1536k` shows what another
size does) and proves `RamHoldsLastWritten` and the action property `ChangesLeaveDirty` from
`Held`: every installed byte is the ghost's. `CellsApart` says that two places in RAM never
share a cell, and there is a lemma for each path and width.

`IoPortsProofs` proves, for any frequencies, buffer size, pictures and times:

- `OneWordPerBuffer` and `GeneratorMakesTone`, from `LockHeld` (who holds SDL's lock),
  `WordTaken` (how many of the stores of `dialer_write` are done) and `BufferInv`;
- `NoClicks`: `PhaseInv` says that the tone's phases are those that follow the last sample,
  over the border of two buffers;
- `WindowIsUpToDate`, from `ScreenInv`;
- `DatesAreMoments`, if the host's clock does not come back to a time it left (`NeverBack`).
  Two digits read at times between which none but the seconds' last digit changed are digits
  of the later time; `ClockInv` says that the times of the reading are in order.

`WD2010Proofs` proves, for drives of any geometry, if their images hold whole sectors, at
least those of the geometry (`WholeDiscs`; `wd2010_init` does not look):

- `ControllerIsBlockDevice` (`ImplementsBlockDevice`), for a driver that polls, stops the DMA
  engine, resets the controller and counts as it likes. The invariant is `Serving`: while a word
  is asked for, the buffer, the position, the task file and the file position are those of the
  request. `LbaCounts` proves that the code's sum counts the sectors before the addressed one,
  as `BlockDevice` defines its place, from `PlaceOrder` and a bijection;
- `TaskFilePointsAtSector` (`TaskFileFollows`), from `Serving`;
- `IdleDriverIsNotAsked` (`IdleMeansNoDrq`), for the same driver: when it takes its command for done,
  by an interrupt, a poll or a reset, no word is asked for. The status register alone would not
  tell, since a stale timer may have stored "ready" in it during the transfer: it is BUSY, taken
  from the buffer, that does;
- `InterruptMeansDone` (`IrqMeansDone`), for a driver that waits for the interrupt and resets no
  drive that seeks. Without these two the timer of `seek_complete` may fire into
  another command, which is how `wd2010_lost_irq` loses one. The invariant is `OneTimer`.

`KeyboardProofs` proves, for a ring of any size above four (and the number of the keys), any
keymap and any mouse moves, with ALT where it likes:

- `RingIsMessageChannel` (`ImplementsChannel`), for a driver that resets the keyboard while the
  mouse is silent (`~GuestResetsMouse`; `MCKeyboard_Reset` shows the other). The invariant `InStream` says that, until the ring
  is overrun or read empty, its unread bytes are the encodings of the messages on their way, one
  after another (`Cuts`), the first of them partly read, and that the driver's decoder is what it
  hears of it (`Heard`). What follows a mouse packet is encoded otherwise than what follows a key
  list, hence `AfterMove`. The lemmas `StreamSend` and `StreamRead` put a message on and take a
  byte off; `HearMessage` decodes what `KeyList` and `MouseEvent` encode;
- `GuestKnowsKeys` (`GuestSeesKeys`), for the same driver, from `KeysUpToDate`: the last key list sent, or the decoder's
  if all are read, is the keyboard's, unless a scan is due;
- `KeyboardTypes`: the pointers stay in the ring also after it was overrun or read empty, for any
  driver;
- `ClockOncePerTick` (`OneClockPerTick` of `Interrupts`, which has the keyboard in it), for any
  number of ticks and interrupts, if handlers end in a later slice than they serve in
  (`LongHandlers`). `TickInv`: a latched tick is owed to the clock's handler, and so is one that
  is presented, but for the tick the handler was taken for, until it has dismissed it and a slice
  has looked again. No handler is interrupted at level 6 by another of level 6 (`Low`).

`WD2797Proofs` proves, for any geometry and any discs with the sectors it names: raw files of at
least its words, ImageDisk files whose tracks number each of their sectors once, in any order
(`WholeDiscs`), protected or not, and a guest that lets formats run to their end
(`~GuestLeavesFormats`; `MCWD2797_Formats` shows the other):

- `ControllerIsBlockDevice` (`ImplementsBlockDevice`), through discs that come and go, misses,
  resets and Force Interrupt. The invariant `IInv` has four parts beside the types. `Loaded`: no
  write changes a file's shape, so `sector_map` stays the map of the disc in the drive. `Asking`:
  words are asked for only while the driver waits, and for a disc that is there. `Serving`: the
  buffer is what the request is to hand over or what was accepted for it, and `write_pos` its
  place. `Answered`: a transfer that is over and not complete has marked the status. Of the files,
  `RecordInjective` and `SectorMapFacts` say that the code's map leads from a sector to its own
  record and to no other's, `ReadFacts` and `WriteFacts` that a sector is read from, and written
  to, its place in `Contents`, `UniformFacts` that `write_sector_imd` drops what `HasRoom` says
  it must. A read of a whole track is a `FlattenSeq`, which is defined by recursion over its
  arguments: `FlattenFacts` gives its words by the least place at which they might differ;
- `InterruptMeansDone` (`IrqMeansDone`), from `Asking`;
- `NoErrorMeansAllMoved` (`SuccessMeansMoved`), from `Answered`: the driver leaves its wait without a
  command or a change of the transfer only by a status read, or a reset, with no word asked for.

The assumptions on constants are those the code justifies: `WD2797Assumption` that words are of 16
bits and that the three of an ID field are among them; `KeyboardAssumption` asks that a scan
code is none of the protocol's own bytes, that the ring holds a list of all keys and that mouse
buttons are three bits; `WD2010Assumption` that the registers take numbers, the drive one there is.

Only model-checked: everything under fairness. Liveness, `ENABLED` and induction over data are
out of the prover's reach; no module uses `RECURSIVE`.

## 7. Not modelled

Configuration, the image tool and the printer and modem registers have no state that
another component depends on. The pixels and colours of the screen, the amplitude of a tone and
the sizes that `IoWrite` and `IoRead` allow a register are left out: no property
depends on them. ImageDisk files that `init_imd` turns away are left out, as is
`WRITE_SECTOR_MULTI`, which stores one sector whatever it was sent. Reading the geometry from
the image, opening files and pacing against the host's clock are host I/O. The CPU core
is a submodule that is not in the tree: the models keep its interrupt lines, its mask,
the bus error and the end of a slice as `main.c` and `memory.c` use them.
