# A TLA+ model of nanobyte-os

nanobyte-os boots a PC from a FAT12 volume: a boot sector (stage 1) loads a
loader (stage 2), which reads `/kernel.bin` through its own FAT and disk
drivers and jumps to it; the kernel sets up its descriptor tables and the
interrupt controllers and then idles. This directory models that program in
TLA+, checks the models on small instances with TLC, and proves the most
important properties for every value of the constants with TLAPS.

Paths below are relative to the repository (`src/bootloader/...`,
`src/kernel/...`); `stage2/` abbreviates `src/bootloader/stage2/` and `i686/`
abbreviates `src/kernel/arch/i686/`.

## 1. Inventory

| Part | State it keeps | Operations | Talks to |
|---|---|---|---|
| Stage 1, `stage1/boot.asm` | load table of (LBA, count), `have_extensions`, entry and segment being filled, the packet of int 13h/42h | probe int 13h extensions, read with three tries and resets, jump, reboot on a key | BIOS; stage 2 through memory and `dl` |
| Image scripts, `build_scripts/make_*_image.sh` | the image | write stage 2 from LBA 1 on, and its entry of the load table | stage 1 through the boot sector |
| Stage 2 entry, `stage2/entry.asm` | A20 gate, GDT, bss, `g_BootDrive` | enable A20, enter protected mode, call `start` | keyboard controller, `start` |
| `start()`, `stage2/main.c` | the open file, the kernel's memory, a pointer into it | initialise, open, read and copy in chunks, close, jump | FAT driver, disk driver |
| FAT driver, `stage2/fat.c` | root handle and ten file handles, each with a sector buffer and a cursor into a cluster chain; the table | Initialize, Open (FindFile, OpenEntry per component), Read, ReadEntry, Close | disk driver; callers share handles and the root directory |
| Disk driver, `stage2/disk.c`, `stage2/x86.asm` | drive id and geometry; the processor's mode | Initialize, ReadSectors, x86_Disk_*, mode switches | BIOS int 13h in real mode |
| Video thunks, `stage2/vbe.c`, `x86.asm` | none | none called | BIOS int 10h |
| Consoles, `stage2/stdio.c`, `src/kernel/stdio.c` | text screen, cursor | putc, puts, printf, clrscr, scrollback | VGA; the kernel's is used by `start()` and by interrupt handlers |
| Kernel start and HAL, `src/kernel/main.c`, `hal/hal.c` | how far the boot is | GDT, IDT, ISRs, IRQs, in that order | everything below |
| IDT and exceptions, `i686/idt.c`, `isr.c`, `isr.asm`, `isrs_gen.*` | gates, `g_ISRHandlers`, the words on the stack | load, enable gates, enter, dispatch, return, panic | processor; IRQ layer; drivers that register handlers |
| IRQ layer and PIC driver, `i686/irq.c`, `i8259.c` | `g_IRQHandlers`, `g_PicMask`, the two chips | probe, configure, mask, unmask, end of interrupt, dispatch of lines | chips, devices, drivers |
| Host FAT reader, `tools/fat/` | as the FAT driver, on an image file; the output | open one path, list a directory or print a file | files of the host |
| Build system, CI | none of the running system | | |

What is hard in this code, and what makes each part correct:

* **FAT driver.** One lookup opens and closes a handle per path component, over
  a root handle all callers share; a read looks one sector ahead, and a read
  that fails leaves a cursor and a buffer that disagree. Correct means: handles
  neither leak nor alias, a cursor is where its position says, a buffer is the
  sector under the cursor, bytes of one file never come out of another, calls
  on one handle leave the others alone, loops end.
* **Disk driver.** Each sector read is a trip through two mode switches with
  interrupts on in the middle, three tries with resets, and three encodings of
  an address. Correct means: interrupts only in real mode, the sectors asked
  for or an honest `false`.
* **`start()`.** Nothing but the two Initialize results is checked. Correct
  means: what is entered is the kernel file, whole and in place.
* **Kernel interrupts.** Everything may happen between any two instructions
  once `sti` was executed: requests, withdrawn requests, faults, NMIs, nested.
  Correct means: no interrupt before all is set up; stack words as the stubs
  and `iret` expect them; each chip told exactly once; masked lines not
  served; a panic is the end.
* **Console.** Cursor arithmetic at the right and bottom edges, a tab whose
  bound moves, a format parsed by a state machine; the kernel's is shared
  between `start()` and handlers without a lock. Correct means: a store is on
  the page, the screen shows the text, a race does no lasting damage, `printf`
  consumes and prints what its format says.
* **Stage 1 and the image scripts.** The load table is written by one and
  trusted by the other; a read that fails may have moved some sectors and may
  have changed the packet that is used again. Correct means: stage 2 is
  entered whole and in place, or not at all.
* **`EnableA20`.** Six exchanges with a controller that works at its own pace
  while keys go on coming. Correct means: both sides stay in step, and `start()`
  finds the gate open and the keyboard on.
* **Host reader.** No read of a directory is bounded, and the walk of the root
  directory leaves it after one sector. Correct means: what it prints is what the
  path names, all of it, or a message.
* **8.3 names.** The terminator of a component lies one byte too far, so a name may
  take a byte from the buffer. Correct means: what is compared is the name of
  the component.

`PROJECT.json` lists the hazards one by one, each at its line.

## 2. Modules

| Module | Models | Uses |
|---|---|---|
| `Image` | what the image scripts write for stage 1 | |
| `Stage1` | `boot.asm`: load table, int 13h with and without extensions, retries | |
| `KeyboardController` | the 8042 as `EnableA20` uses it (external) | |
| `Boot`, `MCBoot` | `entry.asm`; the way from the boot sector to `start()` | `Stage1`, `KeyboardController`, `Image` |
| `FatTable` | the packed table of 12-bit entries and `FAT_NextCluster` | |
| `FatVolume` | volume, cursor and chain, shared by both FAT readers | `FatTable` |
| `FatName` | a path component's way to its 8.3 name, in both versions | |
| `FileStream` | what `fat.h` promises: open files are streams, a read delivers the next units, as many as asked for or all that are left, or breaks off where a block cannot be read | |
| `FatDriver` | `stage2/fat.c`, at the grain of one sector read per step, for any client | `FatVolume` |
| `FatStream` | the refinement mapping of the driver onto `FileStream` | `FatDriver`, `FileStream` |
| `MCFat`, `MCFatStream` | a small volume, for the driver and for the refinement | `FatDriver`, `FatStream` |
| `Stage2`, `MCStage2` | `start()` as one client of the driver | `FatDriver` |
| `HostFat`, `MCHost` | `tools/fat/`: the whole program over an image file | `FatVolume`, `FatName` |
| `SectorDevice` | what `disk.h` promises, as far as `disk.c` keeps it | |
| `Disk`, `MCDisk` | `disk.c`, the disk thunks and the mode switches of `x86.asm` | `SectorDevice` |
| `Pic` | the two 8259s, and `i8259.c` as sequences of port writes | |
| `Interrupts`, `MCInterrupts` | boot of the HAL, stubs, dispatch, panic, drivers, devices, NMIs | `Pic` |
| `Printf` | `printf` of `stdio.c` as a function, and the meaning of a format | |
| `Console`, `MCConsole` | the kernel's `putc`, `clrscr` and their calls by `start()` and by handlers | `Printf` |
| `BootProofs`, `FatVolumeProofs`, `FatProofs`, `Stage2Proofs`, `HostProofs`, `DiskProofs`, `InterruptProofs`, `ConsoleProofs` | theorems | the module each is named after (`FatProofs`: `FatStream`, `FatVolumeProofs`; `Stage2Proofs`: `FatProofs`) |

### Image, Stage1 and Boot

Memory from 0x500 on is counted in slots of one sector; what a slot holds is the
LBA it was read from, so "stage 2 is in place" is a relation between `mem` and
the image. `pc` walks through `boot.asm`: "loop" over the table (`DiskRead`
fills `request`, the packet of int 13h/42h or, through `lba_to_chs` and its
16-bit arithmetic, the registers of 02h), "int13" (`Transferred`,
`TransferFails`, `RunOver` when a count goes beyond the memory below stage 1's stack),
"reset" (`ResetAndRetry`, `ResetFails`) and "error". A transfer that fails has
moved any number of its sectors; with the extensions the BIOS may store that
number in the packet, which the retry uses again (boot.asm:265). The ghost
`shrunk` says that this has happened.

`Image` computes the count byte that `printf "%x" | xxd -r -p` makes of a size: none
for a single digit, the upper two of three digits. `Boot` composes stage 1 with
`entry.asm` and the controller. Each wait-then-out of `EnableA20` is one `Send`: only
the processor fills the input buffer, so nothing comes between. The
controller takes commands when it likes (`Controller`), keys go down and up
at any time (`Keystroke`; before `cli` the BIOS fetches them, up to the one in the
buffer then), and a byte written to the output port with bit 0 clear resets
the machine.

The load tables are more general than the boot sector's: how many entries fit the bytes
that boot.asm:327 reserves is not modelled, nor used by any property.

Left out: messages; a BIOS that changes `dl` in the probe (int 13h/41h), whose
value the reads then use (the interface says it does not); descriptor table, protected mode and bss,
which follow with interrupts off and are one step (`CallStart`).

### FatDriver

`files` maps a handle to its `FAT_FileData`; the root handle is -1 as in the
code. Lengths and positions are counted in directory entries (32 bytes), the
unit of `FAT_ReadEntry`; a sector's content is the pair of its LBA and an
index, so a buffer is fully described by the LBA it was read from, and a unit
delivered to the caller says where it came from. The entries stored on the
volume, the table and its chains are constants (`Entry`, `Fat`, `Chain` of
`FatVolume`), with the assumptions a sound volume satisfies. Links are read
as the code does, from the word at `cluster * 3 / 2` of the packed table
(`FatTable`).

The driver's calls are cut where they read a sector. `pc` says which call is in
progress: `FAT_Open` goes through "open" (`OpenComponent`, `OpenReturn`,
`OpenFault`), "find" (`SearchStep` per entry, `NotFound`) and "enter"
(`FAT_OpenEntry`), `FAT_Read` through "read" (`ReadLoop` per iteration,
`ReadReturn`). `DISK_ReadSectors` gives the sector, or, for one of `BadSectors`, each
time anew perhaps false over the old or a torn buffer. Client calls are `FAT_Open`, `FAT_Read` and
`FAT_Close` of handles the client holds.

Kept from the code, because properties depend on them: the handle's `Opened`
flags hold garbage before `FAT_Initialize`; `FAT_Close` of the root keeps the
buffer; the terminator of the last path component is one byte too far
(the constant `Spellings` gives the names a component may be compared as; `FatName`
has the conversion itself, and `ComponentSpelled` proves that with a full
extension it is only one, and else at most one byte longer); the directory
check that cannot fire is absent; the NULL after a failed `FAT_OpenEntry` is
dereferenced (`OpenFault`).

Abstracted: what a name is made of, and messages. A buffer that a failed transfer left
half written (`TORN`) holds no directory entry (`Matches`): in the machine it may still
hold entries of the old or of the new sector, and one of both where the transfer
stopped, so that after a disk error a lookup may find an entry the model passes over.
The table must fit its memory (`FatFits`), but memory itself is not laid out.

### FatName and HostFat

`FatName` is the only module with characters in it: `Extracted` is the copy of a
component over whatever the buffer holds and the terminator behind the byte
after it, `Converted` and `HostConverted` the loops of `FAT_FindFile`.
`EightDotThree` is the reference.

`HostFat` is the older driver with the program around it, one handle in use at a
time. Its root directory starts at cluster 0, so the walk goes on with LBA 1 after
the first sector (fat.c:233), through the root directory again when it gets there, and wraps at
the end of 32-bit LBAs and positions. A walk that leaves the table reads memory
behind it and may do anything ("wild"). `ImageLengths` are lengths of the image
file: a read behind its end fails, with the buffer unchanged. `name`
starts with any of `Garbage`, and `misspelt` is a ghost: a name other than its
component's was compared.

`DeliversFile` compares the program with a reference that knows nothing of cursors:
`Denotes` walks a path through the entries of directories, `Contents` are the units of
the chain. It says that what a path denotes is what is opened, and that its contents are
what is listed or read. `TreeAssumption` is what this asks of the volume: a table too short
for clusters that are end marks, as a floppy's is; nothing in the system area that looks
like an entry but the root directory's, since the root's search strays there (of stage 2
and of the tables, this is luck); and no two entries with the name of one component in a directory.

Left out: errors of the host's `fread` other than the end of the file and parts of
a sector at it; paths longer than the buffer, which nothing checks; the extra
sector of the allocated table, which is never filled.

### Stage2

Adds `stage`, `fd`, `kernel` (offset to unit), `offset`. `memcpy` takes its
count modulo `COUNT_RANGE`, as its `uint16_t num` does. `ReadNull` is
`FAT_Read(NULL)` for a kernel that was not opened: it may return nothing, which ends
the loop, or do anything ("wild"). Then `CloseNull` is `FAT_Close(NULL)`: what the word
at address 0 makes of it may be the root's handle, any file's, or memory elsewhere;
`start()` jumps all the same. `clean` and `sound` are ghosts: no sector read of the
kernel has failed since it was opened, and none of the lookup. `DISK_Initialize` fails, if
at all, on a disk whose first sector is among `BadSectors`.

`KernelIsFound` says when the NULL comes. It is not only for a missing file that
`FAT_Open` gives up: a root buffer left elsewhere (see `NotFoundMeansAbsent`), a handle
that memory nobody cleared marks as open, or a failed read would do; the first two
do not meet the first lookup after `FAT_Initialize`.

### Disk

`cpu` and `iflag` are the processor's mode and interrupt flag; the five steps of
the two macros are actions of their own. No interrupt arrives in this model: the BIOS
would serve it. A BIOS call fails at will, and a read that succeeds transfers the sector its
*registers* address, which the drive must have (`Packed`, `Addressable`, `AddressedLba`).
`StaleIds` is what the uninitialised `disk->id` may hold when `DISK_Initialize` passes it
on: any number. If it is not a drive's the BIOS says so and the loader stops; if it is
another drive's, that drive's geometry is used for every read of the boot drive.

`SectorDevice` has that in it (`fits`), since it is what the code does: with a geometry that
does not fit, a read may succeed over other sectors, though never with a sector half
read, and LBA 0, the boot sector, is read right all the same. The models of the FAT
driver take a fitting geometry for granted; `LikeDrivesFit` (DiskProofs) says when
it is one.

### Pic and Interrupts

The chips are records (what the data port expects next, offset, mask, requests,
in service); the driver's functions are lists of port writes, which the running
context makes one at a time (`PortWrite`), so that a request may arrive between
the write to one chip and the write to the other. An interrupt acknowledge has
its two cycles; a line may fall before either, which gives the spurious lines
7 and 15.

`contexts` has a record per interrupt taken and not returned from; `stack` holds
the words the processor, the stub and `isr_common` push, and dispatch and
return take what they need from the *words* (`Regs`), so a stub that pushed one
word too few would send `iret` astray. `Driver` is what kernel code after boot
may call: registering handlers, masking, unmasking.

Left out: ICW3 wiring is fixed (slave at input 2); automatic end of interrupt,
which `irq.c` never asks for; the unused register reads; faults while the
first fault is being delivered, except that a missing gate raises Segment Not
Present and a missing gate for that one, or no IDT, resets the machine. All
256 gates are set in one step, while no interrupt is enabled. `es`, `fs`, `gs`
are not modelled (isr_common restores all from `ds`; all hold 0x10).

### Printf and Console

`printf` has only local state, so `Printf` computes the characters a call passes
to `putc`: `FormatCharacter` is one round of its loop, and the recursive function
`Formatting` the state of the loop after each character of the format.
Arguments are the words on the stack. `Rendered` is the reference: a message is
a list of items (a literal, or a conversion with a length), each rendered by
itself with the words that belong to it, and a number by its shortest numeral.
`IsCall` says what the compiler's check of formats wants, and what the calls in the kernel
observe: every conversion finds its words. Without it a format reads what is
further up on the stack (`STACK_WORD`), and nothing is claimed. `MessageAssumption`
asks it of the messages.

`Console` takes `putc` apart down to the single load, store and port write,
because the build does not optimise (`config.mk`) and an interrupt may arrive
between any two. The labels of a context's `at` are named after what comes
next; `x`, `y` are its registers, `tab` the counter of the tab loop, whose
blanks are calls of `putc` inside `putc`. `contexts` holds `start()` and at most
one handler, which runs with interrupts disabled and to its end. `start()`
prints the message of `irq.c` before `sti`, clears the screen after it, and
then prints.

At this commit every line is masked, so that nothing interrupts `start()` yet;
`Tick` is what happens as soon as a driver unmasks one (`timer()` in `main.c`
prints, and so does `i686_IRQ_Handler` for a line without a handler).

Two ghosts serve `ScreenShowsText`: `page`, what the text put since `clrscr`, or
since the last putc in which a handler printed, makes of a sheet without bottom
whose cells are numbered through, and `disturbed`, whether a handler printed in
the putc in progress. `Type` says what each character does to the sheet; it
shares nothing with `putc`, neither the loop of the tab nor the scrolling.

Two things are not decided here. How far a tab should go no document says: `Type` has the
numbers of blanks the loop prints from each column (2, 2, 1, 3), so `ScreenShowsText` is
about where they go and what the wraps and scrolls among them do, and would not report
that they are too few for the next stop. And `Printf` is the kernel's copy of `printf`;
the loader's, which does not reset `number`, is there as the deviation `ResetAllButNumber`.

Abstracted: colours; the copying of a scroll and the clearing of a screen are
one step each (nothing is claimed about a screen in the middle of which a
handler printed); `putchr`'s arguments are loaded in the order compilers push
them, last one first.

## 3. Runs

| Run | Question | Bounds | Result |
|---|---|---|---|
| `boot` | Is `start()` entered with stage 2 whole and A20 open, with failing reads, keys, reboots? | a floppy's geometry, 17 slots, images of 5, 16 and 18 sectors and one in two pieces | holds, 19,418 states |
| `host` | Does the host's reader list or read what the path names? | sectors of 3 entries, 2 root sectors, 7 entries, 12 paths, images of 2, 9 and 15 sectors | holds, 4,259 |
| `fat` | Is the driver correct for any client on a disk that may fail? | 2 handles, sectors of 2 entries, clusters of 2 sectors, a fragmented file, a directory, an empty file | holds, 83,700 states |
| `fat_stream` | Does it implement `FileStream`, with two bad sectors? | the same volume, one of the sectors of f and that of g bad, 5 paths, reads of 1, 3 and 8 | holds, 75,793 |
| `fat_root_stale` | "not found" only for what is absent? | one missing and one existing name | **violated** |
| `stage2` | What does `start()` load, with failing reads, and when does it find no kernel? | a kernel of two clusters, last sector half full, in the second root sector | holds, 603 |
| `stage2_disk_error` | Is only a whole kernel started? | the same | **violated** |
| `stage2_large_kernel` | Does a kernel larger than a chunk load? | a chunk of 4, counts modulo 4 | **violated** |
| `disk` | Modes, retries, addresses; does it implement `SectorDevice`? | three drives, one of another geometry, stale ids of each and of none; LBAs at every boundary of track, cylinder and register | holds, 19,417 |
| `interrupts` | Is the kernel's interrupt handling correct? | lines 0 and 10, 2 nested interrupts, 1 NMI, page faults | holds, 191,634 |
| `interrupts_cascade` | Is unmasking a line enough? | the same | **violated** |
| `console` | Is the console right, with handlers that print at any moment? | a page of 2 rows of 4, words of 2 bits, 4 calls of `start()`, 2 interrupts | holds, 572,943 |

Why the bounds are enough to be interesting: two handles are enough to run out
of them in the middle of a path and to have one caller's reads interleave with
another's lookup; sectors of two entries make every third read cross a sector
and every fifth a cluster; the root directory has two sectors, so that a
lookup can leave its cursor in either. The disk's floppy has 1024 cylinders, so
requests reach each bit of the split cylinder field. Two nested contexts allow
an interrupt in `start()` with a fault or an NMI in its handler; three were
checked once (806,138 states) with the same result. The large-kernel run
shrinks chunk and count range together: what matters is that they are equal.

Stage 1 has room for 59 sectors in the machine; 17 slots are enough for one image
whose count byte is missing (5), one of the least size that has it (16), one too
large (18), and a table with two entries, the second across a cylinder. The
host's LBAs wrap at 18 and positions at 24 entries, so that a straying walk of the root directory comes
around; 15 sectors make the full image and the shorter ones end inside the
system area and inside a file. Names are in buffers of 15 bytes instead of 256, over
zeros or over another byte; lists end after two entries instead of ten (a sector, 16 there, has more in both).

The page of the console has its right edge at a tab stop, as the real one's 80
columns have, and most messages wrap and scroll; two interrupts
allow two handlers inside one `putc`. With three rows, two messages after
clrscr and one interrupt the result is the same. The messages go
through every length and radix, and print -2^63 in its small form.

Each property of a passing run has a mutant in `PROJECT.json`: a definition of
the model changed the way a plausible bug would change the code (they stand
next to the definition they replace, marked "Deviation"), under which the
property is violated.

### What the violated ones show

* `NotFoundMeansAbsent`: `FAT_Close` of the root directory (fat.c:273-277)
  rewinds its cursor without reading its first sector again. After a lookup
  that went on to a second root sector, an existing file of the first is "not
  found". The kernel is opened by the first lookup, so booting does not show it.
* `StartsOnlyWholeKernel`: `FAT_Read` copies before it looks ahead, so a call whose
  read of the next sector fails (fat.c:254) still returns a count above 0. To `start()`
  (main.c:38) that is a good read; the next call copies the stale or half-read buffer
  and goes on from there. The kernel is entered at full length, with that in the
  place of the sector that failed. A message was printed, but nothing halted.
* `ChunksMakeTheKernel`: 64 KiB counted in 16 bits is 0 (memory.c:3).
* `UnmaskingIsEnough`: lines 8 to 15 also need line 2 unmasked (i8259.c:128).

Disagreements between documentation and code that need no run to see (the
README's claim that no gates are enabled, the `esp`, `ss` of a register dump,
stage 1's walk of the file system, the drive id that disk.c:10 uses before :15
assigns it, ...) are listed in `PROJECT.json`. Where a passing property has an exception
for one, the property names it: `shrunk` in `WholeStage2`, a scancode in the output
buffer in `EntersReady`, `fits` in `SectorDevice`, `misspelt` in `DeliversFile`, an NMI handler in `PanicIsFinal`.

### Fairness

* `Boot!FairSpec`: `WF` of stage 1, of `entry.asm` and of the controller taking what
  was written to it. Neither keys nor reboots are fair. `BootDecides` is for one
  attempt to boot; a user may reboot for ever.
* `HostFat!FairSpec`: `WF(Work)`, one process the host keeps running.
* `FatDriver!FairSpec`: `WF(Driver)`. A call, once made, is executed; the
  client need not call. The driver is sequential code with interrupts handled
  by the BIOS, so nothing keeps it from its next step.
* `FairStage2Spec`: `WF(Loading)`, the processor goes on executing `start()`.
* `Disk!FairSpec`: `WF(Working)`: the driver is executed, and the BIOS answers
  (it has timeouts of its own).
* `Interrupts!FairSpec`: `WF` of the boot, of port writes, of handler steps and
  of recognising and acknowledging requests. Devices, faults and drivers are
  not fair. Requests of a line are only promised service while the line stays
  unmasked, and a higher line may in principle starve a lower one; the liveness
  property is therefore stated for a request *while the processor idles in
  `start()` with interrupts on*: that state is left, by service or otherwise.
* `Console!FairSpec`: `WF(Console)`, the processor goes on executing what was
  called. Interrupts are bounded by `MAX_TICKS`: in the machine too, the time
  between two is longer than any handler, or nothing would be left for
  `start()`.

## 4. Proofs

All theorems hold for every value of the constants that satisfies the named
assumptions of the modules: geometry, volume, paths, read sizes, drives and
failure patterns are arbitrary.

* **BootProofs.** `BootInv` is inductive as it stands; three parts make it so.
  `Progress`: `es` is the partial sum of the counts up to the entry looked at (the
  image's `first`), and the slots below it hold stage 2; it survives any number
  of failed tries because a request keeps the entry's LBA and slot. `InStep`: for
  each place in `EnableA20`, which command may still be in the controller's
  input buffer and what of the handshake is done. `PortBytes`: a byte that came
  from the port has bit 0 set, so only a scancode can reset the machine. `WholeStage2` and
  `EntersReady` follow. The CHS round trip with the 16-bit division of
  `lba_to_chs` is a lemma. `ScriptTableDescribes` says for which
  sizes the scripts' table is right.
* **FatVolumeProofs.** `LinkOfPacked`: packing and reading back is the identity. It
  makes the packed table a chain (`ChainStep`) for both drivers' proofs.
* **FatProofs.** `DriverInv` (types and `CallState`), `OpenedIffOwned` and
  `CursorFollowsChain` are inductive together. `CallState` is what makes them
  so: it says, for each `pc`, which handle the call in progress owns, that the
  handle being searched is a directory or was opened by the lookup, and that
  the handle in `cur` is open. The step that advances a cursor rests on
  lemmas about division: adding up to the end of a sector moves
  the index by at most one, and sector and cluster indices roll over together.
  `BufferUnderCursor` and `NoForeignSector` are then inductive relative to
  these (a second induction, with the first as a lemma), and `HeldUndisturbed`
  follows from them for each step. `EntryInv` (every handle in use, and the one a
  lookup is about to take, is on the file of an entry of the volume, and a lookup starts
  at its beginning) is a third, and `LostInv` a fourth: only on a file with a bad
  sector can the last read of a handle have failed, and never on a handle just opened.
  From these, two more follow. `ImplementsStreams`: the driver implements
  `FileStream` under the mapping of `FatStream`; each step that copies is a `Deliver` of
  the next units of the handle's chain, `FAT_Read`'s bound grants what was asked for or
  what is left, and each other step is an open, a close or a stutter. A stream is
  `broken` from a failed read to the end of the sector that was not read, and only the
  streams of files with a bad sector (`FragileStreams`) ever are: all others are
  delivered exactly, on a disk that fails elsewhere. The theorem needs a client that
  does not ask for the root directory itself (`<<>> \notin Paths`): the root is one
  cursor for all who open it, and no stream.
  `SubdirectorySearchComplete`: `SearchInv`, no unit before the cursor of a search
  of a directory without a bad sector matches the name, survives each iteration, and
  at the end of the chain nothing is left. (Of the root directory this is false, see `NotFoundMeansAbsent`.) The volume's
  soundness (`ChainAssumption`, `EntryAssumption`) is assumed; the code promises
  nothing on a damaged one.
* **Stage2Proofs.** `Stage2Inv` ties `stage` to `pc` and `held`; with it every
  step of the loader is a step of `FatDriver`'s `Next` or nothing to it (lemma
  `LoaderIsClient`). For `FAT_Close(NULL)` that is a fact of its own
  (`NullCloseIsStutter`): whatever handle NULL is taken for, none is open then, and the
  failed lookup has set the root's cursor back already. So
  the driver's theorems hold of the loader (`LoaderReadsOwnFiles`). `KernelFound`
  (`KernelIsFound`) follows the lookup: as long as no read has failed the
  root's cursor walks every unit from the first on, and none before it
  has the name looked for; a handle is free; so the only way to NULL is the end of the
  directory. What is loaded
  needs one assumption more, `KernelAssumption`: `/kernel.bin` is a path of one component,
  which at most one entry of the root directory matches, a file. `LookupInv` follows
  `FAT_Open`: the search starts at the first entry, its buffer is always a sector of the root
  directory, also after a failed read, so what it finds is the kernel. `LoadInv`: the
  handle is on the kernel's chain, and all that was copied came from there
  (`OnlyKernelIsLoaded`, whatever reads fail). `PlaceInv`: what is in memory and in
  `out` are the units up to the cursor, each in its place, as long as no read
  of the kernel failed. It has the hypothesis `ChunksFit`, that a chunk's length or the kernel's
  is less than the range of `memcpy`'s count; in the code, a kernel of less than
  64 KiB, which `stage2_large_kernel` shows to be needed. `DestinationKeepsPace` and
  `WholeKernelLoaded` follow. A kernel without a bad sector keeps `clean` true
  (`LostInv` of the driver and `LoadInv`), so it is entered only when it is loaded
  completely, wherever else the disk fails (`GoodKernelLoaded`): the violation
  `stage2_disk_error` shows needs a bad sector in the kernel itself.
* **DiskProofs.** The round trip LBA to CHS to registers to LBA for every
  geometry a BIOS can describe (`AddressesRequestedSector`); the inductive
  `DiskInv`; and that `Disk` implements `SectorDevice`, whatever the uninitialised id
  was (`ImplementsSectorDevice`). `ReadInv` carries that the geometry in use is one the BIOS
  reported, of whatever drive, so that the driver divides by numbers above 0, and
  what a read answered with success has put into the buffer: with the boot drive's geometry by the
  round trip, at LBA 0 because it is sector 1 of cylinder 0, head 0 under every
  geometry, and else a sector the drive has. `LikeDrivesFit`: the geometry fits
  if every number the id may hold is that of a drive like the boot drive, or of none.
* **HostProofs.** `ComponentSpelled` for every content of the buffer and every component that
  fits it. `HostInv`: that a file is read under its cursor (`FileUnderCursor`) needs
  to know, while a path is resolved, that the entry about to be opened is one of
  the volume's and that the handle just opened is the root or that entry
  (`CallState`), although the directory searched may be anywhere;
  `AdvancedOnChain` is the step of the cursor, with reads that fail. `FileDelivered`
  (`DeliversFile`, under `TreeAssumption`) is a second induction beside it, of three
  invariants. `Lookup`: what is left of the path is its end, and the handle is the root or
  that of the entry found. `Resolved`, for any entries the path denotes: the lookup is at
  them. Its searches stop nowhere else because a search of the root for the entry at `r`
  never has a sector behind that of `r` in its buffer before it gets to `r`, wherever it
  has strayed and whichever reads have failed (`RootSearch`), and one of a subdirectory
  never has a sector of another chain, also behind the end mark, where it reads the last
  sector again until it leaves the table (`DirectorySearch`). `Delivered`: the units in
  `out` are those up to the cursor; the end mark of a chain sets the size to what it
  already was, since the file fits its chain.

* **InterruptProofs.** For every set of lines, drivers, handlers and faults and any
  depth of nesting: `KernelInv` (types, vectors that name their lines, `g_PicMask`
  and the chips), `StackMatchesContexts`, `EnabledWhenReady` and `PanicIsFinal`,
  from `InterruptsAssumption`. The parts of the inductive `IInv` beyond types:
  `Frames`, the words on the stack are those of the nested contexts, in order
  (an entry appends one frame, whose length depends on whether the exception has
  an error code, and a step of the stub takes or pops exactly the words it
  pushed); `Handlers`, what an interrupt writes to the chips is an end of
  interrupt; `BootState`, what is loaded and registered at each `pc`;
  `ChipsTold`, for each of the 12 writes of `i8259_Configure`, what either chip
  expects next and what it has been told, so that no byte meant as a mask is taken for
  a vector offset, and afterwards that the masks the chips hold are `g_PicMask` but for
  the writes of `i8259_SetMask` still to come; `Final`, that without a handler
  for NMIs a context stopped at `hlt` is on top or under an NMI, and that nothing was
  interrupted with interrupts enabled before the kernel was ready.

  `ServedToTheEnd` needs to know which chip's service the contexts owe (`Serving`). Unless
  a handler for NMIs lets a stopped kernel go on with the interrupt flag it
  found, only `start()` runs with interrupts enabled, so that an interrupted line is
  always the first context (`LinesFirst`); what is left to write for it is one of three
  lists (`EndsLeft`); and the in-service bits of either chip are exactly those that
  these writes and an acknowledge in progress will end (`InService`), also for a spurious
  request, which sets none on its own chip but the cascade's on the master.
  `MaskedNeverServed` needs only one part more than itself: between the two acknowledge
  cycles the cascade was not masked (`Unmasked`).
* **ConsoleProofs.** For every page (`ConsoleAssumption`: a width that is a multiple of
  four, two rows or more) and handlers that print between any two accesses. `Shape` is the
  types and how far a call is in its text; `CursorInv` relates the cursor to the labels.
  With `start()` alone (`StartInv`) the cursor is on the page, except at the labels between a
  move and the check behind it (`AtRest`). What `start()` has loaded into its registers may be
  out of date as soon as a handler has moved the cursor, so of these the invariant says
  only that they are below the edge (`StartRegisters`), never that they are the cursor;
  those of a handler, which nothing interrupts, are the cursor (`HandlerRegisters`). While
  a handler runs the cursor is within what its own label adds to the label `start()` was
  stopped at (`HandlerCursor`), and when it has come to its end the cursor is one that
  `start()` may find at that label, so the return leads back to `StartInv`.
  `CursorStaysOnScreen` and `PutchrStaysNearScreen` follow.

  `ScreenAlwaysShowsText` needs what of the page is on the screen in the middle of a
  character (`Display`): the screen is a window on the page as it was before the character or as
  it will be behind it, by the label (`Seen`), of which the first `r` rows are above the edge; the
  registers are the cursor while nobody else moves it (`Loaded`); a tab has taken no more blanks
  than the reference gives it (`Typing`); and the VGA's registers have those halves of the
  cursor that the labels say were written (`Marked`). `putchr` and `scrollback` are then steps of
  a window (`WindowPutchr`, `WindowScroll`), and between two characters it does not matter whose
  they are, so that a handler takes over the display and hands it back (`DisplayRest`). After
  a character in which a handler printed, the screen starts a page of its own.

  `PrintfAlwaysMeansFormat` is induction over data: formats, items and numbers of any
  size. The library's induction theorems take an operator and are out of the prover's reach, but
  its `WFMin`, that each non-empty set has a least element, takes a set: `Induction` and
  `CompleteInduction` are derived from that for the set of numbers with a property. The recursive
  functions of `Printf` are unfolded once each. `UnsignedNumeral` is by induction over the
  number: the digits without the last are the numeral of the quotient. `PrintfRenders` is by
  induction over the items: reading an item leaves the loop in its first state, with the
  rendering of the item behind what was sent and the item's words taken from the arguments
  (`ItemRead`). In the model of `Console` a call keeps the text it began with (`MessageInv`).

Every invariant and action property of a passing run is stated by a theorem. Only model-checked:
the liveness properties (`BootDecides`, `ReadsToTheEnd`, `CallsReturn`, `LoadingEnds`,
`RequestsServed`, `PrintReturns`), since the prover has no support for fairness and ENABLED. The
four properties the code violates have counterexamples instead.

## 5. Not modelled, and plan

Not modelled: the video thunks and `vbe.c`, which nothing calls; the kernel's GDT, a
static table loaded once before any interrupt; the partition and file system the scripts
make with other programs; the build system and CI. The string and memory helpers
are modelled where their width or their end matters (`memcpy`, `strchr`, `toupper`).

Still worth doing: a path that runs out of handles or fails in the middle (fat.c:358, 363) in
the client of `stage2`, should `start()` ever open more than `/kernel.bin`; the video thunks,
should anything call them.
