-------------------------------- MODULE Stage2 --------------------------------
(***************************************************************************)
(* start() of the second-stage loader (stage2/main.c) as the client of the *)
(* FAT driver: initialise, open the kernel file, read it in chunks of      *)
(* MEMORY_LOAD_SIZE through the load buffer, copy each chunk to the kernel *)
(* address, close, jump.  None of the results but those of the two         *)
(* Initialize functions is checked.                                        *)
(***************************************************************************)
EXTENDS FatDriver

CONSTANTS
  KernelPath,        \* "/kernel.bin"
  MEMORY_LOAD_SIZE,  \* size of a chunk, in the units of FatDriver
  COUNT_RANGE        \* memcpy counts modulo this: its num is a uint16_t

ASSUME Stage2Assumption ==
  /\ Paths = {KernelPath}
  /\ ReadSizes = {MEMORY_LOAD_SIZE}
  /\ MEMORY_LOAD_SIZE \in Nat \ {0} /\ COUNT_RANGE \in Nat \ {0}

\* What FAT_FindFile takes for the kernel.
KernelEntries ==
  {at \in RootSlots \cap DOMAIN Entry : Entry[at].Name \in Spellings[KernelPath[1]]}

\* "/kernel.bin" names an entry of the root directory; no directory has two
\* entries of one name, and the image script copies a file to that name.
ASSUME KernelAssumption ==
  /\ Len(KernelPath) = 1
  /\ \A a, b \in KernelEntries : a = b
  /\ \A at \in KernelEntries : ~Entry[at].IsDirectory

VARIABLES
  stage,   \* where start() is
  fd,      \* the FAT_File pointer
  kernel,  \* memory at Kernel: offset -> unit written there
  offset,  \* kernelBuffer - Kernel
  clean,   \* ghost: no sector read of the open kernel file has failed
  sound    \* ghost: no sector read of the lookup has failed

startVars == <<stage, fd, kernel, offset, clean, sound>>
allVars == <<vars, startVars>>

Stage2Init ==
  /\ Init
  /\ stage = "init" /\ fd = NoFile
  /\ kernel = [i \in {} |-> <<>>] /\ offset = 0
  /\ clean = TRUE /\ sound = TRUE

\* DISK_Initialize fails: a drive that does not give its parameters counts as
\* one whose first sector may not be readable.
DiskInitializeFails ==
  /\ stage = "init" /\ 0 \in BadSectors
  /\ pc = "boot" /\ pc' = "halt" /\ stage' = "end"
  /\ UNCHANGED <<files, openVars, readVars, held, lost, fd, kernel, offset, clean, sound>>

Initialize ==
  /\ stage = "init"
  /\ \/ FAT_Initialize /\ stage' = "open"
     \/ FAT_InitializeFails /\ stage' = "end"
  /\ UNCHANGED <<fd, kernel, offset, clean, sound>>

OpenKernel ==
  /\ stage = "open" /\ FAT_Open(KernelPath)
  /\ stage' = "opening"
  /\ UNCHANGED <<fd, kernel, offset, clean, sound>>

\* The read of this step of FAT_Open, if it makes one, fails: that of the next
\* sector of the root directory, or that of the first one of the file.
LookupReadFails ==
  \/ pc = "find" /\ ROOT \in lost'
  \/ pc = "enter" /\ FreeHandles # {} /\ cur' = NoFile

\* FAT_Open at work.
Lookup ==
  /\ stage = "opening"
  /\ OpenComponent \/ OpenFault \/ SearchStep \/ FAT_OpenEntry
  /\ sound' = (sound /\ ~LookupReadFails)
  /\ UNCHANGED <<stage, fd, kernel, offset, clean>>

\* Deviation: a file that is not found leaves the directory as the result.
KernelOpenedDirectory ==
  /\ stage = "opening"
  /\ OpenReturn \/ NotFound
  /\ fd' = cur
  /\ stage' = "load"
  /\ UNCHANGED <<kernel, offset, clean, sound>>

\* FAT_Open is back, with a handle or with NULL: start() does not look.
KernelOpened ==
  /\ stage = "opening"
  /\ \/ OpenReturn /\ fd' = cur
     \/ NotFound /\ fd' = NoFile
  /\ stage' = "load"
  /\ UNCHANGED <<kernel, offset, clean, sound>>

ReadChunk ==
  /\ stage = "load" /\ fd # NoFile
  /\ FAT_Read(fd, MEMORY_LOAD_SIZE)
  /\ stage' = "reading"
  /\ UNCHANGED <<fd, kernel, offset, clean, sound>>

\* FAT_Read(NULL) takes the word at address 0, the first interrupt vector, for
\* the handle.  If the file data it is led to has nothing left to read the
\* answer is 0 and the loop ends; if it has, any memory is copied and written.
ReadNull ==
  /\ stage = "load" /\ fd = NoFile
  /\ stage' \in {"close", "wild"}
  /\ UNCHANGED <<vars, fd, kernel, offset, clean, sound>>

Reading ==
  /\ stage = "reading" /\ ReadLoop
  /\ clean' = (clean /\ cur \notin lost')
  /\ UNCHANGED <<stage, fd, kernel, offset, sound>>

\* Deviation: the last unit forgotten.
memcpyShort(mem, at, src, num) ==
  LET n == (num % COUNT_RANGE) - 1 IN
  [i \in DOMAIN mem \cup at .. at + n - 1 |->
     IF i \in at .. at + n - 1 THEN src[i - at + 1] ELSE mem[i]]

\* memcpy: a count that is a multiple of COUNT_RANGE copies nothing.
memcpy(mem, at, src, num) ==
  LET n == num % COUNT_RANGE IN
  [i \in DOMAIN mem \cup at .. at + n - 1 |->
     IF i \in at .. at + n - 1 THEN src[i - at + 1] ELSE mem[i]]

\* Deviation: the count not taken from the read but from the chunk size.
ChunkReadAsFull ==
  /\ stage = "reading" /\ ReadReturn
  /\ \/ /\ out = <<>>
        /\ stage' = "close"
        /\ UNCHANGED <<kernel, offset>>
     \/ /\ out # <<>>
        /\ kernel' = memcpy(kernel, offset, out, Len(out))
        /\ offset' = offset + MEMORY_LOAD_SIZE
        /\ stage' = "load"
  /\ UNCHANGED <<fd, clean, sound>>

\* Deviation: the end of the file not noticed.
ChunkReadForever ==
  /\ stage = "reading" /\ ReadReturn
  /\ kernel' = memcpy(kernel, offset, out, Len(out))
  /\ offset' = offset + Len(out)
  /\ stage' = "load"
  /\ UNCHANGED <<fd, clean, sound>>

ChunkRead ==
  /\ stage = "reading" /\ ReadReturn
  /\ \/ /\ out = <<>>
        /\ stage' = "close"
        /\ UNCHANGED <<kernel, offset>>
     \/ /\ out # <<>>
        /\ kernel' = memcpy(kernel, offset, out, Len(out))
        /\ offset' = offset + Len(out)
        /\ stage' = "load"
  /\ UNCHANGED <<fd, clean, sound>>

\* FAT_Close, then the jump to Kernel.
CloseAndJump ==
  /\ stage = "close" /\ fd # NoFile /\ FAT_Close(fd)
  /\ stage' = "kernel"
  /\ UNCHANGED <<fd, kernel, offset, clean, sound>>

\* FAT_Close(NULL) and the jump to memory never loaded.  The word at address 0
\* is the root's handle, whose cursor is set back (the Position cleared is not
\* the root's), or that of a file, or it leads to a byte elsewhere.
CloseNull ==
  /\ stage = "close" /\ fd = NoFile
  /\ \/ /\ files' = [files EXCEPT ![ROOT].CurrentCluster = files[ROOT].FirstCluster]
        /\ stage' = "kernel"
     \/ /\ \E h \in Handles : files' = [files EXCEPT ![h] = Closed(h, @)]
        /\ stage' = "kernel"
     \/ files' = files /\ stage' \in {"kernel", "wild"}
  /\ UNCHANGED <<pc, openVars, readVars, held, lost, fd, kernel, offset, clean, sound>>

Finished == stage \in {"kernel", "end", "wild"} \/ pc = "fault"

\* for (;;) at the end, or the kernel is running.
Done == Finished /\ UNCHANGED allVars

Loading ==
  \/ DiskInitializeFails \/ Initialize
  \/ OpenKernel \/ Lookup \/ KernelOpened
  \/ ReadChunk \/ ReadNull \/ Reading \/ ChunkRead
  \/ CloseAndJump \/ CloseNull

Stage2Next == Loading \/ Done

Stage2Spec == Stage2Init /\ [][Stage2Next]_allVars

\* The processor goes on executing start().
FairStage2Spec == Stage2Spec /\ WF_allVars(Loading)

-----------------------------------------------------------------------------

Stages ==
  {"init", "open", "opening", "load", "reading", "close", "kernel", "wild", "end"}

Stage2TypeOK ==
  /\ stage \in Stages
  /\ fd \in AllHandles \cup {NoFile}
  /\ offset \in Nat /\ clean \in BOOLEAN /\ sound \in BOOLEAN
  /\ DOMAIN kernel \subseteq Nat

\* start() and the driver agree on who is at work, and the handle start()
\* passes to FAT_Read and FAT_Close is one the driver gave it and that it has
\* not closed: no path through FAT_Open's early returns makes it close a handle
\* twice, or read from a closed one.
Stage2Inv ==
  /\ Stage2TypeOK
  /\ stage = "init" => pc = "boot"
  /\ stage = "end" => pc = "halt"
  /\ stage \in {"open", "load", "close", "kernel"} => pc = "idle"
  /\ stage = "open" => held = {}
  /\ stage = "opening" => pc \in {"open", "find", "enter", "fault"} /\ held = {}
  /\ stage \in {"load", "close"} => held = {fd} \ {NoFile}
  /\ stage = "reading" => pc = "read" /\ cur = fd /\ held = {fd} /\ fd # NoFile

\* FAT_Open answers NULL, which start() does not look at before it reads and
\* closes the file, only when the root directory has no entry with the name it
\* looked for or when a sector read of the lookup failed: the first lookup
\* after FAT_Initialize meets neither a stale root buffer nor a used-up handle.
KernelIsFound ==
  stage \in {"load", "close", "kernel", "wild"} /\ fd = NoFile /\ sound =>
    \E name \in Spellings[KernelPath[1]] : ~NameIsIn(ROOT, name)

\* The file at the kernel's path, as an open handle.
KernelEntry == Entry[CHOOSE at \in KernelEntries : TRUE]

KernelFile == EntryFile(KernelEntry, TRUE, 0)

\* The units of a file, by offset.
Image(f) == [i \in 0 .. f.Size - 1 |-> UnitOfChain(f.FirstCluster, i)]

\* What is loaded is exactly what the kernel file has, no unit missing, doubled
\* or displaced, however the reads were split, unless a sector read of that
\* very file failed; what failed during the lookup does not matter.
WholeKernelUnlessReadFails ==
  stage = "kernel" /\ clean /\ fd # NoFile => kernel = Image(KernelFile)

\* The destination pointer keeps pace with the file cursor, also over reads
\* that a disk error ended early with what they had copied: no chunk overwrites
\* or leaves a gap to another.
OffsetIsPosition ==
  stage \in {"load", "close"} /\ fd # NoFile =>
    /\ offset = files[fd].Position
    /\ DOMAIN kernel = 0 .. offset - 1

\* Only data of the kernel file (or a sector a failed transfer left half
\* written) reaches the kernel's memory, whatever was looked up before.
OnlyKernelData ==
  \A i \in DOMAIN kernel :
    kernel[i][1] \in OwnSectors(KernelFile.FirstCluster) \cup {TORN}

\* Loading ends: start() jumps, stops at its for (;;), or runs off through the
\* NULL pointer; it never reads a file of the volume forever.
LoadingEnds == <>Finished

\* README: "If something goes wrong during boot (disk error, missing STAGE2.BIN
\* or KERNEL.BIN) the offending stage prints a message before halting": a kernel
\* whose file was opened is entered only when all of it is what the file holds.
\* (FAT_Read fails in its look-ahead, after it has copied: its answer is not 0,
\* start() reads on, and the next chunk begins with the bytes the buffer holds.)
StartsOnlyWholeKernel ==
  stage = "kernel" /\ fd # NoFile => kernel = Image(KernelFile)

\* README: stage 2 "opens /kernel.bin, reads it into memory in chunks": on a
\* disk without errors the image is complete however many chunks it takes.
ChunksMakeTheKernel == stage = "kernel" => kernel = Image(KernelFile)
=============================================================================
