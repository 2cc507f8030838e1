----------------------------- MODULE Stage2Proofs -----------------------------
(***************************************************************************)
(* start() is one of the clients FatDriver allows, also when FAT_Open gave *)
(* it NULL and it closes that: every handle is back by then and the root's *)
(* cursor set back.  So the theorems of FatProofs hold of the loader; with *)
(* them, what it opens and what it has copied when it enters the kernel.   *)
(***************************************************************************)
EXTENDS Stage2, FatProofs

LEMMA Stage2InitInv == Stage2Init => Stage2Inv
BY HandleFacts DEF Stage2Init, Init, Stage2Inv, Stage2TypeOK, Stages

\* Only a search moves the root's cursor, and it sets it back when it ends.
RootInv ==
  /\ fd # ROOT
  /\ pc = "open" /\ cur = ROOT => path # <<>>
  /\ Running /\ ~(pc = "find" /\ cur = ROOT) => files[ROOT].Position = 0

LEMMA RootInit == Stage2Init => RootInv
BY HandleFacts DEF Stage2Init, Init, RootInv, Running

\* FAT_Close(NULL), whatever handle it takes NULL for, finds nothing to undo: no
\* handle is open and the root's cursor has been set back.
LEMMA NullCloseIsStutter ==
  ASSUME DriverInv, RootInv, Stage2Inv, CloseNull PROVE UNCHANGED vars
<1>1. pc = "idle" /\ held = {} /\ Running /\ files[ROOT].Position = 0
  BY DEF CloseNull, Stage2Inv, RootInv, Running
<1>2. files \in [AllHandles -> FileData] /\ ROOT \in AllHandles
      /\ files[ROOT] \in FileData /\ Handles \subseteq AllHandles /\ ROOT \notin Handles
  BY HandleFacts DEF DriverInv, TypeOK
<1>3. CASE files' = [files EXCEPT ![ROOT].CurrentCluster = files[ROOT].FirstCluster]
  <2>1. SectorIndex(files[ROOT]) = 0
    BY <1>1, Constants DEF SectorIndex
  <2>2. files[ROOT].CurrentCluster = files[ROOT].FirstCluster
    BY <1>1, <2>1, Constants DEF DriverInv, CursorFollowsChain
  <2>3. [files[ROOT] EXCEPT !.CurrentCluster = files[ROOT].FirstCluster] = files[ROOT]
    BY <1>2, <2>2 DEF FileData
  <2>4. files' = [files EXCEPT ![ROOT] = files[ROOT]]
    BY <1>3, <2>3
  <2> QED BY <1>2, <2>4 DEF CloseNull, vars
<1>4. CASE \E h \in Handles : files' = [files EXCEPT ![h] = Closed(h, @)]
  <2>1. PICK h \in Handles : files' = [files EXCEPT ![h] = Closed(h, @)]
    BY <1>4
  <2>2. {i \in Handles : files[i].Opened} = {}
    BY <1>1 DEF DriverInv, OpenedIffOwned
  <2>3. files[h] \in FileData /\ h # ROOT
    BY <1>2
  <2>4. files[h].Opened = FALSE
    BY <2>2, <2>3 DEF FileData
  <2>5. Closed(h, files[h]) = files[h]
    BY <2>3, <2>4 DEF Closed, FileData
  <2> QED BY <1>2, <2>1, <2>5 DEF CloseNull, vars
<1> QED BY <1>3, <1>4 DEF CloseNull, vars

\* What start() asks of the driver, a client of FatDriver may ask.
LEMMA LoadingIsAllowed ==
  DriverInv /\ RootInv /\ Stage2Inv /\ [Stage2Next]_allVars => [Next]_vars
<1> SUFFICES ASSUME DriverInv, RootInv, Stage2Inv, Stage2Next PROVE [Next]_vars
  BY DEF allVars
<1>1. CASE DiskInitializeFails
  <2>1. FAT_InitializeFails
    BY <1>1 DEF DiskInitializeFails, FAT_InitializeFails, TableSectors
  <2> QED BY <2>1 DEF Next, Boot
<1>2. CASE Initialize
  BY <1>2 DEF Initialize, Next, Boot
<1>3. CASE OpenKernel
  BY <1>3, Stage2Assumption DEF OpenKernel, Next, Client
<1>4. CASE Lookup
  BY <1>4 DEF Lookup, Next, Driver
<1>5. CASE KernelOpened
  BY <1>5 DEF KernelOpened, Next, Driver
<1>6. CASE ReadChunk
  <2>1. fd \in held
    BY <1>6 DEF ReadChunk, Stage2Inv
  <2> QED BY <1>6, <2>1, Stage2Assumption DEF ReadChunk, Next, Client
<1>7. CASE ReadNull \/ Done
  BY <1>7 DEF ReadNull, Done, allVars
<1>8. CASE Reading
  BY <1>8 DEF Reading, Next, Driver
<1>9. CASE ChunkRead
  BY <1>9 DEF ChunkRead, Next, Driver
<1>10. CASE CloseAndJump
  <2>1. fd \in held
    BY <1>10 DEF CloseAndJump, Stage2Inv
  <2> QED BY <1>10, <2>1 DEF CloseAndJump, Next, Client
<1>11. CASE CloseNull
  BY <1>11, NullCloseIsStutter
<1> QED BY <1>1, <1>2, <1>3, <1>4, <1>5, <1>6, <1>7, <1>8, <1>9, <1>10, <1>11
        DEF Stage2Next, Loading

\* The stages of start() keep step with the driver.
LEMMA LoadingKeepsInv == DriverInv /\ Stage2Inv /\ [Stage2Next]_allVars => Stage2Inv'
<1> SUFFICES ASSUME DriverInv, Stage2Inv, [Stage2Next]_allVars PROVE Stage2Inv'
  OBVIOUS
<1>0. cur \in AllHandles \cup {NoFile} /\ held \subseteq AllHandles
  BY DEF DriverInv, TypeOK
<1>1. CASE DiskInitializeFails
  BY <1>1 DEF DiskInitializeFails, Stage2Inv, Stage2TypeOK, Stages
<1>2. CASE Initialize
  <2>1. held = {}
    BY <1>2 DEF Initialize, Stage2Inv, DriverInv, CallState
  <2>2. CASE FAT_Initialize /\ stage' = "open"
    BY <1>2, <2>1, <2>2 DEF Initialize, FAT_Initialize, Stage2Inv, Stage2TypeOK, Stages
  <2>3. CASE FAT_InitializeFails /\ stage' = "end"
    BY <1>2, <2>1, <2>3 DEF Initialize, FAT_InitializeFails, Stage2Inv, Stage2TypeOK, Stages
  <2> QED BY <1>2, <2>2, <2>3 DEF Initialize
<1>3. CASE OpenKernel
  BY <1>3 DEF OpenKernel, FAT_Open, Stage2Inv, Stage2TypeOK, Stages
<1>4. CASE Lookup
  <2>1. stage' = "opening" /\ fd' = fd /\ kernel' = kernel /\ offset' = offset
    BY <1>4 DEF Lookup
  <2>2. clean' = clean /\ sound' \in BOOLEAN
    BY <1>4 DEF Lookup
  <2>3. held' = held /\ pc' \in {"open", "find", "enter", "fault"}
    <3>1. CASE OpenComponent \/ OpenFault
      BY <3>1 DEF OpenComponent, OpenFault
    <3>2. CASE SearchStep
      BY <3>2 DEF SearchStep
    <3>3. CASE FAT_OpenEntry
      BY <3>3 DEF FAT_OpenEntry
    <3> QED BY <1>4, <3>1, <3>2, <3>3 DEF Lookup
  <2>4. held = {} /\ Stage2TypeOK
    BY <1>4 DEF Lookup, Stage2Inv
  <2> QED BY <2>1, <2>2, <2>3, <2>4 DEF Stage2Inv, Stage2TypeOK, Stages
<1>5. CASE KernelOpened
  <2>1. stage' = "load" /\ kernel' = kernel /\ offset' = offset /\ clean' = clean
        /\ sound' = sound
    BY <1>5 DEF KernelOpened
  <2>2. held = {} /\ Stage2TypeOK
    BY <1>5 DEF KernelOpened, Stage2Inv
  <2>3. pc' = "idle" /\ fd' \in AllHandles \cup {NoFile} /\ held' = {fd'} \ {NoFile}
    <3>1. CASE OpenReturn /\ fd' = cur
      BY <1>0, <2>2, <3>1 DEF OpenReturn
    <3>2. CASE NotFound /\ fd' = NoFile
      BY <2>2, <3>2 DEF NotFound
    <3> QED BY <1>5, <3>1, <3>2 DEF KernelOpened
  <2> QED BY <2>1, <2>2, <2>3 DEF Stage2Inv, Stage2TypeOK, Stages
<1>6. CASE ReadChunk
  <2>1. held = {fd}
    BY <1>6 DEF ReadChunk, Stage2Inv
  <2> QED BY <1>6, <2>1 DEF ReadChunk, FAT_Read, Stage2Inv, Stage2TypeOK, Stages
<1>7. CASE ReadNull
  BY <1>7 DEF ReadNull, vars, Stage2Inv, Stage2TypeOK, Stages
<1>8. CASE Reading
  <2>1. clean' \in BOOLEAN /\ sound' = sound
    BY <1>8 DEF Reading
  <2> QED BY <1>8, <2>1 DEF Reading, ReadLoop, openVars, Stage2Inv, Stage2TypeOK, Stages
<1>9. CASE ChunkRead
  <2>1. /\ pc' = "idle" /\ held' = held /\ fd' = fd /\ clean' = clean
        /\ sound' = sound /\ stage = "reading"
    BY <1>9 DEF ChunkRead, ReadReturn
  <2>2. CASE out = <<>> /\ stage' = "close" /\ UNCHANGED <<kernel, offset>>
    BY <2>1, <2>2 DEF Stage2Inv, Stage2TypeOK, Stages
  <2>3. CASE /\ kernel' = memcpy(kernel, offset, out, Len(out))
             /\ offset' = offset + Len(out) /\ stage' = "load"
    <3>1. offset \in Nat /\ Len(out) \in Nat /\ COUNT_RANGE \in Nat \ {0}
      BY Stage2Assumption DEF Stage2Inv, Stage2TypeOK, DriverInv, TypeOK
    <3>2. offset' \in Nat
      BY <2>3, <3>1
    <3>3. DOMAIN kernel' \subseteq Nat
      <4> DEFINE n == Len(out) % COUNT_RANGE
      <4>1. n \in Nat
        BY <3>1
      <4>2. DOMAIN kernel' = DOMAIN kernel \cup offset .. offset + n - 1
        BY <2>3 DEF memcpy
      <4>3. offset .. offset + n - 1 \subseteq Nat
        BY <3>1, <4>1
      <4> QED BY <4>2, <4>3 DEF Stage2Inv, Stage2TypeOK
    <3> QED BY <2>1, <2>3, <3>2, <3>3 DEF Stage2Inv, Stage2TypeOK, Stages
  <2> QED BY <1>9, <2>2, <2>3 DEF ChunkRead
<1>10. CASE CloseAndJump
  BY <1>10 DEF CloseAndJump, FAT_Close, Stage2Inv, Stage2TypeOK, Stages
<1>11. CASE CloseNull
  BY <1>11 DEF CloseNull, Stage2Inv, Stage2TypeOK, Stages
<1>12. CASE UNCHANGED allVars
  BY <1>12 DEF allVars, vars, openVars, startVars, Stage2Inv, Stage2TypeOK
<1> QED BY <1>1, <1>2, <1>3, <1>4, <1>5, <1>6, <1>7, <1>8, <1>9, <1>10, <1>11, <1>12
        DEF Stage2Next, Loading, Done

\* One entry of the root directory read by a search.
LEMMA SearchedRoot ==
  ASSUME DriverInv, SearchStep, cur = ROOT
  PROVE  LET f == files[ROOT] IN
         /\ f \in FileData /\ RootCursor(f) /\ HasLeft(f, 0)
         /\ f.Position + 1 <= f.Size /\ 1 \in 1 .. LeftInBuffer(f)
         /\ f.Size = DirEntryCount /\ f.Position < DirEntryCount
         /\ \A r \in Iteration(ROOT, 1) : r.file \in FileData
<1> DEFINE f == files[ROOT]
<1>1. f \in FileData /\ RootCursor(f) /\ HasLeft(f, 0) /\ Bounded(f, 1) = 1
  BY Searched DEF SearchStep, CursorOk
<1>2. f.Position + 1 <= f.Size /\ 1 \in 1 .. LeftInBuffer(f) /\ f.Size = DirEntryCount
  <2>1. HasLeft(f, 1)
    BY <1>1, BoundedFits
  <2> QED BY <2>1, <1>1, SectorFacts, Constants DEF HasLeft, RootCursor, FileData
<1>3. f.Position < DirEntryCount
  BY <1>1, <1>2, Constants DEF FileData
<1>4. \A r \in Iteration(ROOT, 1) : r.file \in FileData
  BY <1>1, <1>2, IterationOnRoot
<1> QED BY <1>1, <1>2, <1>3, <1>4

\* The kernel's path has one component.
LEMMA PathOfKernel ==
  KernelPath # <<>> /\ Head(KernelPath) = KernelPath[1] /\ Tail(KernelPath) = <<>>
<1>1. KernelPath \in Seq(DOMAIN Spellings) /\ Len(KernelPath) = 1
  BY Stage2Assumption, ClientAssumption, KernelAssumption
<1>2. KernelPath # <<>> /\ Head(KernelPath) = KernelPath[1]
  <2>1. Len(<<>>) = 0
    OBVIOUS
  <2>2. ASSUME KernelPath = <<>> PROVE FALSE
    <3>1. Len(KernelPath) = Len(<<>>)
      BY ONLY <2>2
    <3> QED BY <1>1, <2>1, <3>1
  <2> QED BY <1>1, <2>2
<1>3. Tail(KernelPath) \in Seq(DOMAIN Spellings) /\ Len(Tail(KernelPath)) = 0
  BY <1>1, <1>2
<1>4. \A t \in Seq(DOMAIN Spellings) : Len(t) = 0 => t = <<>>
  OBVIOUS
<1> QED BY <1>2, <1>3, <1>4

\* Each action leaves the root's cursor alone, or starts or ends a search.
LEMMA RootKept ==
  DriverInv /\ RootInv /\ Stage2Inv /\ [Stage2Next]_allVars => RootInv'
<1> SUFFICES ASSUME DriverInv, RootInv, Stage2Inv, [Stage2Next]_allVars PROVE RootInv'
  OBVIOUS
<1>0. /\ files \in [AllHandles -> FileData] /\ ROOT \in AllHandles
      /\ ROOT \notin Handles /\ Handles \subseteq AllHandles
      /\ NoFile # ROOT
  BY HandleFacts DEF DriverInv, TypeOK
<1>1. CASE DiskInitializeFails
  BY <1>1 DEF DiskInitializeFails, RootInv, Running
<1>2. CASE Initialize
  <2>1. CASE FAT_Initialize
    <3>1. files'[ROOT] = RootFile(RootDirLba)
      BY <1>0, <2>1 DEF FAT_Initialize
    <3> QED BY <1>2, <2>1, <3>1 DEF Initialize, FAT_Initialize, RootInv, RootFile
  <2>2. CASE FAT_InitializeFails
    BY <1>2, <2>2 DEF Initialize, FAT_InitializeFails, RootInv, Running
  <2> QED BY <1>2, <2>1, <2>2 DEF Initialize
<1>3. CASE OpenKernel
  BY <1>3, PathOfKernel DEF OpenKernel, FAT_Open, Stage2Inv, RootInv, Running
<1>4. CASE Lookup
  <2>1. fd' = fd
    BY <1>4 DEF Lookup
  <2>2. CASE OpenComponent
    BY <2>1, <2>2 DEF OpenComponent, RootInv, Running
  <2>3. CASE OpenFault
    BY <2>1, <2>3 DEF OpenFault, openVars, RootInv, Running
  <2>4. CASE SearchStep
    <3>1. PICK r \in Iteration(cur, 1) :
            \/ /\ files' = [files EXCEPT ![cur] = Closed(cur, r.file)]
               /\ cur' = NoFile /\ pc' = "enter"
            \/ /\ files' = [files EXCEPT ![cur] = r.file]
               /\ UNCHANGED <<pc, cur>>
      BY <2>4 DEF SearchStep
    <3>2. pc = "find" /\ Running
      BY <2>4 DEF SearchStep, Running
    <3>3. CASE cur = ROOT
      <4>1. CASE files' = [files EXCEPT ![cur] = Closed(cur, r.file)]
                 /\ cur' = NoFile /\ pc' = "enter"
        <5>1. files'[ROOT] = Closed(ROOT, r.file)
          BY <1>0, <3>3, <4>1
        <5>2. r.file \in FileData
          BY <2>4, <3>3, SearchedRoot
        <5>3. Closed(ROOT, r.file).Position = 0
          BY <5>2 DEF Closed, FileData
        <5> QED BY <1>0, <2>1, <4>1, <5>1, <5>3 DEF RootInv
      <4>2. CASE UNCHANGED <<pc, cur>>
        BY <2>1, <3>2, <3>3, <4>2 DEF RootInv
      <4> QED BY <3>1, <4>1, <4>2
    <3>4. CASE cur # ROOT
      <4>1. files'[ROOT] = files[ROOT]
        BY <1>0, <3>1, <3>4
      <4> QED BY <1>0, <2>1, <3>1, <3>2, <3>4, <4>1 DEF RootInv
    <3> QED BY <3>3, <3>4
  <2>5. CASE FAT_OpenEntry
    <3>1. /\ pc = "enter" /\ pc' = "open" /\ files'[ROOT] = files[ROOT]
          /\ cur' \in Handles \cup {NoFile}
      BY <1>0, <2>5 DEF FAT_OpenEntry, FreeHandles
    <3> QED BY <1>0, <2>1, <3>1 DEF RootInv, Running
  <2> QED BY <1>4, <2>2, <2>3, <2>4, <2>5 DEF Lookup
<1>5. CASE KernelOpened
  <2>1. CASE OpenReturn /\ fd' = cur
    <3>1. pc = "open" /\ path = <<>> /\ files' = files /\ pc' = "idle"
      BY <2>1 DEF OpenReturn
    <3> QED BY <2>1, <3>1 DEF RootInv, Running
  <2>2. CASE NotFound /\ fd' = NoFile
    <3>1. /\ pc = "find" /\ files' = [files EXCEPT ![cur] = Closed(cur, @)]
          /\ pc' = "idle"
      BY <2>2 DEF NotFound
    <3>2. files'[ROOT].Position = 0
      <4>1. CASE cur = ROOT
        BY <1>0, <3>1, <4>1 DEF Closed, FileData
      <4>2. CASE cur # ROOT
        BY <1>0, <3>1, <4>2 DEF RootInv, Running
      <4> QED BY <4>1, <4>2
    <3> QED BY <1>0, <2>2, <3>1, <3>2 DEF RootInv
  <2> QED BY <1>5, <2>1, <2>2 DEF KernelOpened
<1>6. CASE ReadChunk
  BY <1>6 DEF ReadChunk, FAT_Read, RootInv, Running
<1>7. CASE ReadNull \/ Done
  BY <1>7 DEF ReadNull, Done, allVars, startVars, vars, openVars, RootInv, Running
<1>8. CASE Reading
  <2>1. pc = "read" /\ pc' = pc /\ cur = fd /\ fd' = fd
    BY <1>8 DEF Reading, ReadLoop, Stage2Inv
  <2>2. files'[ROOT] = files[ROOT]
    BY <1>0, <1>8, <2>1 DEF Reading, ReadLoop, RootInv
  <2> QED BY <2>1, <2>2 DEF RootInv, Running
<1>9. CASE ChunkRead
  BY <1>9 DEF ChunkRead, ReadReturn, RootInv, Running
<1>10. CASE CloseAndJump
  <2>1. pc = "idle" /\ pc' = pc /\ fd' = fd
    BY <1>10 DEF CloseAndJump, FAT_Close
  <2>2. files'[ROOT] = files[ROOT]
    BY <1>0, <1>10 DEF CloseAndJump, FAT_Close, RootInv
  <2> QED BY <2>1, <2>2 DEF RootInv, Running
<1>11. CASE CloseNull
  <2>1. UNCHANGED vars /\ fd' = fd
    BY <1>11, NullCloseIsStutter DEF CloseNull
  <2> QED BY <2>1 DEF vars, openVars, RootInv, Running
<1>12. CASE UNCHANGED allVars
  BY <1>12 DEF allVars, vars, openVars, startVars, RootInv, Running
<1> QED BY <1>1, <1>2, <1>3, <1>4, <1>5, <1>6, <1>7, <1>8, <1>9, <1>10, <1>11, <1>12
        DEF Stage2Next, Loading

LEMMA LoaderAndDriver == Stage2Spec => [](DriverInv /\ Stage2Inv /\ RootInv)
<1>1. Stage2Init => DriverInv /\ Stage2Inv /\ RootInv
  BY Stage2InitInv, InitHolds, RootInit DEF Stage2Init
<1>2. DriverInv /\ Stage2Inv /\ RootInv /\ [Stage2Next]_allVars
        => (DriverInv /\ Stage2Inv /\ RootInv)'
  BY LoadingIsAllowed, LoadingKeepsInv, RootKept, StepKeeps
<1> QED BY <1>1, <1>2, PTL DEF Stage2Spec

\* start() never closes or reads a handle it does not hold, whatever FAT_Open,
\* FAT_Read and the disk answer.
THEOREM LoaderInvariant == Stage2Spec => []Stage2Inv
BY LoaderAndDriver, PTL

\* What FatProofs proves of every client it proves of the loader.
LEMMA LoaderIsClient == Stage2Spec => Spec
<1>1. Stage2Init => Init
  BY DEF Stage2Init
<1>2. DriverInv /\ RootInv /\ Stage2Inv /\ [Stage2Next]_allVars => [Next]_vars
  BY LoadingIsAllowed
<1> QED BY <1>1, <1>2, LoaderAndDriver, PTL DEF Stage2Spec, Spec

\* While the kernel is loaded every open handle is on its own chain and
\* buffers a sector of its own file.
THEOREM LoaderReadsOwnFiles ==
  Stage2Spec => [](CursorFollowsChain /\ BufferUnderCursor /\ NoForeignSector)
<1>1. Spec => []CursorFollowsChain
  BY CursorsCorrect
<1>2. Spec => [](BufferUnderCursor /\ NoForeignSector)
  BY BuffersCorrect
<1> QED BY <1>1, <1>2, LoaderIsClient, PTL

-----------------------------------------------------------------------------
(* The kernel's way from its directory entry to memory.                    *)

\* A handle on the kernel file, and the units an address may get from it.
OnKernel(f) ==
  /\ f.FirstCluster = KernelEntry.FirstCluster
  /\ f.IsDirectory = KernelEntry.IsDirectory /\ f.Size = KernelEntry.Size

KernelSectors == OwnSectors(KernelEntry.FirstCluster) \cup {TORN}

KernelUnit(i) == UnitOfChain(KernelEntry.FirstCluster, i)

\* Nobody has searched the root directory yet.
RootFresh == files[ROOT].Position = 0 /\ files[ROOT].Buffer = RootDirLba

\* The root's buffer is never ahead of its cursor.
RootBuffered ==
  \/ files[ROOT].Buffer = TORN
  \/ \E k \in 0 .. SectorIndex(files[ROOT]) : files[ROOT].Buffer = RootDirLba + k

\* What each step of FAT_Open has in hand is the kernel's.
LookupInv ==
  /\ stage = "open" => RootFresh
  /\ stage = "opening" /\ pc = "open" =>
       \/ path = KernelPath /\ cur = ROOT /\ RootFresh
       \/ path = <<>> /\ cur = NoFile
       \/ /\ path = <<>> /\ cur \in Handles /\ KernelEntries # {}
          /\ OnKernel(files[cur]) /\ files[cur].Position = 0
  /\ stage = "opening" /\ pc = "find" =>
       /\ path = <<>> /\ cur = ROOT
       /\ fatName \in Spellings[KernelPath[1]] /\ RootBuffered
  /\ stage = "opening" /\ pc = "enter" =>
       path = <<>> /\ KernelEntries # {} /\ entry = KernelEntry

\* fd is on the kernel, and what was copied from it came from there.
LoadInv ==
  /\ stage \in {"load", "reading", "close"} /\ fd # NoFile =>
       fd \in Handles /\ KernelEntries # {} /\ OnKernel(files[fd])
  /\ stage \in {"init", "open", "opening"} => kernel = [i \in {} |-> <<>>] /\ offset = 0
  /\ stage # "reading" => out = <<>>
  /\ \A i \in DOMAIN kernel : kernel[i][1] \in KernelSectors
  /\ \A j \in 1 .. Len(out) : out[j][1] \in KernelSectors

\* A chunk's length goes through memcpy's count unchanged.
ChunksFit == MEMORY_LOAD_SIZE < COUNT_RANGE \/ KernelEntry.Size < COUNT_RANGE

\* Memory keeps pace with the file, and as long as no read of it has failed it
\* holds the file's units in their places.
PlaceInv ==
  /\ stage \in {"load", "reading"} /\ fd # NoFile /\ clean => fd \notin lost
  /\ stage \in {"load", "close"} /\ fd # NoFile => offset = files[fd].Position
  /\ stage \in {"load", "close"} /\ fd = NoFile => offset = 0
  /\ stage \in {"load", "reading", "close"} => DOMAIN kernel = 0 .. offset - 1
  /\ stage = "reading" =>
       /\ offset + Len(out) = files[fd].Position
       /\ Len(out) + want <= MEMORY_LOAD_SIZE /\ Len(out) + want <= KernelEntry.Size
       /\ out # <<>> \/ want = Bounded(files[fd], MEMORY_LOAD_SIZE)
       /\ clean => \A j \in 1 .. Len(out) : out[j] = KernelUnit(offset + j - 1)
  /\ stage = "close" /\ fd # NoFile => offset = KernelEntry.Size
  /\ clean => \A i \in DOMAIN kernel : kernel[i] = KernelUnit(i)
  /\ stage = "kernel" /\ fd # NoFile => DOMAIN kernel = 0 .. KernelEntry.Size - 1
  /\ kernel = [i \in DOMAIN kernel |-> kernel[i]]

\* The entry under the root's cursor, or the same one of an earlier sector, is
\* one of the root directory.
LEMMA SlotOfRoot ==
  ASSUME NEW f \in FileData, f.Position < DirEntryCount,
         NEW k \in 0 .. SectorIndex(f), f.Buffer = RootDirLba + k
  PROVE  EntryAt(f) \in RootSlots
<1> DEFINE s == SECTOR_SIZE
           q == SectorIndex(f)
           r == f.Position % SECTOR_SIZE
<1>1. s \in Nat \ {0} /\ f.Position \in Nat /\ DirEntryCount \in Nat
  BY Constants DEF FileData
<1>2. q \in Nat /\ r \in 0 .. s - 1 /\ f.Position = s * q + r
  BY <1>1 DEF SectorIndex
<1>3. EntryAt(f) = <<RootDirLba + k, r>>
  BY DEF EntryAt
<1> HIDE DEF s, q, r
<1>4. k \in Nat /\ k <= q
  BY <1>2 DEF q
<1> DEFINE i == s * k + r
<1>5. s * k \in Nat /\ s * k <= s * q
  BY <1>1, <1>2, <1>4
<1>6. i \in 0 .. DirEntryCount - 1
  BY <1>1, <1>2, <1>5
<1>7. i \div s = k /\ i % s = r
  <2>1. i \in Nat /\ i = s * k + r
    BY <1>2, <1>5
  <2> HIDE DEF i
  <2> QED BY <2>1, <1>1, <1>2, <1>4, DivUnique
<1> HIDE DEF i
<1>8. EntryAt(f) = <<RootDirLba + i \div SECTOR_SIZE, i % SECTOR_SIZE>>
  BY <1>3, <1>7 DEF s
<1> QED BY <1>6, <1>8 DEF RootSlots

\* There is one kernel, and it is a file of the volume.
LEMMA TheKernel ==
  ASSUME KernelEntries # {}
  PROVE  /\ KernelEntry \in EntryRecord /\ SoundEntry(KernelEntry)
         /\ ~KernelEntry.IsDirectory
         /\ \A at \in KernelEntries : Entry[at] = KernelEntry
<1> DEFINE k == CHOOSE at \in KernelEntries : TRUE
<1>1. k \in KernelEntries
  OBVIOUS
<1>2. KernelEntry = Entry[k]
  BY DEF KernelEntry
<1>3. k \in DOMAIN Entry
  BY <1>1 DEF KernelEntries
<1>4. \A at \in KernelEntries : at = k
  BY <1>1, KernelAssumption
<1> HIDE DEF k
<1> QED BY <1>1, <1>2, <1>3, <1>4, KernelAssumption, EntryAssumption

LEMMA LoadInitInv == Stage2Init => LookupInv /\ LoadInv /\ PlaceInv
BY DEF Stage2Init, Init, LookupInv, LoadInv, PlaceInv

\* A search that finds something finds the kernel.
LEMMA SearchFindsKernel ==
  ASSUME DriverInv, Stage2Inv, LookupInv, stage = "opening", SearchStep
  PROVE  /\ pc = "find" /\ path' = <<>>
         /\ \/ /\ pc' = "enter" /\ KernelEntries # {} /\ entry' = KernelEntry
            \/ /\ pc' = "find" /\ cur' = ROOT /\ fatName' = fatName
               /\ RootBuffered'
<1> DEFINE f == files[ROOT]
<1>1. /\ pc = "find" /\ path = <<>> /\ cur = ROOT /\ Bounded(f, 1) = 1
      /\ fatName \in Spellings[KernelPath[1]] /\ RootBuffered
  BY DEF SearchStep, LookupInv
<1>2. f \in FileData /\ RootCursor(f) /\ HasLeft(f, 0)
  BY <1>1, Searched DEF CursorOk
<1>3. f.Position + 1 <= f.Size /\ 1 \in 1 .. LeftInBuffer(f) /\ f.Size = DirEntryCount
  <2>1. HasLeft(f, 1)
    BY <1>1, <1>2, BoundedFits
  <2> QED BY <2>1, <1>2, SectorFacts, Constants DEF HasLeft, RootCursor, FileData
<1>4. f.Position < DirEntryCount
  BY <1>2, <1>3, Constants DEF FileData
<1>5. PICK r \in Iteration(ROOT, 1) :
        LET at == EntryAt(f) IN
        \/ Matches(at, fatName) /\ entry' = Entry[at] /\ pc' = "enter"
        \/ files' = [files EXCEPT ![ROOT] = r.file] /\ UNCHANGED <<pc, cur, fatName, entry>>
  BY <1>1 DEF SearchStep
<1>6. path' = path
  BY DEF SearchStep
<1>7. CASE Matches(EntryAt(f), fatName) /\ entry' = Entry[EntryAt(f)] /\ pc' = "enter"
  <2>1. EntryAt(f) \in DOMAIN Entry /\ Entry[EntryAt(f)].Name = fatName
    BY <1>7 DEF Matches
  <2>2. f.Buffer # TORN
    <3>1. EntryAt(f) \in Nat \X Nat
      BY <2>1, EntryAssumption
    <3>2. EntryAt(f)[1] \in Nat
      BY <3>1
    <3> QED BY <3>2, Constants DEF EntryAt
  <2>3. PICK k \in 0 .. SectorIndex(f) : f.Buffer = RootDirLba + k
    BY <1>1, <2>2 DEF RootBuffered
  <2>4. EntryAt(f) \in RootSlots
    BY <1>2, <1>4, <2>3, SlotOfRoot
  <2>5. EntryAt(f) \in KernelEntries
    BY <1>1, <2>1, <2>4 DEF KernelEntries
  <2>6. Entry[EntryAt(f)] = KernelEntry
    BY <2>5, TheKernel
  <2> QED BY <1>1, <1>6, <1>7, <2>5, <2>6
<1>8. CASE files' = [files EXCEPT ![ROOT] = r.file] /\ UNCHANGED <<pc, cur, fatName, entry>>
  <2>1. /\ r.file \in FileData
        /\ SectorIndex(f) <= SectorIndex(r.file)
        /\ r.file.Buffer \in {f.Buffer, TORN, RootDirLba + SectorIndex(r.file)}
    BY <1>2, <1>3, IterationOnRoot
  <2>2. files'[ROOT] = r.file
    BY <1>8, HandleFacts DEF DriverInv, TypeOK
  <2>3. SectorIndex(f) \in Nat /\ SectorIndex(r.file) \in Nat
    BY <1>2, <2>1, SectorFacts
  <2>4. \/ r.file.Buffer = TORN
        \/ \E k \in 0 .. SectorIndex(r.file) : r.file.Buffer = RootDirLba + k
    BY <1>1, <2>1, <2>3 DEF RootBuffered
  <2>5. RootBuffered'
    BY <2>2, <2>4 DEF RootBuffered, SectorIndex
  <2> QED BY <1>1, <1>6, <1>8, <2>5
<1> QED BY <1>5, <1>7, <1>8

LEMMA EntryOfKernel ==
  ASSUME NEW o, NEW b, NEW f, f = EntryFile(KernelEntry, o, b)
  PROVE  OnKernel(f) /\ f.Position = 0
BY DEF EntryFile, OnKernel

LEMMA LookupKeeps ==
  ASSUME DriverInv, Stage2Inv, LookupInv, [Stage2Next]_allVars PROVE LookupInv'
<1>0. files \in [AllHandles -> FileData] /\ ROOT \in AllHandles /\ NoFile # ROOT
  BY HandleFacts DEF DriverInv, TypeOK
<1>1. CASE DiskInitializeFails \/ KernelOpened \/ ReadChunk \/ ReadNull
           \/ Reading \/ ChunkRead \/ CloseAndJump \/ CloseNull
  <2>1. stage' \notin {"open", "opening"}
    BY <1>1 DEF DiskInitializeFails, KernelOpened, ReadChunk, ReadNull, Reading,
                ChunkRead, CloseAndJump, CloseNull
  <2> QED BY <2>1 DEF LookupInv
<1>2. CASE Initialize
  <2>1. CASE stage' = "end"
    BY <2>1 DEF LookupInv
  <2>2. CASE FAT_Initialize /\ stage' = "open"
    <3>1. files'[ROOT] = RootFile(RootDirLba)
      BY <1>0, <2>2 DEF FAT_Initialize
    <3>2. RootFresh'
      BY <3>1 DEF RootFresh, RootFile
    <3> QED BY <2>2, <3>2 DEF LookupInv
  <2> QED BY <1>2, <2>1, <2>2 DEF Initialize
<1>3. CASE OpenKernel
  BY <1>3 DEF OpenKernel, FAT_Open, LookupInv, RootFresh
<1>4. CASE Lookup
  <2>1. stage = "opening" /\ stage' = "opening"
    BY <1>4 DEF Lookup
  <2>2. CASE OpenComponent
    <3>1. path = KernelPath /\ cur = ROOT /\ RootFresh
      BY <2>1, <2>2 DEF OpenComponent, LookupInv
    <3>2. /\ pc' = "find" /\ path' = <<>> /\ cur' = ROOT /\ files' = files
          /\ fatName' \in Spellings[KernelPath[1]]
      BY <2>2, <3>1, PathOfKernel DEF OpenComponent
    <3>3. RootBuffered'
      <4>1. SectorIndex(files[ROOT]) \in Nat
        BY <1>0, SectorFacts
      <4>2. 0 \in 0 .. SectorIndex(files[ROOT]) /\ files[ROOT].Buffer = RootDirLba + 0
        BY <3>1, <4>1, Constants DEF RootFresh
      <4> QED BY <3>2, <4>2 DEF RootBuffered, SectorIndex
    <3> QED BY <3>2, <3>3, <2>1 DEF LookupInv
  <2>3. CASE OpenFault
    BY <2>1, <2>3 DEF OpenFault, LookupInv
  <2>4. CASE SearchStep
    <3>1. /\ pc = "find" /\ path' = <<>>
          /\ \/ /\ pc' = "enter" /\ KernelEntries # {} /\ entry' = KernelEntry
             \/ /\ pc' = "find" /\ cur' = ROOT /\ fatName' = fatName
                /\ RootBuffered'
      BY <2>1, <2>4, SearchFindsKernel
    <3>2. fatName \in Spellings[KernelPath[1]]
      BY <2>1, <3>1 DEF LookupInv
    <3> QED BY <2>1, <3>1, <3>2 DEF LookupInv
  <2>5. CASE FAT_OpenEntry
    <3>1. pc' = "open" /\ path' = <<>> /\ KernelEntries # {} /\ entry = KernelEntry
      BY <2>1, <2>5 DEF FAT_OpenEntry, LookupInv
    <3>2. cur' # NoFile =>
            /\ cur' \in Handles /\ OnKernel(files'[cur'])
            /\ files'[cur'].Position = 0
      <4> HAVE cur' # NoFile
      <4>2. \E h \in FreeHandles, o \in {TRUE, FALSE}, b \in Int \cup {TORN} :
              files' = [files EXCEPT ![h] = EntryFile(entry, o, b)] /\ cur' = h
        <5>1. PICK h \in FreeHandles :
                \E r \in DISK_ReadSectors(FAT_ClusterToLba(entry.FirstCluster),
                                          files[h].Buffer) :
                  /\ files' = [files EXCEPT ![h] = EntryFile(entry, r.ok, r.buffer)]
                  /\ cur' = IF r.ok THEN h ELSE NoFile
          BY <2>5 DEF FAT_OpenEntry
        <5>2. FAT_ClusterToLba(entry.FirstCluster) \in Int
              /\ files[h].Buffer \in Int \cup {TORN}
          <6>1. entry \in EntryRecord /\ files \in [AllHandles -> FileData]
            BY DEF DriverInv, TypeOK
          <6>2. entry.FirstCluster \in Nat
            BY <6>1 DEF EntryRecord
          <6>3. FAT_ClusterToLba(entry.FirstCluster) \in Int
            BY <6>2, Constants DEF FAT_ClusterToLba
          <6>4. h \in AllHandles
            BY HandleFacts DEF FreeHandles
          <6>5. files[h] \in FileData
            BY <6>1, <6>4
          <6>6. files[h].Buffer \in Int \cup {TORN}
            BY <6>5 DEF FileData
          <6> QED BY <6>3, <6>6
        <5>3. PICK r \in DISK_ReadSectors(FAT_ClusterToLba(entry.FirstCluster),
                                         files[h].Buffer) :
                /\ files' = [files EXCEPT ![h] = EntryFile(entry, r.ok, r.buffer)]
                /\ cur' = IF r.ok THEN h ELSE NoFile
          BY <5>1
        <5>4. r.ok \in BOOLEAN /\ r.buffer \in Int \cup {TORN}
          BY <5>2, ReadOutcome
        <5>5. cur' = h /\ r.ok \in {TRUE, FALSE}
          BY <5>3, <5>4
        <5> QED BY <5>3, <5>4, <5>5
      <4>3. PICK h \in FreeHandles, o \in {TRUE, FALSE}, b \in Int \cup {TORN} :
              files' = [files EXCEPT ![h] = EntryFile(entry, o, b)] /\ cur' = h
        BY <4>2
      <4>4. h \in Handles /\ files'[h] = EntryFile(KernelEntry, o, b)
        BY <1>0, <3>1, <4>3, HandleFacts DEF FreeHandles
      <4> QED BY <4>3, <4>4, EntryOfKernel
    <3> QED BY <2>1, <3>1, <3>2 DEF LookupInv, OnKernel
  <2> QED BY <1>4, <2>2, <2>3, <2>4, <2>5 DEF Lookup
<1>5. CASE UNCHANGED allVars
  BY <1>5 DEF allVars, vars, openVars, startVars, LookupInv, RootFresh, RootBuffered,
              SectorIndex, OnKernel
<1> QED BY <1>1, <1>2, <1>3, <1>4, <1>5 DEF Stage2Next, Loading, Done

\* One iteration of the copy loop on the kernel file.
LEMMA KernelIteration ==
  ASSUME DriverInv, BuffersOk, Stage2Inv, LoadInv, stage = "reading", ReadLoop
  PROVE  \E take \in Nat \ {0} :
           /\ take <= want /\ take <= LeftInBuffer(files[fd])
           /\ want' \in {0, want - take}
           /\ out' = out \o Copied(files[fd], take)
           /\ OnKernel(files'[fd])
           /\ files'[fd].Position = files[fd].Position + take
           /\ files[fd].Buffer \in KernelSectors
           /\ fd \notin lost =>
                files[fd].Buffer = SectorOfChain(KernelEntry.FirstCluster, SectorIndex(files[fd]))
<1> DEFINE f == files[fd]
           c == KernelEntry.FirstCluster
<1>1. /\ pc = "read" /\ cur = fd /\ fd \in held /\ fd \in Handles /\ fd # ROOT
      /\ want \in Nat \ {0} /\ KernelEntries # {} /\ OnKernel(f)
  BY HandleFacts DEF ReadLoop, Stage2Inv, LoadInv, DriverInv, TypeOK
<1>2. HasLeft(f, want)
  BY <1>1 DEF DriverInv, CallState, HasLeft
<1>3. Running /\ f \in FileData /\ CursorOk(fd, f) /\ f.Opened
  BY <1>1, HeldIsOpen, CursorOkOf
<1>4. FollowsChain(f) /\ SectorIndex(f) < ChainSectors(f.FirstCluster)
  BY <1>1, <1>2, <1>3, LeftMeansInside DEF CursorOk
<1>5. /\ ~f.IsDirectory /\ f.FirstCluster = c /\ f.Size = KernelEntry.Size
      /\ c \in DOMAIN Chain
  BY <1>1, <1>4, TheKernel DEF OnKernel, FollowsChain
<1>6. f.Position \in Nat /\ f.Size \in Nat /\ want <= f.Size - f.Position
  BY <1>2, <1>3, <1>5 DEF HasLeft, FileData
<1> DEFINE take == Min2(want, LeftInBuffer(f))
<1>7. /\ take \in Nat \ {0} /\ take \in 1 .. LeftInBuffer(f)
      /\ take <= want /\ take <= LeftInBuffer(f)
  BY <1>1, <1>3, SectorFacts, Constants DEF Min2
<1>8. PICK r \in Iteration(fd, take) :
        /\ files' = [files EXCEPT ![fd] = r.file]
        /\ want' = IF r.end = "go" THEN want - take ELSE 0
        /\ out' = out \o Copied(f, take)
  BY <1>1 DEF ReadLoop
<1> HIDE DEF take
<1>9. f.Position + take <= f.Size
  BY <1>1, <1>6, <1>7
<1>10. files'[fd] = r.file
  BY <1>1, <1>8, HandleFacts DEF DriverInv, TypeOK
<1>11. /\ r.file \in FileData /\ SameFile(r.file, f)
       /\ r.file.Position = f.Position + take /\ FollowsChain(r.file)
       /\ r.end # "eof" => r.file.Size = f.Size
       /\ r.end = "eof" => SectorIndex(r.file) >= ChainSectors(c)
  <2>1. /\ r.file \in FileData /\ SameFile(r.file, f)
        /\ r.file.Position = f.Position + take /\ FollowsChain(r.file)
        /\ r.end # "eof" => r.file.Size = f.Size
    BY <1>1, <1>3, <1>4, <1>7, <1>8, <1>9, IterationOnChain
  <2>2. \/ r.end = "go" \/ r.end = "error"
        \/ r.end = "eof" /\ SectorIndex(r.file) >= ChainSectors(c)
    BY <1>1, <1>3, <1>4, <1>5, <1>7, <1>8, <1>9, IterationOnChain
  <2> QED BY <2>1, <2>2
<1>12. r.file.Size = f.Size
  <2>1. CASE r.end = "eof"
    <3>1. /\ r.file.Position = ChainSectors(c) * SECTOR_SIZE
          /\ r.file.Size = r.file.Position
      BY <1>5, <1>11, <2>1 DEF FollowsChain, SameFile
    <3>2. f.Size <= ChainSectors(c) * SECTOR_SIZE
      <4>1. /\ Len(Chain[c]) \in Nat /\ SectorsPerCluster \in Nat /\ SECTOR_SIZE \in Nat
        BY <1>5, ChainFacts, Constants
      <4>2. KernelEntry.Size = 0 \/ KernelEntry.Size <= Len(Chain[c]) * ClusterSize
        BY <1>1, TheKernel DEF SoundEntry
      <4>3. Len(Chain[c]) * ClusterSize = ChainSectors(c) * SECTOR_SIZE
        <5>1. \A x, y, z \in Nat : x * (y * z) = (x * y) * z
          OBVIOUS
        <5> QED BY ONLY <4>1, <5>1 DEF ClusterSize, ChainSectors
      <4>4. ChainSectors(c) * SECTOR_SIZE \in Nat
        BY <1>5, <4>1, ChainFacts
      <4> QED BY <1>5, <4>2, <4>3, <4>4
    <3>3. r.file.Position <= f.Size
      BY <1>9, <1>11
    <3> DEFINE bytes == ChainSectors(c) * SECTOR_SIZE
    <3>4. bytes \in Nat
      BY <1>5, ChainFacts, Constants
    <3> HIDE DEF bytes
    <3>5. r.file.Size = bytes /\ bytes <= f.Size /\ f.Size <= bytes
      BY <3>1, <3>2, <3>3 DEF bytes
    <3> QED BY <1>6, <3>4, <3>5
  <2> QED BY <1>11, <2>1
<1>13. OnKernel(files'[fd])
  BY <1>1, <1>10, <1>11, <1>12 DEF OnKernel, SameFile
<1>14. f.Buffer \in KernelSectors
  BY <1>1, <1>3, <1>5 DEF BuffersOk, OwnBuffer, KernelSectors
<1>15. fd \notin lost => f.Buffer = SectorOfChain(c, SectorIndex(f))
  BY <1>1, <1>3, <1>4, <1>5 DEF BuffersOk, RightBuffer, HasSector
<1>16. want' \in {0, want - take} /\ out' = out \o Copied(files[fd], take)
  BY <1>8
<1>17. files'[fd].Position = files[fd].Position + take
  BY <1>10, <1>11
<1> HIDE DEF f, c
<1> QED BY <1>7, <1>13, <1>14, <1>15, <1>16, <1>17 DEF f, c

\* memcpy writes the first num % COUNT_RANGE units of src behind at.
LEMMA MemcpyRange ==
  ASSUME NEW mem, NEW at \in Nat, NEW src, NEW num \in Nat
  PROVE  /\ num % COUNT_RANGE \in 0 .. num
         /\ num < COUNT_RANGE => num % COUNT_RANGE = num
         /\ memcpy(mem, at, src, num) =
              [i \in DOMAIN memcpy(mem, at, src, num) |-> memcpy(mem, at, src, num)[i]]
<1>1. COUNT_RANGE \in Nat \ {0}
  BY Stage2Assumption
<1>2. num % COUNT_RANGE \in Nat /\ num % COUNT_RANGE <= num
  BY <1>1
<1> QED BY <1>1, <1>2 DEF memcpy

LEMMA MemcpyUnit ==
  ASSUME NEW mem, NEW at \in Nat, NEW src, NEW num \in Nat,
         NEW i \in DOMAIN memcpy(mem, at, src, num)
  PROVE  \/ /\ i \in DOMAIN mem /\ i \notin at .. at + (num % COUNT_RANGE) - 1
            /\ memcpy(mem, at, src, num)[i] = mem[i]
         \/ /\ i \in at .. at + (num % COUNT_RANGE) - 1
            /\ i - at + 1 \in 1 .. num % COUNT_RANGE
            /\ memcpy(mem, at, src, num)[i] = src[i - at + 1]
<1> DEFINE n == num % COUNT_RANGE
<1>1. n \in Nat
  BY Stage2Assumption
<1>2. memcpy(mem, at, src, num) =
        [k \in DOMAIN mem \cup at .. at + n - 1 |->
           IF k \in at .. at + n - 1 THEN src[k - at + 1] ELSE mem[k]]
  BY DEF memcpy
<1> HIDE DEF n
<1>3. i \in at .. at + n - 1 => i - at + 1 \in 1 .. n
  BY <1>1
<1> QED BY <1>2, <1>3 DEF n

LEMMA LoadKeeps ==
  ASSUME DriverInv, BuffersOk, Stage2Inv, LookupInv, LoadInv, [Stage2Next]_allVars
  PROVE  LoadInv'
<1>0. offset \in Nat /\ out \in Seq((Int \cup {TORN}) \X Nat) /\ Len(out) \in Nat
  BY DEF Stage2Inv, Stage2TypeOK, DriverInv, TypeOK
<1>1. CASE DiskInitializeFails \/ Initialize \/ OpenKernel \/ Lookup
  <2>1. stage' \in {"end", "open", "opening"} /\ stage \in {"init", "open", "opening"}
        /\ UNCHANGED <<kernel, offset>>
    BY <1>1 DEF DiskInitializeFails, Initialize, OpenKernel, Lookup
  <2>2. out' = out
    BY <1>1 DEF DiskInitializeFails, Initialize, OpenKernel, Lookup, FAT_Initialize,
                FAT_InitializeFails, FAT_Open, OpenComponent, OpenFault, SearchStep,
                FAT_OpenEntry, readVars
  <2> QED BY <2>1, <2>2 DEF LoadInv
<1>2. CASE KernelOpened
  <2>1. stage = "opening" /\ stage' = "load" /\ UNCHANGED <<kernel, offset, out>>
    BY <1>2 DEF KernelOpened, OpenReturn, NotFound, readVars
  <2>2. fd' # NoFile => fd' \in Handles /\ KernelEntries # {} /\ OnKernel(files'[fd'])
    <3>1. CASE OpenReturn /\ fd' = cur
      <4>1. files' = files /\ pc = "open" /\ path = <<>>
        BY <3>1 DEF OpenReturn
      <4> QED BY <2>1, <3>1, <4>1, PathOfKernel DEF LookupInv
    <3>2. CASE fd' = NoFile
      BY <3>2
    <3> QED BY <1>2, <3>1, <3>2 DEF KernelOpened
  <2> QED BY <2>1, <2>2 DEF LoadInv, OnKernel
<1>3. CASE ReadChunk
  BY <1>3 DEF ReadChunk, FAT_Read, LoadInv, OnKernel
<1>4. CASE ReadNull
  BY <1>4 DEF ReadNull, vars, readVars, LoadInv
<1>5. CASE Reading
  <2>1. stage = "reading" /\ stage' = "reading" /\ fd' = fd /\ ReadLoop
        /\ kernel' = kernel /\ fd # NoFile
    BY <1>5 DEF Reading, Stage2Inv
  <2>2. PICK take \in Nat \ {0} :
          /\ take <= LeftInBuffer(files[fd])
          /\ out' = out \o Copied(files[fd], take)
          /\ OnKernel(files'[fd]) /\ files[fd].Buffer \in KernelSectors
    BY <2>1, KernelIteration
  <2>3. files[fd] \in FileData /\ fd \in Handles /\ KernelEntries # {}
    BY <2>1, HandleFacts DEF LoadInv, DriverInv, TypeOK
  <2>4. take \in 1 .. LeftInBuffer(files[fd])
    BY <2>2, <2>3, SectorFacts, Constants
  <2>5. \A j \in 1 .. Len(out') : out'[j][1] \in KernelSectors
    <3> DEFINE t == Copied(files[fd], take)
    <3>1. t \in Seq((Int \cup {TORN}) \X Nat) /\ Len(t) = take
          /\ \A j \in 1 .. take : t[j][1] = files[fd].Buffer
      BY <2>2, <2>3, <2>4, CopiedType, CopiedUnits
    <3> HIDE DEF t
    <3>2. \A j \in 1 .. Len(out \o t) :
              \/ j \in 1 .. Len(out) /\ (out \o t)[j] = out[j]
              \/ j - Len(out) \in 1 .. take /\ (out \o t)[j] = t[j - Len(out)]
      BY <1>0, <3>1, Concatenation
    <3>3. out' = out \o t
      BY <2>2 DEF t
    <3> QED BY <2>2, <3>1, <3>2, <3>3 DEF LoadInv
  <2> QED BY <2>1, <2>2, <2>3, <2>5 DEF LoadInv, OnKernel
<1>6. CASE ChunkRead
  <2>1. /\ stage = "reading" /\ stage' \in {"load", "close"} /\ fd' = fd
        /\ files' = files /\ out' = <<>>
    BY <1>6 DEF ChunkRead, ReadReturn
  <2>2. \A i \in DOMAIN kernel' : kernel'[i][1] \in KernelSectors
    <3>1. CASE kernel' = kernel
      BY <3>1 DEF LoadInv
    <3>2. CASE kernel' = memcpy(kernel, offset, out, Len(out))
      <4> DEFINE n == Len(out) % COUNT_RANGE
                 m == memcpy(kernel, offset, out, Len(out))
      <4>1. n \in 0 .. Len(out)
        BY <1>0, MemcpyRange
      <4>2. ASSUME NEW i \in DOMAIN m
            PROVE  \/ i \in DOMAIN kernel /\ m[i] = kernel[i]
                   \/ i - offset + 1 \in 1 .. n /\ m[i] = out[i - offset + 1]
        BY <1>0, MemcpyUnit
      <4> HIDE DEF n, m
      <4>3. 1 .. n \subseteq 1 .. Len(out)
        BY <1>0, <4>1
      <4> QED BY <3>2, <4>2, <4>3 DEF LoadInv, m
    <3> QED BY <1>6, <3>1, <3>2 DEF ChunkRead
  <2>3. Len(out') = 0
    BY <2>1
  <2> QED BY <2>1, <2>2, <2>3 DEF LoadInv, OnKernel
<1>7. CASE CloseAndJump \/ CloseNull
  BY <1>7 DEF CloseAndJump, CloseNull, FAT_Close, readVars, LoadInv
<1>8. CASE UNCHANGED allVars
  BY <1>8 DEF allVars, vars, readVars, startVars, LoadInv, OnKernel
<1> QED BY <1>1, <1>2, <1>3, <1>4, <1>5, <1>6, <1>7, <1>8 DEF Stage2Next, Loading, Done
\* The handle start() is about to read: what is left of the kernel.
LEMMA KernelLeft ==
  ASSUME DriverInv, Stage2Inv, LoadInv, stage \in {"load", "reading"}, fd # NoFile
  PROVE  LET f == files[fd] IN
         /\ KernelEntry.Size \in Nat /\ f.Position \in 0 .. KernelEntry.Size
         /\ Bounded(f, MEMORY_LOAD_SIZE) =
              Min2(MEMORY_LOAD_SIZE, KernelEntry.Size - f.Position)
<1> DEFINE f == files[fd]
<1>1. /\ fd \in held /\ pc \in {"idle", "read"} /\ OnKernel(f) /\ KernelEntries # {}
  BY DEF Stage2Inv, LoadInv
<1>2. f \in FileData /\ HasLeft(f, 0)
  BY <1>1, HeldIsOpen, CursorOkOf
<1>3. ~f.IsDirectory /\ f.Size = KernelEntry.Size
  BY <1>1, TheKernel DEF OnKernel
<1>4. f.Position \in Nat /\ f.Size \in Nat
  BY <1>2 DEF FileData
<1> QED BY <1>2, <1>3, <1>4 DEF HasLeft, Bounded

LEMMA PlaceKeepsReading ==
  ASSUME DriverInv, BuffersOk, Stage2Inv, LoadInv, PlaceInv, Reading
  PROVE  PlaceInv'
<1>1. /\ stage = "reading" /\ stage' = "reading" /\ fd' = fd /\ ReadLoop
      /\ kernel' = kernel /\ offset' = offset /\ fd # NoFile
      /\ clean' = (clean /\ fd \notin lost')
  BY DEF Reading, Stage2Inv
<1>2. /\ offset \in Nat /\ out \in Seq((Int \cup {TORN}) \X Nat) /\ Len(out) \in Nat
      /\ want \in Nat /\ MEMORY_LOAD_SIZE \in Nat /\ KernelEntry.Size \in Nat
      /\ files[fd] \in FileData /\ fd \in Handles
  BY <1>1, KernelLeft, Stage2Assumption, HandleFacts
     DEF Stage2Inv, Stage2TypeOK, DriverInv, TypeOK, LoadInv
<1>3. PICK take \in Nat \ {0} :
        /\ take <= want /\ take <= LeftInBuffer(files[fd])
        /\ want' \in {0, want - take}
        /\ out' = out \o Copied(files[fd], take)
        /\ files'[fd].Position = files[fd].Position + take
        /\ fd \notin lost =>
             files[fd].Buffer = SectorOfChain(KernelEntry.FirstCluster, SectorIndex(files[fd]))
  BY <1>1, KernelIteration
<1>4. take \in 1 .. LeftInBuffer(files[fd])
  BY <1>2, <1>3, SectorFacts, Constants
<1> DEFINE t == Copied(files[fd], take)
<1>5. /\ t \in Seq((Int \cup {TORN}) \X Nat) /\ Len(t) = take
      /\ fd \notin lost => \A j \in 1 .. take : t[j] = KernelUnit(files[fd].Position + j - 1)
  <2>1. take \in Nat
    OBVIOUS
  <2>2. t \in Seq((Int \cup {TORN}) \X Nat)
    BY <1>2, <2>1, CopiedType
  <2>3. Len(t) = take
    BY <1>2, <1>4, CopiedUnits
  <2>4. files[fd].Buffer = SectorOfChain(KernelEntry.FirstCluster, SectorIndex(files[fd])) =>
          \A j \in 1 .. take :
            t[j] = UnitOfChain(KernelEntry.FirstCluster, files[fd].Position + j - 1)
    BY <1>2, <1>4, CopiedUnits
  <2> HIDE DEF t
  <2> QED BY <1>3, <2>2, <2>3, <2>4 DEF KernelUnit
<1> HIDE DEF t
<1>6. out' = out \o t
  BY <1>3 DEF t
<1>7. /\ Len(out \o t) = Len(out) + take
      /\ \A j \in 1 .. Len(out \o t) :
           \/ j \in 1 .. Len(out) /\ (out \o t)[j] = out[j]
           \/ j - Len(out) \in 1 .. take /\ (out \o t)[j] = t[j - Len(out)]
  BY <1>2, <1>5, Concatenation
<1>8. /\ offset + Len(out) = files[fd].Position
      /\ Len(out) + want <= MEMORY_LOAD_SIZE /\ Len(out) + want <= KernelEntry.Size
      /\ clean => \A j \in 1 .. Len(out) : out[j] = KernelUnit(offset + j - 1)
      /\ clean => fd \notin lost
  BY <1>1 DEF PlaceInv
<1>9. offset + Len(out') = files'[fd].Position
  BY <1>2, <1>3, <1>6, <1>7, <1>8
<1>10. Len(out') + want' <= MEMORY_LOAD_SIZE /\ Len(out') + want' <= KernelEntry.Size
  BY <1>2, <1>3, <1>6, <1>7, <1>8
<1>11. out' # <<>>
  <2>1. Len(out') # 0
    BY <1>2, <1>3, <1>6, <1>7
  <2>2. ASSUME out' = <<>> PROVE FALSE
    <3>1. Len(out') = Len(<<>>)
      BY ONLY <2>2
    <3>2. Len(<<>>) = 0
      OBVIOUS
    <3> QED BY <2>1, <3>1, <3>2
  <2> QED BY <2>2
<1>12. clean' => \A j \in 1 .. Len(out') : out'[j] = KernelUnit(offset + j - 1)
  <2> SUFFICES ASSUME clean', NEW j \in 1 .. Len(out \o t)
               PROVE  (out \o t)[j] = KernelUnit(offset + j - 1)
    BY <1>6
  <2>1. CASE j \in 1 .. Len(out) /\ (out \o t)[j] = out[j]
    BY <1>1, <1>8, <2>1
  <2>2. CASE j - Len(out) \in 1 .. take /\ (out \o t)[j] = t[j - Len(out)]
    <3>1. t[j - Len(out)] = KernelUnit(files[fd].Position + (j - Len(out)) - 1)
      BY <1>1, <1>5, <1>8, <2>2
    <3>2. files[fd].Position + (j - Len(out)) - 1 = offset + j - 1
      BY <1>2, <1>7, <1>8
    <3> QED BY <2>2, <3>1, <3>2
  <2> QED BY <1>7, <2>1, <2>2
<1>13. clean' => clean /\ fd \notin lost'
  BY <1>1
<1> QED BY <1>1, <1>9, <1>10, <1>11, <1>12, <1>13 DEF PlaceInv

LEMMA PlaceKeepsChunkRead ==
  ASSUME ChunksFit, DriverInv, Stage2Inv, LoadInv, PlaceInv, ChunkRead
  PROVE  PlaceInv'
<1>1. /\ stage = "reading" /\ want = 0 /\ fd' = fd /\ clean' = clean /\ lost' = lost
      /\ files' = files /\ fd # NoFile
  BY DEF ChunkRead, ReadReturn, Stage2Inv
<1>2. /\ offset \in Nat /\ Len(out) \in Nat /\ MEMORY_LOAD_SIZE \in Nat \ {0}
      /\ KernelEntry.Size \in Nat /\ files[fd].Position \in 0 .. KernelEntry.Size
      /\ COUNT_RANGE \in Nat \ {0}
      /\ Bounded(files[fd], MEMORY_LOAD_SIZE) =
           Min2(MEMORY_LOAD_SIZE, KernelEntry.Size - files[fd].Position)
  BY <1>1, KernelLeft, Stage2Assumption DEF Stage2Inv, Stage2TypeOK, DriverInv, TypeOK
<1>3. /\ offset + Len(out) = files[fd].Position
      /\ Len(out) + want <= MEMORY_LOAD_SIZE /\ Len(out) + want <= KernelEntry.Size
      /\ out # <<>> \/ want = Bounded(files[fd], MEMORY_LOAD_SIZE)
      /\ clean => \A j \in 1 .. Len(out) : out[j] = KernelUnit(offset + j - 1)
      /\ DOMAIN kernel = 0 .. offset - 1
      /\ clean => \A i \in DOMAIN kernel : kernel[i] = KernelUnit(i)
      /\ clean => fd \notin lost
      /\ kernel = [i \in DOMAIN kernel |-> kernel[i]]
  BY <1>1 DEF PlaceInv
<1>4. CASE out = <<>> /\ stage' = "close" /\ UNCHANGED <<kernel, offset>>
  <2>1. Len(out) = 0
    BY <1>4
  <2>2. Min2(MEMORY_LOAD_SIZE, KernelEntry.Size - files[fd].Position) = 0
    BY <1>1, <1>2, <1>3, <1>4
  <2>3. offset = KernelEntry.Size /\ offset = files[fd].Position
    BY <1>2, <1>3, <2>1, <2>2 DEF Min2
  <2> QED BY <1>1, <1>3, <1>4, <2>3 DEF PlaceInv
<1>5. CASE /\ kernel' = memcpy(kernel, offset, out, Len(out))
           /\ offset' = offset + Len(out) /\ stage' = "load"
  <2> DEFINE m == memcpy(kernel, offset, out, Len(out))
             n == Len(out)
  <2>1. n < COUNT_RANGE
    BY <1>1, <1>2, <1>3 DEF ChunksFit
  <2>2. /\ n % COUNT_RANGE = n
        /\ DOMAIN m = DOMAIN kernel \cup offset .. offset + n - 1
        /\ m = [i \in DOMAIN m |-> m[i]]
    <3>a. offset \in Nat /\ Len(out) \in Nat
      BY <1>2
    <3>1. n % COUNT_RANGE = n
      BY <1>2, <2>1, MemcpyRange
    <3>2. DOMAIN m = DOMAIN kernel \cup offset .. offset + (n % COUNT_RANGE) - 1
      BY DEF memcpy
    <3>3. m = [i \in DOMAIN m |-> m[i]]
      BY <3>a, MemcpyRange, Zenon
    <3> HIDE DEF m, n
    <3> QED BY <3>1, <3>2, <3>3
  <2>3. ASSUME NEW i \in DOMAIN m
        PROVE  \/ i \in DOMAIN kernel /\ m[i] = kernel[i]
               \/ /\ i \in offset .. offset + n - 1
                  /\ i - offset + 1 \in 1 .. n /\ m[i] = out[i - offset + 1]
    BY <1>2, <2>2, MemcpyUnit
  <2> HIDE DEF m
  <2>4. DOMAIN m = 0 .. (offset + n) - 1
    BY <1>2, <1>3, <2>2
  <2>5. ASSUME clean, NEW i \in DOMAIN m PROVE m[i] = KernelUnit(i)
    <3>1. CASE i \in DOMAIN kernel /\ m[i] = kernel[i]
      BY <1>3, <2>5, <3>1
    <3>2. CASE /\ i \in offset .. offset + n - 1
               /\ i - offset + 1 \in 1 .. n /\ m[i] = out[i - offset + 1]
      <4>1. out[i - offset + 1] = KernelUnit(offset + (i - offset + 1) - 1)
        BY <1>3, <2>5, <3>2
      <4>2. offset + (i - offset + 1) - 1 = i
        BY <1>2, <3>2
      <4> QED BY <3>2, <4>1, <4>2
    <3> QED BY <2>3, <3>1, <3>2
  <2>6. kernel' = m
    BY <1>5 DEF m
  <2> QED BY <1>1, <1>3, <1>5, <2>2, <2>4, <2>5, <2>6 DEF PlaceInv
<1> QED BY <1>4, <1>5 DEF ChunkRead

LEMMA PlaceKeeps ==
  ASSUME ChunksFit, DriverInv, BuffersOk, LostInv, Stage2Inv, LookupInv, LoadInv,
         PlaceInv, [Stage2Next]_allVars
  PROVE  PlaceInv'
<1>1. CASE DiskInitializeFails \/ Initialize \/ OpenKernel \/ Lookup
  <2>1. stage' \in {"end", "open", "opening"} /\ UNCHANGED <<kernel, clean>>
    BY <1>1 DEF DiskInitializeFails, Initialize, OpenKernel, Lookup
  <2> QED BY <2>1 DEF PlaceInv
<1>2. CASE KernelOpened
  <2>1. /\ stage = "opening" /\ stage' = "load"
        /\ UNCHANGED <<kernel, offset, clean, lost>>
    BY <1>2 DEF KernelOpened, OpenReturn, NotFound
  <2>2. fd' # NoFile => files'[fd'].Position = 0 /\ fd' \notin lost
    <3>1. CASE OpenReturn /\ fd' = cur
      <4>1. files' = files /\ pc = "open" /\ path = <<>>
        BY <3>1 DEF OpenReturn
      <4>2. fd' # NoFile => cur \in Handles /\ files[cur].Position = 0
        BY <2>1, <3>1, <4>1, PathOfKernel DEF LookupInv
      <4> QED BY <3>1, <4>1, <4>2 DEF LostInv
    <3>2. CASE fd' = NoFile
      BY <3>2
    <3> QED BY <1>2, <3>1, <3>2 DEF KernelOpened
  <2>3. offset = 0 /\ DOMAIN kernel = {}
    BY <2>1 DEF LoadInv
  <2>4. DOMAIN kernel = 0 .. offset - 1
    BY <2>3
  <2> QED BY <2>1, <2>2, <2>3, <2>4 DEF PlaceInv
<1>3. CASE ReadChunk
  <2>1. /\ stage = "load" /\ stage' = "reading" /\ fd # NoFile /\ out' = out
        /\ want' = Bounded(files[fd], MEMORY_LOAD_SIZE)
        /\ UNCHANGED <<files, fd, kernel, offset, clean, lost>>
    BY <1>3 DEF ReadChunk, FAT_Read
  <2>2. /\ KernelEntry.Size \in Nat /\ files[fd].Position \in 0 .. KernelEntry.Size
        /\ want' = Min2(MEMORY_LOAD_SIZE, KernelEntry.Size - files[fd].Position)
    BY <2>1, KernelLeft
  <2>3. out = <<>> /\ offset = files[fd].Position /\ offset \in Nat
    BY <2>1 DEF LoadInv, PlaceInv, Stage2Inv, Stage2TypeOK
  <2>4. Len(out') = 0
    BY <2>1, <2>3
  <2>5. want' <= MEMORY_LOAD_SIZE /\ want' <= KernelEntry.Size /\ want' \in Nat
    BY <2>2, Stage2Assumption DEF Min2
  <2>6. /\ offset' + Len(out') = files'[fd'].Position
        /\ Len(out') + want' <= MEMORY_LOAD_SIZE /\ Len(out') + want' <= KernelEntry.Size
        /\ \A j \in 1 .. Len(out') : FALSE
    BY <2>1, <2>3, <2>4, <2>5
  <2>7. want' = Bounded(files'[fd'], MEMORY_LOAD_SIZE)
    BY <2>1 DEF Bounded
  <2> QED BY <2>1, <2>6, <2>7 DEF PlaceInv
<1>4. CASE ReadNull
  BY <1>4 DEF ReadNull, vars, readVars, PlaceInv
<1>5. CASE Reading
  BY <1>5, PlaceKeepsReading
<1>6. CASE ChunkRead
  BY <1>6, PlaceKeepsChunkRead
<1>7. CASE CloseAndJump \/ CloseNull
  <2>1. /\ stage = "close" /\ stage' \in {"kernel", "wild"}
        /\ UNCHANGED <<fd, kernel, offset, clean, lost>>
        /\ stage' = "wild" => fd = NoFile
    BY <1>7 DEF CloseAndJump, CloseNull, FAT_Close
  <2> QED BY <2>1 DEF PlaceInv
<1>8. CASE UNCHANGED allVars
  BY <1>8 DEF allVars, vars, readVars, startVars, PlaceInv, Bounded
<1> QED BY <1>1, <1>2, <1>3, <1>4, <1>5, <1>6, <1>7, <1>8 DEF Stage2Next, Loading, Done

LEMMA LoaderBuffers == Stage2Spec => []BuffersOk
<1>1. Spec => [](BufferUnderCursor /\ NoForeignSector)
  BY BuffersCorrect
<1> QED BY <1>1, LoaderIsClient, BuffersOkMeans, PTL

LEMMA LoaderLost == Stage2Spec => []LostInv
BY LostOnBadSectors, LoaderIsClient, PTL

LEMMA LoaderKeepsToKernel == Stage2Spec => [](LookupInv /\ LoadInv)
<1>1. Stage2Init => LookupInv /\ LoadInv
  BY LoadInitInv
<1>2. DriverInv /\ BuffersOk /\ Stage2Inv /\ LookupInv /\ LoadInv /\ [Stage2Next]_allVars
        => (LookupInv /\ LoadInv)'
  BY LookupKeeps, LoadKeeps
<1> QED BY <1>1, <1>2, LoaderAndDriver, LoaderBuffers, PTL DEF Stage2Spec

\* Whatever reads failed, only the kernel file's data reaches its memory: the
\* search stays in the root directory, the entry it ends with is the kernel's,
\* and the handle opened from it never leaves that file's chain.
THEOREM OnlyKernelIsLoaded == Stage2Spec => []OnlyKernelData
<1>1. LoadInv => OnlyKernelData
  BY DEF LoadInv, OnlyKernelData, KernelSectors, KernelFile, EntryFile
<1> QED BY <1>1, LoaderKeepsToKernel, PTL

LEMMA LoaderKeepsPlaces ==
  ASSUME ChunksFit PROVE Stage2Spec => []PlaceInv
<1>1. Stage2Init => PlaceInv
  BY LoadInitInv
<1>2. DriverInv /\ BuffersOk /\ LostInv /\ Stage2Inv /\ LookupInv /\ LoadInv /\ PlaceInv
        /\ [Stage2Next]_allVars => PlaceInv'
  BY PlaceKeeps
<1> QED BY <1>1, <1>2, LoaderAndDriver, LoaderBuffers, LoaderLost, LoaderKeepsToKernel, PTL
        DEF Stage2Spec

\* If no chunk is as long as memcpy's count can say, the destination keeps pace
\* with the file, also when reads were cut short.
THEOREM DestinationKeepsPace ==
  ASSUME ChunksFit PROVE Stage2Spec => []OffsetIsPosition
<1>1. PlaceInv /\ Stage2Inv => OffsetIsPosition
  BY DEF PlaceInv, OffsetIsPosition
<1> QED BY <1>1, LoaderKeepsPlaces, LoaderInvariant, PTL

\* Under the same condition the kernel is entered with its whole image in place
\* when no sector read of that file has failed.
THEOREM WholeKernelLoaded ==
  ASSUME ChunksFit PROVE Stage2Spec => []WholeKernelUnlessReadFails
<1>1. PlaceInv => WholeKernelUnlessReadFails
  <2> SUFFICES ASSUME PlaceInv, stage = "kernel", clean, fd # NoFile
               PROVE  kernel = Image(KernelFile)
    BY DEF WholeKernelUnlessReadFails
  <2>1. /\ DOMAIN kernel = 0 .. KernelEntry.Size - 1
        /\ \A i \in DOMAIN kernel : kernel[i] = KernelUnit(i)
        /\ kernel = [i \in DOMAIN kernel |-> kernel[i]]
    BY DEF PlaceInv
  <2>2. kernel = [i \in 0 .. KernelEntry.Size - 1 |-> KernelUnit(i)]
    BY <2>1
  <2>3. KernelFile.Size = KernelEntry.Size /\ KernelFile.FirstCluster = KernelEntry.FirstCluster
    BY DEF KernelFile, EntryFile
  <2> QED BY <2>2, <2>3 DEF Image, KernelUnit
<1> QED BY <1>1, LoaderKeepsPlaces, PTL

\* A read of the kernel can only fail on a bad sector of its own.
LEMMA ReadsOfGoodKernel ==
  ASSUME ~OnBadSector(KernelEntry.FirstCluster) PROVE Stage2Spec => []clean
<1>1. Stage2Init => clean
  BY DEF Stage2Init
<1>2. /\ Stage2Inv /\ Stage2Inv' /\ LoadInv' /\ LostInv'
      /\ clean /\ [Stage2Next]_allVars
      => clean'
  <2> SUFFICES ASSUME Stage2Inv, Stage2Inv', LoadInv', LostInv', clean, [Stage2Next]_allVars
               PROVE  clean'
    OBVIOUS
  <2>1. CASE Reading
    <3>1. /\ stage' = "reading" /\ fd' = fd /\ cur = fd
          /\ clean' = (clean /\ cur \notin lost')
      BY <2>1 DEF Reading, Stage2Inv
    <3>2. fd' # NoFile
      BY <3>1 DEF Stage2Inv
    <3>3. fd' \in Handles /\ files'[fd'].FirstCluster = KernelEntry.FirstCluster
      BY <3>1, <3>2 DEF LoadInv, OnKernel
    <3>4. fd' \notin lost'
      BY <3>3 DEF LostInv
    <3> QED BY <3>1, <3>4
  <2>2. CASE ~Reading
    BY <2>2 DEF Stage2Next, Loading, Done, DiskInitializeFails, Initialize, OpenKernel,
                Lookup, KernelOpened, ReadChunk, ReadNull, ChunkRead, CloseAndJump,
                CloseNull, startVars, allVars
  <2> QED BY <2>1, <2>2
<1> QED BY <1>1, <1>2, LoaderInvariant, LoaderKeepsToKernel, LoaderLost, PTL DEF Stage2Spec

\* A kernel without a bad sector is entered only when it has been loaded
\* completely, wherever else the disk fails: a failed read of the root directory
\* or of the table may keep start() from the kernel, but never gives it a part.
THEOREM GoodKernelLoaded ==
  ASSUME ChunksFit, ~OnBadSector(KernelEntry.FirstCluster)
  PROVE  Stage2Spec => []StartsOnlyWholeKernel
<1>1. WholeKernelUnlessReadFails /\ clean => StartsOnlyWholeKernel
  BY DEF WholeKernelUnlessReadFails, StartsOnlyWholeKernel
<1> QED BY <1>1, WholeKernelLoaded, ReadsOfGoodKernel, PTL

-----------------------------------------------------------------------------
(* FAT_Open's NULL: only for a kernel that is not there.                   *)

RootSlot(i) == <<RootDirLba + i \div SECTOR_SIZE, i % SECTOR_SIZE>>

\* While no read of the lookup has failed, the search has looked at every entry
\* before the root's cursor and the buffer holds the sector of the next.
FoundInv ==
  /\ stage = "opening" /\ pc = "find" /\ sound =>
       /\ files[ROOT].Buffer = RootDirLba + SectorIndex(files[ROOT])
       /\ \A i \in 0 .. files[ROOT].Position - 1 : ~Matches(RootSlot(i), fatName)
  /\ stage = "opening" /\ pc = "open" /\ path = <<>> /\ sound => cur # NoFile
  /\ KernelIsFound

\* A successful read of the root directory brings the sector under its cursor.
LEMMA RootSectorRead ==
  ASSUME DriverInv, SearchStep, cur = ROOT, ROOT \notin lost',
         files[ROOT].Buffer = RootDirLba + SectorIndex(files[ROOT]),
         NEW r \in Iteration(ROOT, 1), lost' = LostAfter(ROOT, 1, r)
  PROVE  r.file.Buffer = RootDirLba + SectorIndex(r.file)
         /\ r.file.Position = files[ROOT].Position + 1
<1> DEFINE f == files[ROOT]
           e == [f EXCEPT !.Position = @ + 1]
           g == NextSector(ROOT, e)
<1>1. /\ f \in FileData /\ RootCursor(f) /\ 1 \in 1 .. LeftInBuffer(f)
      /\ f.Position + 1 <= f.Size
  BY SearchedRoot
<1>2. r.file.Position = f.Position + 1 /\ RootCursor(r.file)
  BY <1>1, IterationOnRoot
<1>3. CASE 1 < LeftInBuffer(f)
  <2>1. r.file = e
    BY <1>3 DEF Iteration
  <2>2. e.Buffer = f.Buffer /\ e.CurrentCluster = f.CurrentCluster
    BY <1>1 DEF FileData
  <2> QED BY <1>1, <1>2, <2>1, <2>2 DEF RootCursor
<1>4. CASE ~(1 < LeftInBuffer(f))
  <2>1. r.end # "error"
    BY <1>4 DEF LostAfter
  <2>2. PICK d \in DISK_ReadSectors(SectorUnderCursor(ROOT, g), g.Buffer) :
          r = [file |-> [g EXCEPT !.Buffer = d.buffer],
               end |-> IF d.ok THEN "go" ELSE "error"]
    BY <1>4 DEF Iteration
  <2>3. d.ok /\ d.buffer = g.CurrentCluster
    BY <2>1, <2>2 DEF DISK_ReadSectors, SectorUnderCursor
  <2>4. g \in FileData
    <3>1. e \in FileData
      BY <1>1 DEF FileData
    <3> HIDE DEF e
    <3>2. g = [e EXCEPT !.CurrentCluster = @ + 1]
      BY DEF NextSector
    <3> QED BY <3>1, <3>2 DEF FileData
  <2>5. r.file.Buffer = g.CurrentCluster /\ r.file.CurrentCluster = g.CurrentCluster
    BY <2>2, <2>3, <2>4 DEF FileData
  <2> QED BY <1>2, <2>5 DEF RootCursor
<1> QED BY <1>2, <1>3, <1>4

\* A search of the root directory that ends without the name has seen them all.
LEMMA RootSearchedAll ==
  ASSUME DriverInv, NotFound, cur = ROOT,
         \A i \in 0 .. files[ROOT].Position - 1 : ~Matches(RootSlot(i), fatName)
  PROVE  ~NameIsIn(ROOT, fatName)
<1> DEFINE f == files[ROOT]
<1>1. f \in FileData /\ RootCursor(f) /\ Bounded(f, 1) = 0
  BY Searched DEF NotFound, CursorOk
<1>2. f.Position = DirEntryCount
  BY <1>1, Constants DEF Bounded, Min2, RootCursor, FileData
<1> QED BY <1>2 DEF NameIsIn, DirectorySlots, RootSlots, RootSlot

LEMMA FoundKeeps ==
  ASSUME DriverInv, Stage2Inv, LookupInv, FoundInv, [Stage2Next]_allVars PROVE FoundInv'
<1>0. files \in [AllHandles -> FileData] /\ ROOT \in AllHandles /\ NoFile # ROOT
  BY HandleFacts DEF DriverInv, TypeOK
<1>1. CASE DiskInitializeFails \/ Initialize \/ OpenKernel
  <2>1. /\ stage' \in {"end", "open", "opening"} /\ pc' # "find"
        /\ stage' = "opening" => cur' = ROOT
    BY <1>1 DEF DiskInitializeFails, Initialize, OpenKernel, FAT_Initialize,
                FAT_InitializeFails, FAT_Open
  <2> QED BY <1>0, <2>1 DEF FoundInv, KernelIsFound
<1>2. CASE Lookup
  <2>1. /\ stage = "opening" /\ stage' = "opening"
        /\ sound' = (sound /\ ~LookupReadFails)
    BY <1>2 DEF Lookup
  <2>2. KernelIsFound'
    BY <2>1 DEF KernelIsFound
  <2>3. CASE OpenComponent
    <3>1. /\ pc = "open" /\ path # <<>> /\ cur # NoFile /\ pc' = "find" /\ files' = files
      BY <2>3 DEF OpenComponent
    <3>2. RootFresh
      BY <2>1, <3>1 DEF LookupInv
    <3>3. SectorIndex(files[ROOT]) = 0
      BY <3>2, Constants DEF RootFresh, SectorIndex
    <3>4. files'[ROOT].Buffer = RootDirLba + SectorIndex(files'[ROOT])
      BY <3>1, <3>2, <3>3, Constants DEF RootFresh
    <3>5. files'[ROOT].Position = 0
      BY <3>1, <3>2 DEF RootFresh
    <3>6. 0 .. files'[ROOT].Position - 1 = {}
      BY <3>5
    <3> QED BY <2>2, <3>1, <3>4, <3>6 DEF FoundInv, SectorIndex
  <2>4. CASE OpenFault
    BY <2>2, <2>4 DEF OpenFault, FoundInv
  <2>5. CASE SearchStep
    <3>1. pc = "find" /\ cur = ROOT
      BY <2>1, <2>5 DEF SearchStep, LookupInv
    <3>2. PICK r \in Iteration(ROOT, 1) :
            /\ lost' = LostAfter(ROOT, 1, r)
            /\ \/ pc' = "enter"
               \/ /\ ~Matches(EntryAt(files[ROOT]), fatName)
                  /\ files' = [files EXCEPT ![ROOT] = r.file]
                  /\ UNCHANGED <<pc, cur, fatName, entry>>
      BY <2>5, <3>1 DEF SearchStep
    <3>3. CASE pc' = "enter"
      BY <2>2, <3>3 DEF FoundInv
    <3>4. CASE /\ ~Matches(EntryAt(files[ROOT]), fatName)
               /\ files' = [files EXCEPT ![ROOT] = r.file]
               /\ UNCHANGED <<pc, cur, fatName, entry>>
      <4> SUFFICES ASSUME sound'
                   PROVE  /\ files'[ROOT].Buffer = RootDirLba + SectorIndex(files'[ROOT])
                          /\ \A i \in 0 .. files'[ROOT].Position - 1 :
                                 ~Matches(RootSlot(i), fatName)
        BY <2>1, <2>2, <3>1, <3>4 DEF FoundInv, SectorIndex, RootSlot, Matches
      <4>1. sound /\ ROOT \notin lost'
        BY <2>1, <3>1 DEF LookupReadFails
      <4>2. /\ files[ROOT].Buffer = RootDirLba + SectorIndex(files[ROOT])
            /\ \A i \in 0 .. files[ROOT].Position - 1 : ~Matches(RootSlot(i), fatName)
        BY <2>1, <3>1, <4>1 DEF FoundInv
      <4>3. r.file.Buffer = RootDirLba + SectorIndex(r.file)
            /\ r.file.Position = files[ROOT].Position + 1
        BY <2>5, <3>1, <3>2, <4>1, <4>2, RootSectorRead
      <4>4. files'[ROOT] = r.file
        BY <1>0, <3>4
      <4>5. EntryAt(files[ROOT]) = RootSlot(files[ROOT].Position)
        BY <4>2 DEF EntryAt, RootSlot, SectorIndex
      <4>6. files[ROOT].Position \in Nat
        BY <1>0 DEF FileData
      <4>7. \A i \in 0 .. (files[ROOT].Position + 1) - 1 :
              i \in 0 .. files[ROOT].Position - 1 \/ i = files[ROOT].Position
        BY <4>6
      <4> QED BY <3>4, <4>2, <4>3, <4>4, <4>5, <4>7
    <3> QED BY <3>2, <3>3, <3>4
  <2>6. CASE FAT_OpenEntry
    <3>1. pc = "enter" /\ pc' = "open" /\ held = {}
      BY <2>1, <2>6 DEF FAT_OpenEntry, Stage2Inv
    <3>2. FreeHandles # {}
      <4>1. {h \in Handles : files[h].Opened} = {}
        BY <3>1 DEF DriverInv, OpenedIffOwned, Running
      <4>2. 0 \in Handles
        BY DriverAssumption DEF Handles
      <4> QED BY <4>1, <4>2 DEF FreeHandles
    <3>3. sound' => cur' # NoFile
      BY <2>1, <3>1, <3>2 DEF LookupReadFails
    <3> QED BY <2>2, <3>1, <3>3 DEF FoundInv
  <2> QED BY <1>2, <2>3, <2>4, <2>5, <2>6 DEF Lookup
<1>3. CASE KernelOpened
  <2>1. stage = "opening" /\ stage' = "load" /\ sound' = sound
    BY <1>3 DEF KernelOpened
  <2>2. CASE OpenReturn /\ fd' = cur
    <3>1. pc = "open" /\ path = <<>>
      BY <2>2 DEF OpenReturn
    <3> QED BY <2>1, <2>2, <3>1 DEF FoundInv, KernelIsFound
  <2>3. CASE NotFound /\ fd' = NoFile
    <3>1. pc = "find"
      BY <2>3 DEF NotFound
    <3>2. cur = ROOT /\ fatName \in Spellings[KernelPath[1]]
      BY <2>1, <3>1 DEF LookupInv
    <3>3. sound => ~NameIsIn(ROOT, fatName)
      BY <2>1, <2>3, <3>1, <3>2, RootSearchedAll DEF FoundInv
    <3>4. \A name : NameIsIn(ROOT, name)' = NameIsIn(ROOT, name)
      BY DEF NameIsIn, DirectorySlots, Matches, RootSlots
    <3>5. KernelIsFound'
      BY <2>1, <3>2, <3>3, <3>4 DEF KernelIsFound
    <3> QED BY <2>1, <3>5 DEF FoundInv
  <2> QED BY <1>3, <2>2, <2>3 DEF KernelOpened
<1>4. ASSUME \/ ReadChunk \/ ReadNull \/ Reading \/ ChunkRead
             \/ CloseAndJump \/ CloseNull
      PROVE FoundInv'
  <2>1. /\ stage \in {"load", "reading", "close"} /\ stage' # "opening"
        /\ fd' = fd /\ sound' = sound
        /\ stage = "reading" => fd # NoFile
    BY <1>4 DEF ReadChunk, ReadNull, Reading, ChunkRead, CloseAndJump, CloseNull, Stage2Inv
  <2>2. \A name : NameIsIn(ROOT, name)' = NameIsIn(ROOT, name)
    BY DEF NameIsIn, DirectorySlots, Matches, RootSlots
  <2>3. KernelIsFound'
    BY <2>1, <2>2 DEF FoundInv, KernelIsFound
  <2> QED BY <2>1, <2>3 DEF FoundInv
<1>5. CASE UNCHANGED allVars
  BY <1>5 DEF allVars, vars, openVars, startVars, FoundInv, KernelIsFound, NameIsIn,
              DirectorySlots, Matches, RootSlots, RootSlot, SectorIndex
<1> QED BY <1>1, <1>2, <1>3, <1>4, <1>5 DEF Stage2Next, Loading, Done

\* FAT_Open answers NULL only for a kernel that the root directory lacks or
\* after a failed read: neither the stale buffer of the root handle nor a handle
\* nobody gave back makes start() read through NULL.
THEOREM KernelFound == Stage2Spec => []KernelIsFound
<1>1. Stage2Init => FoundInv
  BY DEF Stage2Init, FoundInv, KernelIsFound
<1>2. DriverInv /\ Stage2Inv /\ LookupInv /\ FoundInv /\ [Stage2Next]_allVars => FoundInv'
  BY FoundKeeps
<1>3. FoundInv => KernelIsFound
  BY DEF FoundInv
<1> QED BY <1>1, <1>2, <1>3, LoaderAndDriver, LoaderKeepsToKernel, PTL DEF Stage2Spec
=============================================================================
