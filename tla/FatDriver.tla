------------------------------ MODULE FatDriver ------------------------------
(***************************************************************************)
(* The FAT12 driver of the second-stage loader (stage2/fat.c): ten file    *)
(* handles and one root-directory handle, each with a one-sector buffer    *)
(* and a cursor into a cluster chain; path lookup that opens and closes    *)
(* directory handles on the way; reads that advance the cursor one sector  *)
(* ahead of the caller.                                                    *)
(***************************************************************************)
EXTENDS FatVolume, FiniteSets

CONSTANTS
  MAX_FILE_HANDLES,
  Spellings,           \* component -> the names FAT_FindFile may compare with
  Paths,               \* what the client passes to FAT_Open
  ReadSizes,           \* what the client passes to FAT_Read
  BadSectors,          \* the LBAs DISK_ReadSectors may return false for
  TORN                 \* a buffer a failed transfer left half written

NoFile == -2           \* the NULL FAT_File pointer
Handles == 0 .. MAX_FILE_HANDLES - 1

ASSUME DriverAssumption ==
  /\ MAX_FILE_HANDLES \in Nat \ {0}
  /\ BadSectors \subseteq Nat
  /\ TORN \notin Int

\* FatName says which: the 8.3 name, or that of the component with a byte more.
ASSUME NameAssumption ==
  /\ Name # {}
  /\ Spellings \in [DOMAIN Spellings -> SUBSET Name]

ASSUME ClientAssumption ==
  /\ Paths \subseteq Seq(DOMAIN Spellings)
  /\ ReadSizes \subseteq Nat

-----------------------------------------------------------------------------

VARIABLES
  files,   \* handle -> FAT_FileData (Buffer is the LBA it was read from)
  pc,      \* where the driver is between two disk reads or calls
  cur,     \* FAT_Open: current
  path,    \* FAT_Open: components still to resolve
  fatName, \* FAT_FindFile: the name compared with the entries
  entry,   \* FAT_FindFile: *entryOut
  want,    \* FAT_Read: byteCount
  out,     \* FAT_Read: the units this call copied to dataOut
  held,    \* handles the client got from FAT_Open and has not closed
  lost     \* ghost: handles whose last sector read failed

openVars == <<cur, path, fatName, entry>>
readVars == <<want, out>>
vars == <<files, pc, openVars, readVars, held, lost>>

AllHandles == Handles \cup {ROOT}

FileData ==
  [Opened : BOOLEAN, IsDirectory : BOOLEAN, Position : Nat, Size : Nat,
   FirstCluster : Nat, CurrentCluster : Nat, CurrentSectorInCluster : Nat,
   Buffer : Int \cup {TORN}]

NoEntry ==
  [Name |-> CHOOSE n \in Name : TRUE, IsDirectory |-> FALSE,
   FirstCluster |-> 0, Size |-> 0]

Blank(opened) ==
  [Opened |-> opened, IsDirectory |-> FALSE, Position |-> 0, Size |-> 0,
   FirstCluster |-> 0, CurrentCluster |-> 0, CurrentSectorInCluster |-> 0,
   Buffer |-> TORN]

\* g_Data points at memory nobody cleared: an Opened flag may hold anything.
Init ==
  /\ \E flags \in [AllHandles -> BOOLEAN] :
       files = [h \in AllHandles |-> Blank(flags[h])]
  /\ pc = "boot"
  /\ cur = NoFile /\ path = <<>>
  /\ entry = NoEntry /\ fatName = NoEntry.Name
  /\ want = 0 /\ out = <<>>
  /\ held = {} /\ lost = {}

\* Result of DISK_ReadSectors(disk, lba, 1, buffer) over a buffer that held
\* old: after three failed attempts the buffer is as it was or half written.  A
\* bad sector may be read or not, each time anew.
DISK_ReadSectors(lba, old) ==
  {[ok |-> TRUE, buffer |-> lba]} \cup
  (IF lba \in BadSectors
   THEN {[ok |-> FALSE, buffer |-> b] : b \in {old, TORN}} ELSE {})

-----------------------------------------------------------------------------
(* FAT_Initialize.                                                         *)

RootFile(buffer) ==
  [Opened |-> TRUE, IsDirectory |-> TRUE, Position |-> 0,
   Size |-> DirEntryCount, FirstCluster |-> RootDirLba,
   CurrentCluster |-> RootDirLba, CurrentSectorInCluster |-> 0,
   Buffer |-> buffer]

\* Deviation: the loop that marks the handles as closed forgotten.
InitializeRootOnly ==
  /\ pc = "boot" /\ FatFits
  /\ files' = [files EXCEPT ![ROOT] = RootFile(RootDirLba)]
  /\ pc' = "idle"
  /\ UNCHANGED <<openVars, readVars, held, lost>>

FAT_Initialize ==
  /\ pc = "boot" /\ FatFits
  /\ files' = [h \in AllHandles |->
                 IF h = ROOT THEN RootFile(RootDirLba)
                             ELSE [files[h] EXCEPT !.Opened = FALSE]]
  /\ pc' = "idle"
  /\ UNCHANGED <<openVars, readVars, held, lost>>

\* The boot sector and the table, read before the root handle is set up.
TableSectors ==
  {0} \cup ReservedSectors .. ReservedSectors + SectorsPerFat - 1

\* No room for the table, or one of the reads fails; only the last of them
\* comes after the root handle is set up.  start() then stops.
FAT_InitializeFails ==
  /\ pc = "boot"
  /\ \/ /\ ~FatFits \/ BadSectors \cap TableSectors # {}
        /\ files' = files
     \/ /\ FatFits /\ RootDirLba \in BadSectors
        /\ \E b \in {files[ROOT].Buffer, TORN} :
             files' = [files EXCEPT ![ROOT] = RootFile(b)]
  /\ pc' = "halt"
  /\ UNCHANGED <<openVars, readVars, held, lost>>

-----------------------------------------------------------------------------
(* FAT_Read: the bound, and one iteration of the copy loop.                *)

\* Deviation: the whole size as the bound, wherever the cursor is.
BoundedBySize(f, n) ==
  IF ~f.IsDirectory \/ f.Size # 0 THEN Min2(n, f.Size) ELSE n

\* Deviation: the bound applied to directories of size 0 as well.
BoundedAlways(f, n) == Min2(n, f.Size - f.Position)

\* byteCount after "don't read past the end of the file".
Bounded(f, n) ==
  IF ~f.IsDirectory \/ f.Size # 0 THEN Min2(n, f.Size - f.Position) ELSE n

\* Copy take units; at the end of the sector move on and read the next one,
\* or mark the end of the file.  The set of outcomes: the file, and how the
\* loop goes on.
Iteration(h, take) ==
  LET f == [files[h] EXCEPT !.Position = @ + take]
      g == NextSector(h, f)
  IN IF take < LeftInBuffer(files[h])
     THEN {[file |-> f, end |-> "go"]}
     ELSE IF h # ROOT /\ g.CurrentCluster >= EndOfChain
     THEN {[file |-> [g EXCEPT !.Size = g.Position], end |-> "eof"]}
     ELSE {[file |-> [g EXCEPT !.Buffer = r.buffer],
            end |-> IF r.ok THEN "go" ELSE "error"] :
             r \in DISK_ReadSectors(SectorUnderCursor(h, g), g.Buffer)}

\* The handles with a bad buffer after an iteration of h that ended like r.
LostAfter(h, take, r) ==
  IF take < LeftInBuffer(files[h]) THEN lost
  ELSE IF r.end = "error" THEN lost \cup {h} ELSE lost \ {h}

\* Deviation: copy from the start of the buffer.
CopiedFromStart(f, take) == [i \in 1 .. take |-> <<f.Buffer, i - 1>>]

\* The units an iteration copies.
Copied(f, take) ==
  [i \in 1 .. take |-> <<f.Buffer, (f.Position % SECTOR_SIZE) + i - 1>>]


\* The handle FAT_Read works on is kept in cur while the call lasts.
FAT_Read(h, n) ==
  /\ pc = "idle" /\ h \in held
  /\ want' = Bounded(files[h], n)
  /\ cur' = h /\ pc' = "read"
  /\ UNCHANGED <<files, path, fatName, entry, out, held, lost>>

ReadLoop ==
  /\ pc = "read" /\ want > 0
  /\ LET take == Min2(want, LeftInBuffer(files[cur])) IN
       \E r \in Iteration(cur, take) :
         /\ files' = [files EXCEPT ![cur] = r.file]
         /\ want' = IF r.end = "go" THEN want - take ELSE 0
         /\ out' = out \o Copied(files[cur], take)
         /\ lost' = LostAfter(cur, take, r)
  /\ UNCHANGED <<pc, openVars, held>>

ReadReturn ==
  /\ pc = "read" /\ want = 0
  /\ pc' = "idle" /\ cur' = NoFile /\ out' = <<>>
  /\ UNCHANGED <<files, path, fatName, entry, want, held, lost>>

-----------------------------------------------------------------------------
(* FAT_Close.                                                              *)

\* Deviation: only the root handle is given back.
ClosedRootOnly(h, f) ==
  IF h = ROOT
  THEN [f EXCEPT !.Position = 0, !.CurrentCluster = f.FirstCluster]
  ELSE f

\* The root handle is rewound, any other is released; buffers are not touched.
Closed(h, f) ==
  IF h = ROOT
  THEN [f EXCEPT !.Position = 0, !.CurrentCluster = f.FirstCluster]
  ELSE [f EXCEPT !.Opened = FALSE]

FAT_Close(h) ==
  /\ pc = "idle" /\ h \in held
  /\ files' = [files EXCEPT ![h] = Closed(h, @)]
  /\ held' = held \ {h}
  /\ UNCHANGED <<pc, openVars, readVars, lost>>

-----------------------------------------------------------------------------
(* FAT_Open: resolve the path one component at a time.                     *)

FAT_Open(p) ==
  /\ pc = "idle"
  /\ path' = p /\ cur' = ROOT /\ pc' = "open"
  /\ UNCHANGED <<files, fatName, entry, readVars, held, lost>>

\* The path is used up: return current, which is NULL when the last
\* FAT_OpenEntry failed.
OpenReturn ==
  /\ pc = "open" /\ path = <<>>
  /\ held' = held \cup ({cur} \ {NoFile})
  /\ pc' = "idle" /\ cur' = NoFile
  /\ UNCHANGED <<files, path, fatName, entry, readVars, lost>>

\* Copy the next component.  The terminator is stored one byte too far, so
\* FAT_FindFile may see one uninitialised byte more: any of its spellings.
OpenComponent ==
  /\ pc = "open" /\ path # <<>> /\ cur # NoFile
  /\ fatName' \in Spellings[Head(path)]
  /\ path' = Tail(path)
  /\ pc' = "find"
  /\ UNCHANGED <<files, cur, entry, readVars, held, lost>>

\* The result of FAT_OpenEntry is not checked: FAT_FindFile(NULL) reads
\* through address 0, and nothing is known of the driver any more.
OpenFault ==
  /\ pc = "open" /\ path # <<>> /\ cur = NoFile
  /\ pc' = "fault"
  /\ UNCHANGED <<files, openVars, readVars, held, lost>>

EntryAt(f) == <<f.Buffer, f.Position % SECTOR_SIZE>>

\* Deviation: an entry that does not match is looked at again.
SearchStepStuck ==
  /\ pc = "find" /\ Bounded(files[cur], 1) = 1
  /\ \E r \in Iteration(cur, 1) :
       /\ lost' = LostAfter(cur, 1, r)
       /\ LET at == EntryAt(files[cur]) IN
          \/ /\ Matches(at, fatName)
             /\ files' = [files EXCEPT ![cur] = Closed(cur, r.file)]
             /\ entry' = Entry[at] /\ fatName' = NoEntry.Name
             /\ cur' = NoFile /\ pc' = "enter"
          \/ /\ ~Matches(at, fatName)
             /\ UNCHANGED <<files, pc, cur, fatName, entry>>
  /\ UNCHANGED <<path, readVars, held>>

\* One round of the loop in FAT_FindFile: FAT_ReadEntry, compare; when the
\* names agree FAT_Open closes the directory and goes on to FAT_OpenEntry.
SearchStep ==
  /\ pc = "find" /\ Bounded(files[cur], 1) = 1
  /\ \E r \in Iteration(cur, 1) :
       /\ lost' = LostAfter(cur, 1, r)
       /\ LET at == EntryAt(files[cur]) IN
          \/ /\ Matches(at, fatName)
             /\ files' = [files EXCEPT ![cur] = Closed(cur, r.file)]
             /\ entry' = Entry[at] /\ fatName' = NoEntry.Name
             /\ cur' = NoFile /\ pc' = "enter"
          \/ /\ ~Matches(at, fatName)
             /\ files' = [files EXCEPT ![cur] = r.file]
             /\ UNCHANGED <<pc, cur, fatName, entry>>
  /\ UNCHANGED <<path, readVars, held>>

\* FAT_ReadEntry came back short: close the directory, return NULL.
NotFound ==
  /\ pc = "find" /\ Bounded(files[cur], 1) = 0
  /\ files' = [files EXCEPT ![cur] = Closed(cur, @)]
  /\ path' = <<>> /\ fatName' = NoEntry.Name
  /\ cur' = NoFile /\ pc' = "idle"
  /\ UNCHANGED <<entry, readVars, held, lost>>

\* Deviation: any handle at position 0 taken for a free one.
HandlesAtStart == {h \in Handles : files[h].Position = 0}

FreeHandles == {h \in Handles : ~files[h].Opened}

\* The handle FAT_OpenEntry sets up from entry e, its buffer holding b.
EntryFile(e, opened, b) ==
  [Opened |-> opened, IsDirectory |-> e.IsDirectory, Position |-> 0,
   Size |-> e.Size, FirstCluster |-> e.FirstCluster,
   CurrentCluster |-> e.FirstCluster, CurrentSectorInCluster |-> 0,
   Buffer |-> b]

\* The "is a directory" test in front of this call compares
\* entry.Attributes & (FAT_ATTRIBUTE_DIRECTORY == 0) and never fires.
FAT_OpenEntry ==
  /\ pc = "enter"
  /\ \/ /\ FreeHandles = {}
        /\ cur' = NoFile
        /\ UNCHANGED <<files, lost>>
     \/ \E h \in FreeHandles :
          /\ \A i \in FreeHandles : h <= i
          /\ \E r \in DISK_ReadSectors(FAT_ClusterToLba(entry.FirstCluster),
                                       files[h].Buffer) :
               /\ files' = [files EXCEPT ![h] = EntryFile(entry, r.ok, r.buffer)]
               /\ cur' = IF r.ok THEN h ELSE NoFile
               /\ lost' = lost \ {h}
  /\ entry' = NoEntry
  /\ pc' = "open"
  /\ UNCHANGED <<path, fatName, readVars, held>>

-----------------------------------------------------------------------------

\* for (;;) at the end of start(), and whatever follows a null dereference.
Stopped == pc \in {"halt", "fault"} /\ UNCHANGED vars

Client ==
  \/ \E p \in Paths : FAT_Open(p)
  \/ \E h \in held, n \in ReadSizes : FAT_Read(h, n)
  \/ \E h \in held : FAT_Close(h)

Driver ==
  \/ OpenReturn \/ OpenComponent \/ OpenFault
  \/ SearchStep \/ NotFound \/ FAT_OpenEntry
  \/ ReadLoop \/ ReadReturn

Boot == FAT_Initialize \/ FAT_InitializeFails

Next == Boot \/ Client \/ Driver \/ Stopped

Spec == Init /\ [][Next]_vars

\* One processor runs the driver to completion; only the caller may pause.
FairSpec == Spec /\ WF_vars(Driver)

-----------------------------------------------------------------------------
(* What makes the driver correct.                                          *)

Running == pc \notin {"boot", "halt"}

\* Every variable has its type.
TypeOK ==
  /\ files \in [AllHandles -> FileData]
  /\ pc \in {"boot", "halt", "idle", "open", "find", "enter", "read", "fault"}
  /\ cur \in AllHandles \cup {NoFile}
  /\ path \in Seq(DOMAIN Spellings) /\ fatName \in Name
  /\ entry \in EntryRecord
  /\ want \in Nat /\ out \in Seq((Int \cup {TORN}) \X Nat)
  /\ held \subseteq AllHandles /\ lost \subseteq AllHandles

\* Ownership of handles, across every early return of FAT_Open: a handle is
\* marked Opened exactly when the client holds it or the open call in progress
\* is standing on it, never both.  So no failed open leaks a handle and
\* FAT_OpenEntry never hands out one that is in use.
OpenedIffOwned ==
  Running =>
    LET walking == IF pc \in {"open", "find"} THEN {cur} \cap Handles ELSE {} IN
    /\ {h \in Handles : files[h].Opened} = (held \cap Handles) \cup walking
    /\ held \cap walking = {}

IsEmptyFile(f) == ~f.IsDirectory /\ f.Size = 0 /\ f.Position = 0

\* The cursor of every open handle is the one its Position says, whatever
\* sequence of partial reads, directory walks and disk errors led there, and
\* Position never passes Size: so Size - Position never wraps and the table
\* is never indexed with an end mark.
CursorFollowsChain ==
  Running =>
    /\ LET root == files[ROOT] IN
       /\ root.IsDirectory /\ root.Size = DirEntryCount
       /\ root.FirstCluster = RootDirLba
       /\ root.CurrentCluster = RootDirLba + SectorIndex(root)
       /\ root.Position <= root.Size
    /\ \A h \in Handles :
         files[h].Opened => IsEmptyFile(files[h]) \/ FollowsChain(files[h])

\* The arguments of the call in progress: a search stands on an open directory,
\* a read on a handle of the client with no more to copy than the file has
\* left, an entry to be opened is one of the volume.
CallState ==
  /\ pc = "boot" => held = {}
  /\ pc = "open" => cur = NoFile \/ cur \notin held \/ cur = ROOT
  /\ pc = "find" => cur # NoFile
  /\ pc = "enter" => SoundEntry(entry)
  /\ pc = "read" =>
       /\ cur \in held
       /\ LET f == files[cur] IN
            (f.IsDirectory /\ f.Size = 0) \/ want <= f.Size - f.Position

\* The inductive invariant: types and cursors hold each other up, since a link
\* of the table is only followed from a cursor that is on its chain.
DriverInv == TypeOK /\ OpenedIffOwned /\ CursorFollowsChain /\ CallState

HasSector(f) ==
  /\ f.FirstCluster \in DOMAIN Chain
  /\ SectorIndex(f) < ChainSectors(f.FirstCluster)

\* The buffer of an open handle holds the sector under its cursor, except
\* after a read that reported an error: FAT_Read copies from the right sector.
BufferUnderCursor ==
  Running =>
    \A h \in Handles \ lost :
      files[h].Opened /\ HasSector(files[h]) =>
        files[h].Buffer = SectorOfChain(files[h].FirstCluster, SectorIndex(files[h]))

OwnSectors(c) == {SectorOfChain(c, n) : n \in 0 .. ChainSectors(c) - 1}

\* Even after disk errors an open handle buffers a sector of its own file or a
\* half-written one: a search or a read never sees another file's data.
NoForeignSector ==
  Running =>
    \A h \in Handles :
      files[h].Opened /\ files[h].FirstCluster \in DOMAIN Chain =>
        files[h].Buffer \in OwnSectors(files[h].FirstCluster) \cup {TORN}

\* No call disturbs a handle the client holds and did not pass to it: lookups
\* walk on handles of their own.  (The root handle is no such handle.)
HeldUndisturbed ==
  [][\A h \in held \cap Handles :
       files'[h] # files[h] => h = cur \/ h \notin held']_vars

Busy == {"open", "find", "enter", "read"}

\* Every call of the driver comes back (or dereferences NULL): a lookup
\* reaches the end of the directory, a read the end of the file.
CallsReturn == (pc \in Busy) ~> (pc \notin Busy)

\* The entries of the root directory, and of the directory open on handle h.
RootSlots ==
  {<<RootDirLba + i \div SECTOR_SIZE, i % SECTOR_SIZE>> : i \in 0 .. DirEntryCount - 1}

DirectorySlots(h) ==
  IF h = ROOT THEN RootSlots
  ELSE OwnSectors(files[h].FirstCluster) \X (0 .. SECTOR_SIZE - 1)

NameIsIn(h, name) == \E at \in DirectorySlots(h) : Matches(at, name)

\* The chain from cluster c goes through a sector that may not be readable.
OnBadSector(c) == c \in DOMAIN Chain /\ OwnSectors(c) \cap BadSectors # {}

\* A subdirectory all of whose sectors can be read is searched completely,
\* whatever reads of other files have failed: FAT_FindFile misses no entry of it.
SubdirectorySearchIsComplete ==
  [][NotFound /\ files[cur].IsDirectory /\ cur \in Handles
     /\ ~OnBadSector(files[cur].FirstCluster)
       => ~NameIsIn(cur, fatName)]_vars

\* "FAT: %s not found" is printed only for a name that is not in the directory
\* searched, the root directory included.
NotFoundMeansAbsent ==
  [][NotFound /\ files[cur].IsDirectory => ~NameIsIn(cur, fatName)]_vars
=============================================================================
