------------------------------- MODULE HostFat -------------------------------
(***************************************************************************)
(* The FAT reader of the host (tools/fat): an older copy of the driver     *)
(* over an image file, and a program that opens one path, lists it if it   *)
(* is a directory and reads it through if it is a file.                    *)
(*                                                                         *)
(* It differs from stage2/fat.c where it walks the root directory, whose   *)
(* first cluster is 0 here: behind its first sector it reads the image     *)
(* from LBA 1 on; and in that no read of a directory is bounded.  LBAs     *)
(* and positions are 32 bits wide, and such a walk comes to their end.     *)
(*                                                                         *)
(* Directories are closed before the next one is opened, so one handle     *)
(* (current in FAT_Open, fd in main) is all that is ever in use.           *)
(***************************************************************************)
EXTENDS FatVolume, FatName

CONSTANTS
  VolumeSectors,   \* length of the volume
  ImageLengths,    \* lengths of image files, which may be cut short
  LBA_RANGE,       \* LBAs whose byte offset fits 32 bits
  POSITION_RANGE,  \* positions, 2^32 bytes
  Arguments,       \* the paths given on the command line
  ReadSize,        \* units read at a time
  ListMax,         \* entries listed
  Garbage,         \* what the stack may hold where FAT_Open has its buffer
  NULL             \* no handle, no argument

FileData ==
  [Handle : {ROOT, 0}, IsDirectory : BOOLEAN, Position : Nat, Size : Nat,
   FirstCluster : Nat, CurrentCluster : Nat, CurrentSectorInCluster : Nat,
   Buffer : 0 .. LBA_RANGE - 1]

ASSUME HostAssumption ==
  /\ VolumeSectors \in 1 .. LBA_RANGE /\ LBA_RANGE \in Nat
  /\ RootDirLba < VolumeSectors /\ DataSectionLba <= VolumeSectors
  /\ \A c \in DOMAIN Chain : \A n \in 0 .. ChainSectors(c) - 1 :
       SectorOfChain(c, n) \in 0 .. VolumeSectors - 1
  /\ NULL \notin FileData /\ NULL \notin Seq(Component)
  /\ ImageLengths \subseteq 0 .. VolumeSectors
  /\ POSITION_RANGE \in Nat \ {0} /\ POSITION_RANGE % SECTOR_SIZE = 0
  /\ \A at \in DOMAIN Entry : Entry[at].Size < POSITION_RANGE
  /\ Arguments \subseteq Seq(Component)
  /\ Garbage \subseteq Buffer /\ Name = FatNames
  /\ ReadSize \in Nat \ {0} /\ ListMax \in 0 .. SECTOR_SIZE

VARIABLES
  image,    \* the length of the image file
  argument, \* argv[2]
  fd,       \* the handle in use, or NULL after a failed FAT_OpenEntry
  pc,       \* where the program is
  path,     \* FAT_Open: components still to resolve
  name,     \* FAT_Open: the buffer of the component
  fatName,  \* FAT_FindFile: the name compared with the entries
  entry,    \* FAT_FindFile: *entryOut
  want,     \* FAT_Read: byteCount
  out,      \* the units read so far
  i,        \* main: entries listed
  misspelt  \* ghost: a name other than the component's 8.3 name was compared

lookupVars == <<path, name, fatName, entry, misspelt>>
vars == <<image, argument, fd, pc, lookupVars, want, out, i>>

NoEntry == [Name |-> EightDotThree(<<>>), IsDirectory |-> FALSE,
            FirstCluster |-> 0, Size |-> 0]

\* DISK_ReadSectors: fread fails behind the end of the image and nowhere else.
InImage(lba) == lba % LBA_RANGE < image

Init ==
  /\ image \in ImageLengths
  /\ argument \in Arguments \cup {NULL}
  /\ fd = NULL /\ pc = "main"
  /\ path = <<>> /\ name \in Garbage /\ fatName = NoEntry.Name /\ entry = NoEntry
  /\ misspelt = FALSE
  /\ want = 0 /\ out = <<>> /\ i = 0

-----------------------------------------------------------------------------
(* FAT_Initialize and FAT_Open.                                            *)

RootFile ==
  [Handle |-> ROOT, IsDirectory |-> TRUE, Position |-> 0, Size |-> DirEntryCount,
   FirstCluster |-> 0, CurrentCluster |-> 0, CurrentSectorInCluster |-> 0,
   Buffer |-> RootDirLba]

FAT_Initialize ==
  /\ pc = "main"
  /\ IF FatFits /\ \A lba \in {0, ReservedSectors, RootDirLba} : InImage(lba)
     THEN fd' = RootFile /\ pc' = "open"
     ELSE fd' = fd /\ pc' = "failed"
  /\ path' = argument
  /\ UNCHANGED <<image, argument, name, fatName, entry, misspelt, want, out, i>>

\* The image cannot be opened (or none was named).
DISK_InitializeFails ==
  /\ pc = "main"
  /\ pc' = "failed"
  /\ UNCHANGED <<image, argument, fd, lookupVars, want, out, i>>

\* A NULL is dereferenced: the path, the handle FAT_Open returns (main looks
\* at fd->IsDirectory first) or the directory FAT_FindFile is to search.
Crash ==
  /\ pc = "open" /\ (fd = NULL \/ path = NULL)
  /\ pc' = "crashed"
  /\ UNCHANGED <<image, argument, fd, lookupVars, want, out, i>>

OpenComponent ==
  /\ pc = "open" /\ fd # NULL /\ path # NULL /\ path # <<>>
  /\ name' = Extracted(name, Head(path))
  /\ fatName' = HostConverted(name')
  /\ misspelt' = (misspelt \/ fatName' # EightDotThree(Head(path)))
  /\ path' = Tail(path)
  /\ pc' = "find"
  /\ UNCHANGED <<image, argument, fd, entry, want, out, i>>

\* main, once FAT_Open has returned.
Opened ==
  /\ pc = "open" /\ fd # NULL /\ path = <<>>
  /\ pc' = IF fd.IsDirectory THEN "list" ELSE "cat"
  /\ UNCHANGED <<image, argument, fd, lookupVars, want, out, i>>

-----------------------------------------------------------------------------
(* FAT_Read.                                                               *)

\* Deviation: the whole size as the bound, wherever the cursor is.
BoundedBySize(f, n) == IF f.IsDirectory THEN n ELSE Min2(n, f.Size)

\* "Don't read past the end of the file": directories have no bound.
Bounded(f, n) == IF f.IsDirectory THEN n ELSE Min2(n, f.Size - f.Position)

\* The root's next sector is one LBA on, the end of the LBAs wraps.
Next1(f) ==
  LET g == NextSector(f.Handle, f) IN
  [g EXCEPT !.CurrentCluster = IF f.Handle = ROOT THEN @ % LBA_RANGE ELSE @]

\* The link of a cluster that is not in the table is asked for: whatever lies
\* behind the table in memory.
LeavesTable(f, take) ==
  /\ take = LeftInBuffer(f) /\ f.Handle # ROOT
  /\ f.CurrentSectorInCluster + 1 >= SectorsPerCluster
  /\ f.CurrentCluster \notin DOMAIN Fat

\* Deviation: the next sector is not read.
AdvancedWithoutRead(f, take) ==
  LET e == [f EXCEPT !.Position = (@ + take) % POSITION_RANGE] IN
  IF take < LeftInBuffer(f) THEN e ELSE Next1(e)

\* The handle after take units were copied.  A read that fails leaves the
\* buffer as it is, the end mark of a chain the size.
Advanced(f, take) ==
  LET e == [f EXCEPT !.Position = (@ + take) % POSITION_RANGE]
      g == Next1(e)
      lba == SectorUnderCursor(f.Handle, g) % LBA_RANGE
  IN IF take < LeftInBuffer(f) THEN e
     ELSE IF f.Handle # ROOT /\ g.CurrentCluster >= EndOfChain
     THEN [g EXCEPT !.Size = g.Position]
     ELSE IF InImage(lba) THEN [g EXCEPT !.Buffer = lba] ELSE g

\* Did the copy loop end early?
Broken(f, take) ==
  LET g == Next1(f) IN
  /\ take = LeftInBuffer(f)
  /\ \/ f.Handle # ROOT /\ g.CurrentCluster >= EndOfChain
     \/ ~InImage(SectorUnderCursor(f.Handle, g))

EntryAt(f) == <<f.Buffer, f.Position % SECTOR_SIZE>>

\* What lies behind the table may send the program anywhere.
ReadBehindTable ==
  /\ \/ pc = "find" /\ Bounded(fd, 1) = 1 /\ LeavesTable(fd, 1)
     \/ pc = "list" /\ LeavesTable(fd, 1)
  /\ pc' = "wild"
  /\ UNCHANGED <<image, argument, fd, lookupVars, want, out, i>>

-----------------------------------------------------------------------------
(* FAT_FindFile and FAT_OpenEntry.                                         *)

\* An entry is read and compared; if it is the one, FAT_Open closes the
\* directory and goes on to open the entry.
SearchStep ==
  /\ pc = "find" /\ Bounded(fd, 1) = 1 /\ ~LeavesTable(fd, 1)
  /\ fd' = Advanced(fd, 1)
  /\ IF Matches(EntryAt(fd), fatName)
     THEN entry' = Entry[EntryAt(fd)] /\ pc' = "enter"
     ELSE UNCHANGED <<entry, pc>>
  /\ UNCHANGED <<image, argument, path, name, fatName, misspelt, want, out, i>>

\* A read that comes back short, which those of directories never do: "not
\* found", and main is handed a NULL.
NotFound ==
  /\ pc = "find" /\ Bounded(fd, 1) = 0
  /\ fd' = NULL /\ pc' = "open" /\ path' = <<>>
  /\ UNCHANGED <<image, argument, name, fatName, entry, misspelt, want, out, i>>

EntryFile(e, lba) ==
  [Handle |-> 0, IsDirectory |-> e.IsDirectory, Position |-> 0,
   Size |-> e.Size, FirstCluster |-> e.FirstCluster,
   CurrentCluster |-> e.FirstCluster, CurrentSectorInCluster |-> 0,
   Buffer |-> lba]

FirstLba(e) == FAT_ClusterToLba(e.FirstCluster) % LBA_RANGE

\* The test for a directory in front of it never fires, as in stage 2.
FAT_OpenEntry ==
  /\ pc = "enter"
  /\ fd' = IF InImage(FirstLba(entry)) THEN EntryFile(entry, FirstLba(entry)) ELSE NULL
  /\ pc' = "open"
  /\ UNCHANGED <<image, argument, lookupVars, want, out, i>>

-----------------------------------------------------------------------------
(* main.                                                                   *)

\* One entry is read before the count is looked at.
List ==
  /\ pc = "list" /\ ~LeavesTable(fd, 1)
  /\ fd' = Advanced(fd, 1)
  /\ i' = i + 1
  /\ IF i < ListMax THEN out' = Append(out, EntryAt(fd)) /\ pc' = pc
                    ELSE out' = out /\ pc' = "done"
  /\ UNCHANGED <<image, argument, lookupVars, want>>

\* FAT_Read up to its loop; main stops at a count of 0.
Read ==
  /\ pc = "cat"
  /\ want' = Bounded(fd, ReadSize)
  /\ pc' = IF want' = 0 THEN "done" ELSE "copy"
  /\ UNCHANGED <<image, argument, fd, lookupVars, out, i>>

\* An iteration of the loop.  Chains of files do not leave the table.
Copy ==
  /\ pc = "copy"
  /\ LET take == Min2(want, LeftInBuffer(fd)) IN
       /\ out' = out \o [k \in 1 .. take |->
                           <<fd.Buffer, (fd.Position % SECTOR_SIZE) + k - 1>>]
       /\ fd' = Advanced(fd, take)
       /\ want' = IF Broken(fd, take) THEN 0 ELSE want - take
  /\ pc' = IF want' = 0 THEN "cat" ELSE "copy"
  /\ UNCHANGED <<image, argument, lookupVars, i>>

Exited == pc \in {"done", "failed", "crashed", "wild"} /\ UNCHANGED vars

Work ==
  \/ FAT_Initialize \/ Crash \/ OpenComponent \/ Opened
  \/ SearchStep \/ NotFound \/ ReadBehindTable \/ FAT_OpenEntry
  \/ List \/ Read \/ Copy

Next == Work \/ DISK_InitializeFails \/ Exited

Spec == Init /\ [][Next]_vars

\* One process, which the host keeps running.
FairSpec == Spec /\ WF_vars(Work)

-----------------------------------------------------------------------------
(* What makes the reader correct.                                          *)

OwnSectors(c) == {SectorOfChain(c, n) : n \in 0 .. ChainSectors(c) - 1}

RootSlots ==
  {<<RootDirLba + k \div SECTOR_SIZE, k % SECTOR_SIZE>> : k \in 0 .. DirEntryCount - 1}

SlotsOf(e) == OwnSectors(e.FirstCluster) \X (0 .. SECTOR_SIZE - 1)

Directories ==
  {RootSlots} \cup {SlotsOf(e) : e \in {Entry[at] : at \in {a \in DOMAIN Entry : Entry[a].IsDirectory}}}

\* A floppy's table has no place for the clusters that are end marks; what looks
\* like an entry in front of the data section is one of the root directory; no
\* directory has two entries with the name of one component (slots of long names may
\* be alike).
ASSUME TreeAssumption ==
  /\ \A c \in DOMAIN Fat : c < EndOfChain
  /\ \A at \in DOMAIN Entry : at[1] < DataSectionLba => at \in RootSlots
  /\ \A d \in Directories, p \in Arguments : \A k \in DOMAIN p, a, b \in d \cap DOMAIN Entry :
       Entry[a].Name = EightDotThree(p[k]) /\ Entry[b].Name = EightDotThree(p[k]) => a = b

\* The reference for a path: at names, for each component, an entry of the
\* directory before it.
Denotes(p, at) ==
  \A k \in DOMAIN p :
    /\ Entry[at[k]].Name = EightDotThree(p[k])
    /\ at[k] \in IF k = 1 THEN RootSlots
                 ELSE IF Entry[at[k - 1]].IsDirectory THEN SlotsOf(Entry[at[k - 1]])
                 ELSE {}

Denoted(p) ==
  {Entry[at[Len(p)]] : at \in {a \in [DOMAIN p -> DOMAIN Entry] : Denotes(p, a)}}

\* The units of a file, or those of a directory that are listed, in order.
Contents(e) ==
  [k \in 1 .. IF e.IsDirectory THEN ListMax ELSE e.Size |-> UnitOfChain(e.FirstCluster, k - 1)]

TypeOK ==
  /\ image \in ImageLengths
  /\ argument \in Arguments \cup {NULL} /\ fd \in FileData \cup {NULL}
  /\ pc \in {"main", "open", "find", "enter", "list", "cat", "copy",
             "done", "failed", "crashed", "wild"}
  /\ path \in Seq(Component) \cup {NULL} /\ name \in Buffer
  /\ fatName \in Name /\ misspelt \in BOOLEAN /\ entry \in EntryRecord
  /\ want \in 0 .. ReadSize /\ i \in 0 .. ListMax + 1
  /\ out \in Seq((0 .. LBA_RANGE - 1) \X (0 .. SECTOR_SIZE - 1))

IsEmptyFile(f) == ~f.IsDirectory /\ f.Size = 0 /\ f.Position = 0

\* The buffer is that of the cursor, unless a read behind the end of a short image
\* has failed.
Buffers(f) ==
  LET n == SectorIndex(f) IN
  n < ChainSectors(f.FirstCluster) =>
    f.Buffer = SectorOfChain(f.FirstCluster, n) \/ ~InImage(SectorOfChain(f.FirstCluster, n))

\* While a file is read, the cursor is that of its position, which stays within
\* the size: the subtraction does not wrap.
FileUnderCursor ==
  pc \in {"cat", "copy"} =>
    \/ IsEmptyFile(fd) /\ want = 0
    \/ FollowsChain(fd) /\ want <= fd.Size - fd.Position /\ Buffers(fd)

\* Only a component without a full extension can take garbage into its name,
\* whatever the stack held and whatever components came before it.
MisspeltOnlyShort ==
  misspelt => \E k \in DOMAIN argument :
                ~(Proper(argument[k]) /\ FullExtension(argument[k]))

Openable(e) == SoundEntry(e) /\ e.Size < POSITION_RANGE

\* The call in progress: what FAT_Open has opened, what it will open next, what is
\* left of its path and of main's read.
CallState ==
  /\ pc = "open" /\ fd # NULL =>
       fd = RootFile \/ (Openable(entry) /\ fd = EntryFile(entry, FirstLba(entry)))
  /\ pc \in {"find", "list", "enter", "cat", "copy"} => fd # NULL
  /\ pc = "enter" => Openable(entry)
  /\ pc \in {"cat", "copy"} =>
       fd.Handle = 0 /\ ~fd.IsDirectory /\ fd.Size < POSITION_RANGE
  /\ want > 0 <=> pc = "copy"
  /\ i > ListMax => pc = "done"
  /\ path # NULL => \A k \in DOMAIN path : \E j \in DOMAIN argument : path[k] = argument[j]

HostInv == TypeOK /\ CallState /\ FileUnderCursor /\ MisspeltOnlyShort

\* A path that names something is opened as just that, unless a component took
\* garbage into its 8.3 name, though the search of the root directory strays over
\* the image from its second sector on.  What is read or listed is the contents in
\* order, in the end all of it; where a sector of the file is missing from the
\* image, as many units of something else are read, since the read behind one that
\* failed copies what the buffer still holds.
DeliversFile ==
  pc \in {"list", "cat", "copy", "done"} /\ argument # <<>>
     /\ Denoted(argument) # {} /\ ~misspelt =>
    /\ entry \in Denoted(argument)
    /\ Len(out) <= Len(Contents(entry))
    /\ \A k \in 1 .. Len(out) :
         InImage(Contents(entry)[k][1]) => out[k] = Contents(entry)[k]
    /\ pc = "done" => Len(out) = Len(Contents(entry))

\* A path that names something is read to the end, unless one of its components
\* took garbage into its 8.3 name: the straying search reaches the rest of the
\* root directory.
ReadsToTheEnd ==
  (pc = "open" /\ argument \in Arguments \ {<<>>} /\ image = VolumeSectors
     /\ Denoted(argument) # {})
    ~> (pc = "done" \/ misspelt)
=============================================================================
