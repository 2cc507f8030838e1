------------------------------ MODULE FatStream ------------------------------
(***************************************************************************)
(* FatDriver as an implementation of FileStream: the abstract state the    *)
(* driver's variables stand for.                                           *)
(*                                                                         *)
(* The contents of an open handle are the units of its chain, cut at the   *)
(* size of the file; a directory is as long as its chain.                  *)
(***************************************************************************)
EXTENDS FatDriver

StreamLen(f) ==
  IF f.IsDirectory THEN ChainSectors(f.FirstCluster) * SECTOR_SIZE ELSE f.Size

StreamOf(f) ==
  [i \in 1 .. StreamLen(f) |-> UnitOfChain(f.FirstCluster, i - 1)]

\* The contents of the files of the volume.
FileStreams ==
  {StreamOf(EntryFile(Entry[at], TRUE, 0)) : at \in DOMAIN Entry}

\* Those of the files with a sector that may not be readable.
FragileStreams ==
  {StreamOf(EntryFile(Entry[at], TRUE, 0)) :
     at \in {x \in DOMAIN Entry : OnBadSector(Entry[x].FirstCluster)}}

HeldStreams == [h \in held |-> StreamOf(files[h])]

HeldPositions == [h \in held |-> files[h].Position]

\* The handle FAT_Read is at work on, and what it has still to copy: for a
\* directory byteCount is not bounded by what its chain has left.
HandleRead == IF pc = "read" THEN {cur} ELSE {}

LeftToCopy ==
  IF pc = "read"
  THEN Min2(want, StreamLen(files[cur]) - files[cur].Position) ELSE 0

Stream == INSTANCE FileStream WITH
  Handle <- Handles,
  Streams <- FileStreams,
  Sizes <- ReadSizes,
  Block <- SECTOR_SIZE,
  Fragile <- FragileStreams,
  stream <- HeldStreams,
  pos <- HeldPositions,
  reading <- HandleRead,
  todo <- LeftToCopy,
  got <- out,
  broken <- lost \cap held

\* The driver implements the file-stream interface of fat.h: whatever was
\* opened, searched, read and closed before, a read delivers exactly the next
\* units of the file its handle was opened on, as many as asked for or all that
\* are left.  Only on a file with a bad sector may a read break off, and then
\* only the units of the sector that failed may be wrong.
ImplementsFileStream == Stream!StreamSpec
=============================================================================
