------------------------------ MODULE FatVolume ------------------------------
(***************************************************************************)
(* A FAT12 volume and a cursor into one of its cluster chains: what the    *)
(* driver of the second stage (stage2/fat.c) and its older copy on the     *)
(* host (tools/fat/fat.c) have in common.                                  *)
(*                                                                         *)
(* Lengths and positions are counted in directory entries (32 bytes): it   *)
(* is the unit of FAT_ReadEntry and divides the sector.  What a sector     *)
(* holds is abstracted to the pair <<LBA, slot>>; the directory entries    *)
(* found there are the constant Entry.                                     *)
(***************************************************************************)
EXTENDS FatTable, Sequences

CONSTANTS
  SECTOR_SIZE,         \* units of one sector
  SectorsPerCluster, ReservedSectors, SectorsPerFat, FatCount, DirEntryCount,
  FAT_DATA_SIZE,       \* sizeof(FAT_Data)
  MEMORY_FAT_SIZE,     \* room for FAT_Data and the table behind it
  EndOfChain,          \* 0xFF8: links from here on end a chain
  Fat,                 \* the table: cluster -> link
  Chain,               \* first cluster -> the clusters of its chain
  Name,                \* 8.3 names
  Entry                \* <<LBA, slot>> -> directory entry stored there

ROOT == -1             \* ROOT_DIRECTORY_HANDLE
ClusterSize == SectorsPerCluster * SECTOR_SIZE

EntryRecord ==
  [Name : Name, IsDirectory : BOOLEAN, FirstCluster : Nat, Size : Nat]

ASSUME GeometryAssumption ==
  /\ SECTOR_SIZE \in Nat \ {0}
  /\ SectorsPerCluster \in Nat \ {0}
  /\ {ReservedSectors, SectorsPerFat, FatCount} \subseteq Nat
  /\ DirEntryCount \in Nat \ {0}
  /\ {FAT_DATA_SIZE, MEMORY_FAT_SIZE} \subseteq Nat
  /\ EndOfChain \in Nat

\* The chains of a sound volume: every link below EndOfChain is the next
\* cluster, the last link ends the chain.
ASSUME ChainAssumption ==
  /\ DOMAIN Fat \subseteq Nat /\ Paired(Fat)
  /\ Fat \in [DOMAIN Fat -> Entry12]
  /\ Chain \in [DOMAIN Chain -> Seq(DOMAIN Fat)]
  /\ \A c \in DOMAIN Chain :
       /\ Len(Chain[c]) > 0
       /\ Chain[c][1] = c
       /\ \A i \in 1 .. Len(Chain[c]) :
            /\ Chain[c][i] < EndOfChain
            /\ IF i < Len(Chain[c]) THEN Fat[Chain[c][i]] = Chain[c][i + 1]
                                    ELSE Fat[Chain[c][i]] >= EndOfChain

\* Directories have size 0 on disk and at least one cluster; a file's size
\* fits its chain, and an empty file has none.
SoundEntry(e) ==
  \/ e.Size = 0 /\ ~e.IsDirectory
  \/ /\ e.FirstCluster \in DOMAIN Chain
     /\ e.IsDirectory => e.Size = 0
     /\ e.Size <= Len(Chain[e.FirstCluster]) * ClusterSize

ASSUME EntryAssumption ==
  /\ DOMAIN Entry \subseteq Nat \X Nat
  /\ Entry \in [DOMAIN Entry -> EntryRecord]
  /\ \A at \in DOMAIN Entry : SoundEntry(Entry[at])

Min2(a, b) == IF a < b THEN a ELSE b

-----------------------------------------------------------------------------
(* Layout of the volume.                                                   *)

RootDirLba == ReservedSectors + SectorsPerFat * FatCount

\* Root entries rounded up to sectors follow the tables; clusters follow them.
DataSectionLba ==
  RootDirLba + (DirEntryCount + SECTOR_SIZE - 1) \div SECTOR_SIZE

FatFits == FAT_DATA_SIZE + SECTOR_SIZE * SectorsPerFat < MEMORY_FAT_SIZE

\* Deviation: the two reserved clusters forgotten.
ClusterToLbaFromZero(cluster) ==
  DataSectionLba + cluster * SectorsPerCluster

FAT_ClusterToLba(cluster) ==
  DataSectionLba + (cluster - 2) * SectorsPerCluster

\* The table in memory, and the link it holds for a cluster.
FatBytes == Packed(Fat)

FAT_NextCluster(cluster) == Link(FatBytes, cluster)

\* The entry at a place has the name.  A buffer that a failed transfer left half
\* written may hold entries of the two sectors, or one of both; here it holds
\* none.
Matches(at, name) == at \in DOMAIN Entry /\ Entry[at].Name = name

-----------------------------------------------------------------------------
(* A file's cursor.                                                        *)

LeftInBuffer(f) == SECTOR_SIZE - (f.Position % SECTOR_SIZE)

\* The cursor of handle h moved on to the next sector.
NextSector(h, f) ==
  IF h = ROOT
  THEN [f EXCEPT !.CurrentCluster = @ + 1]
  ELSE IF f.CurrentSectorInCluster + 1 < SectorsPerCluster
  THEN [f EXCEPT !.CurrentSectorInCluster = @ + 1]
  ELSE [f EXCEPT !.CurrentSectorInCluster = 0,
                 !.CurrentCluster = FAT_NextCluster(@)]

\* Deviation: always the first sector of the cluster.
FirstSectorOfCluster(h, f) ==
  IF h = ROOT THEN f.CurrentCluster ELSE FAT_ClusterToLba(f.CurrentCluster)

SectorUnderCursor(h, f) ==
  IF h = ROOT THEN f.CurrentCluster
  ELSE FAT_ClusterToLba(f.CurrentCluster) + f.CurrentSectorInCluster

-----------------------------------------------------------------------------
(* The reference: where a file's sectors are.                              *)

\* The sectors of a chain, by index: the reference for the cursor.
ChainSectors(c) == Len(Chain[c]) * SectorsPerCluster

SectorOfChain(c, n) ==
  DataSectionLba + (Chain[c][n \div SectorsPerCluster + 1] - 2) * SectorsPerCluster
    + (n % SectorsPerCluster)

\* The units of a chain, by offset.
UnitOfChain(c, i) == <<SectorOfChain(c, i \div SECTOR_SIZE), i % SECTOR_SIZE>>

SectorIndex(f) == f.Position \div SECTOR_SIZE

\* A cursor inside the chain names the cluster and sector of the position; one
\* behind the last sector holds an end mark and the file ends there.
FollowsChain(f) ==
  LET n == SectorIndex(f)
      c == f.FirstCluster
  IN /\ c \in DOMAIN Chain
     /\ n < ChainSectors(c) =>
          /\ f.CurrentCluster = Chain[c][n \div SectorsPerCluster + 1]
          /\ f.CurrentSectorInCluster = n % SectorsPerCluster
          /\ f.Position <= f.Size \/ (f.IsDirectory /\ f.Size = 0)
     /\ n >= ChainSectors(c) =>
          /\ f.CurrentCluster >= EndOfChain /\ f.CurrentSectorInCluster = 0
          /\ n = ChainSectors(c)
          /\ f.Position = n * SECTOR_SIZE
          /\ f.Size = f.Position
=============================================================================
