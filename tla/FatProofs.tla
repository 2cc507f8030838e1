------------------------------ MODULE FatProofs ------------------------------
(***************************************************************************)
(* Proofs about FatDriver, for every geometry, table, directory tree and   *)
(* client.                                                                 *)
(***************************************************************************)
EXTENDS FatStream, FatVolumeProofs, SequenceTheorems

LEMMA Constants ==
  /\ SECTOR_SIZE \in Nat \ {0} /\ SectorsPerCluster \in Nat \ {0}
  /\ RootDirLba \in Nat /\ DataSectionLba \in Nat
  /\ DirEntryCount \in Nat \ {0} /\ EndOfChain \in Nat
  /\ TORN \notin Int
BY VolumeConstants, DriverAssumption

-----------------------------------------------------------------------------
(* One iteration of the copy loop.                                         *)

LEMMA RootIsNoHandle == ROOT \notin Handles /\ NoFile \notin AllHandles
BY DriverAssumption DEF ROOT, NoFile, Handles, AllHandles

\* What the copy loop never changes in a handle.
SameFile(g, f) ==
  /\ g.Opened = f.Opened /\ g.IsDirectory = f.IsDirectory
  /\ g.FirstCluster = f.FirstCluster

LEMMA SectorFacts ==
  ASSUME NEW f \in FileData
  PROVE  /\ f.Position \in Nat /\ SectorIndex(f) \in Nat
         /\ LeftInBuffer(f) \in 1 .. SECTOR_SIZE
<1>1. f.Position \in Nat /\ SECTOR_SIZE \in Nat \ {0}
  BY Constants DEF FileData
<1> QED BY <1>1 DEF SectorIndex, LeftInBuffer

\* Positions and sector indices: inside the sector the index stays, at its end
\* it grows by one and the position is on a boundary.
LEMMA SectorStep ==
  ASSUME NEW f \in FileData, NEW take \in 1 .. LeftInBuffer(f),
         NEW g, g.Position = f.Position + take
  PROVE  /\ SectorIndex(f) \in Nat /\ LeftInBuffer(f) \in 1 .. SECTOR_SIZE
         /\ take < LeftInBuffer(f) => SectorIndex(g) = SectorIndex(f)
         /\ take = LeftInBuffer(f) =>
              /\ SectorIndex(g) = SectorIndex(f) + 1
              /\ g.Position = SectorIndex(g) * SECTOR_SIZE
BY PositionStep DEF FileData

\* Moving a cursor that is on its chain to the next sector leaves it on the
\* chain, or at the end mark behind the last sector.
LEMMA NextSectorOnChain ==
  ASSUME NEW h \in Handles, NEW f \in FileData, FollowsChain(f),
         SectorIndex(f) < ChainSectors(f.FirstCluster),
         NEW e \in FileData, SameFile(e, f),
         e.CurrentCluster = f.CurrentCluster,
         e.CurrentSectorInCluster = f.CurrentSectorInCluster,
         NEW g, g = NextSector(h, e)
  PROVE  LET c == f.FirstCluster
             n == SectorIndex(f) + 1
         IN /\ g \in FileData
            /\ SameFile(g, f) /\ g.Position = e.Position
            /\ g.Size = e.Size /\ g.Buffer = e.Buffer
            /\ \/ /\ n < ChainSectors(c) /\ g.CurrentCluster < EndOfChain
                  /\ g.CurrentCluster = Chain[c][n \div SectorsPerCluster + 1]
                  /\ g.CurrentSectorInCluster = n % SectorsPerCluster
                  /\ SectorUnderCursor(h, g) = SectorOfChain(c, n)
               \/ /\ n = ChainSectors(c) /\ g.CurrentCluster >= EndOfChain
                  /\ g.CurrentSectorInCluster = 0
<1> DEFINE c == f.FirstCluster
           n == SectorIndex(f)
           q == n \div SectorsPerCluster
           r == n % SectorsPerCluster
<1>1. c \in DOMAIN Chain /\ n \in Nat /\ n < ChainSectors(c)
  <2>1. f.Position \in Nat
    BY DEF FileData
  <2>2. n \in Nat
    BY <2>1, Constants DEF SectorIndex
  <2> QED BY <2>2 DEF FollowsChain
<1>2. f.CurrentCluster = Chain[c][q + 1] /\ f.CurrentSectorInCluster = r
  BY <1>1 DEF FollowsChain
<1>3. /\ q \in 0 .. Len(Chain[c]) - 1 /\ r \in 0 .. SectorsPerCluster - 1
      /\ r + 1 < SectorsPerCluster =>
           /\ (n + 1) \div SectorsPerCluster = q
           /\ (n + 1) % SectorsPerCluster = r + 1
           /\ n + 1 < ChainSectors(c)
      /\ r + 1 >= SectorsPerCluster /\ q + 1 < Len(Chain[c]) =>
           /\ (n + 1) \div SectorsPerCluster = q + 1
           /\ (n + 1) % SectorsPerCluster = 0
           /\ n + 1 < ChainSectors(c)
           /\ Fat[Chain[c][q + 1]] = Chain[c][q + 2]
      /\ r + 1 >= SectorsPerCluster /\ q + 1 >= Len(Chain[c]) =>
           /\ n + 1 = ChainSectors(c)
           /\ Fat[Chain[c][q + 1]] >= EndOfChain
  BY <1>1, ChainStep
<1>4. Len(Chain[c]) \in Nat /\ \A i \in 1 .. Len(Chain[c]) :
        /\ Chain[c][i] \in Nat /\ Chain[c][i] < EndOfChain
        /\ Fat[Chain[c][i]] \in Nat
  BY <1>1, ChainFacts
<1> HIDE DEF c, n, q, r
<1>6. h # ROOT
  BY RootIsNoHandle
<1>7. CASE r + 1 < SectorsPerCluster
  <2>1. g = [e EXCEPT !.CurrentSectorInCluster = r + 1]
    BY <1>2, <1>6, <1>7 DEF NextSector
  <2>a. r + 1 \in Nat
    BY <1>3
  <2>2. /\ g \in FileData /\ g.CurrentCluster = Chain[c][q + 1]
        /\ g.CurrentSectorInCluster = r + 1
        /\ SameFile(g, f) /\ g.Position = e.Position
        /\ g.Size = e.Size /\ g.Buffer = e.Buffer
    BY <2>1, <2>a, <1>2 DEF FileData, SameFile
  <2>3. SectorUnderCursor(h, g) = SectorOfChain(c, n + 1)
    BY <2>2, <1>3, <1>6, <1>7 DEF SectorUnderCursor, SectorOfChain, FAT_ClusterToLba
  <2>4. g.CurrentCluster < EndOfChain
    BY <2>2, <1>3, <1>4
  <2> QED BY <2>2, <2>3, <2>4, <1>3, <1>7 DEF c, n
<1>8. CASE r + 1 >= SectorsPerCluster
  <2>1. g = [e EXCEPT !.CurrentSectorInCluster = 0,
                      !.CurrentCluster = Fat[Chain[c][q + 1]]]
    <3>1. ~(e.CurrentSectorInCluster + 1 < SectorsPerCluster)
      BY <1>2, <1>3, <1>8, Constants
    <3>2. FAT_NextCluster(e.CurrentCluster) = Fat[Chain[c][q + 1]]
      <4>1. q + 1 \in 1 .. Len(Chain[c])
        BY <1>3, <1>4
      <4>2. Chain[c][q + 1] \in DOMAIN Fat
        BY <1>1, <4>1, ChainFacts
      <4> QED BY <4>2, <1>2, NextClusterIsLink
    <3> QED BY <3>1, <3>2, <1>2, <1>6 DEF NextSector
  <2>2. q + 1 \in 1 .. Len(Chain[c])
    BY <1>3, <1>4
  <2>3. /\ g \in FileData /\ g.CurrentCluster = Fat[Chain[c][q + 1]]
        /\ g.CurrentSectorInCluster = 0
        /\ SameFile(g, f) /\ g.Position = e.Position
        /\ g.Size = e.Size /\ g.Buffer = e.Buffer
    <3>1. Fat[Chain[c][q + 1]] \in Nat
      BY <2>2, <1>4
    <3> DEFINE x == Fat[Chain[c][q + 1]]
               d == [e EXCEPT !.CurrentSectorInCluster = 0, !.CurrentCluster = x]
    <3>2. x \in Nat
      BY <3>1
    <3>3. g = d
      BY <2>1
    <3> HIDE DEF x
    <3>4. /\ d \in FileData /\ d.CurrentCluster = x
          /\ d.CurrentSectorInCluster = 0
          /\ SameFile(d, e) /\ d.Position = e.Position
          /\ d.Size = e.Size /\ d.Buffer = e.Buffer
      BY <3>2 DEF FileData, SameFile
    <3> HIDE DEF d
    <3> QED BY <3>3, <3>4 DEF SameFile, x
  <2>4. CASE q + 1 < Len(Chain[c])
    <3>1. /\ g.CurrentCluster = Chain[c][(n + 1) \div SectorsPerCluster + 1]
          /\ (n + 1) % SectorsPerCluster = 0 /\ n + 1 < ChainSectors(c)
      <4>1. (q + 1) + 1 = q + 2
        BY <1>3
      <4> QED BY <4>1, <2>3, <2>4, <1>3, <1>8
    <3>2. q + 2 \in 1 .. Len(Chain[c]) /\ g.CurrentCluster = Chain[c][q + 2]
      BY <2>3, <2>4, <1>3, <1>4, <1>8
    <3>3. g.CurrentCluster < EndOfChain
      BY <3>2, <1>4
    <3>4. SectorUnderCursor(h, g) = SectorOfChain(c, n + 1)
      BY <3>1, <2>3, <1>6 DEF SectorUnderCursor, SectorOfChain, FAT_ClusterToLba
    <3> QED BY <3>1, <3>3, <3>4, <2>3 DEF c, n
  <2>5. CASE q + 1 >= Len(Chain[c])
    BY <2>3, <2>5, <1>3, <1>8 DEF c, n
  <2> QED BY <2>2, <2>4, <2>5, <1>4
<1>9. r \in Int /\ SectorsPerCluster \in Int
  BY <1>3, Constants
<1> QED BY <1>7, <1>8, <1>9

\* What an iteration does to a handle whose cursor is on its chain.
LEMMA IterationOnChain ==
  ASSUME NEW h \in Handles, files[h] \in FileData, FollowsChain(files[h]),
         SectorIndex(files[h]) < ChainSectors(files[h].FirstCluster),
         NEW take \in 1 .. LeftInBuffer(files[h]),
         \/ files[h].Position + take <= files[h].Size
         \/ files[h].IsDirectory /\ files[h].Size = 0,
         NEW r \in Iteration(h, take)
  PROVE  LET f == files[h]
             c == f.FirstCluster
         IN /\ r.file \in FileData /\ SameFile(r.file, f)
            /\ r.file.Position = f.Position + take
            /\ FollowsChain(r.file)
            /\ r.end # "eof" => r.file.Size = f.Size
            /\ r.end = "error" => OnBadSector(c)
            /\ \/ /\ take < LeftInBuffer(f) /\ r.end = "go"
                  /\ r.file.Buffer = f.Buffer /\ SectorIndex(r.file) = SectorIndex(f)
               \/ /\ take = LeftInBuffer(f) /\ r.end = "go"
                  /\ SectorIndex(r.file) < ChainSectors(c)
                  /\ r.file.Buffer = SectorOfChain(c, SectorIndex(r.file))
               \/ /\ take = LeftInBuffer(f) /\ r.end = "error"
                  /\ r.file.Buffer \in {f.Buffer, TORN}
               \/ /\ take = LeftInBuffer(f) /\ r.end = "eof"
                  /\ r.file.Buffer = f.Buffer
                  /\ SectorIndex(r.file) >= ChainSectors(c)
<1> DEFINE f == files[h]
           c == f.FirstCluster
           e == [f EXCEPT !.Position = f.Position + take]
           g == NextSector(h, e)
           left == LeftInBuffer(f)
<1>1. /\ f \in FileData /\ FollowsChain(f) /\ SectorIndex(f) < ChainSectors(c)
      /\ c \in DOMAIN Chain /\ take \in 1 .. left /\ f.Position \in Nat
      /\ f.Position + take <= f.Size \/ (f.IsDirectory /\ f.Size = 0)
  BY DEF FollowsChain, FileData
<1>2. /\ left \in 1 .. SECTOR_SIZE /\ SectorIndex(f) \in Nat
      /\ f.Position + take \in Nat
  BY <1>1, SectorFacts, Constants
<1>3. /\ e \in FileData /\ SameFile(e, f) /\ e.Position = f.Position + take
      /\ e.Size = f.Size /\ e.Buffer = f.Buffer
      /\ e.CurrentCluster = f.CurrentCluster
      /\ e.CurrentSectorInCluster = f.CurrentSectorInCluster
  BY <1>1, <1>2 DEF FileData, SameFile
<1> HIDE DEF e
<1>4. Iteration(h, take) =
        IF take < left THEN {[file |-> e, end |-> "go"]}
        ELSE IF h # ROOT /\ g.CurrentCluster >= EndOfChain
        THEN {[file |-> [g EXCEPT !.Size = g.Position], end |-> "eof"]}
        ELSE {[file |-> [g EXCEPT !.Buffer = d.buffer],
               end |-> IF d.ok THEN "go" ELSE "error"] :
                d \in DISK_ReadSectors(SectorUnderCursor(h, g), g.Buffer)}
  BY DEF Iteration, e
<1>5. CASE take < left
  <2>1. r = [file |-> e, end |-> "go"]
    BY <1>4, <1>5
  <2>2. r.file = e /\ r.end = "go"
    BY <2>1
  <2>3. SectorIndex(e) = SectorIndex(f)
    BY <1>1, <1>3, <1>5, SectorStep
  <2>4. FollowsChain(e)
    BY <1>1, <1>2, <1>3, <2>3 DEF FollowsChain, SameFile
  <2> QED BY <1>3, <1>5, <2>2, <2>3, <2>4
<1>6. CASE take = left
  <2>1. h # ROOT
    BY RootIsNoHandle
  <2> DEFINE n == SectorIndex(f) + 1
  <2>2. /\ g \in FileData /\ SameFile(g, f) /\ g.Position = f.Position + take
        /\ g.Size = f.Size /\ g.Buffer = f.Buffer
        /\ \/ /\ n < ChainSectors(c) /\ g.CurrentCluster < EndOfChain
              /\ g.CurrentCluster = Chain[c][n \div SectorsPerCluster + 1]
              /\ g.CurrentSectorInCluster = n % SectorsPerCluster
              /\ SectorUnderCursor(h, g) = SectorOfChain(c, n)
           \/ /\ n = ChainSectors(c) /\ g.CurrentCluster >= EndOfChain
              /\ g.CurrentSectorInCluster = 0
    BY <1>1, <1>3, NextSectorOnChain
  <2> HIDE DEF g
  <2>3. /\ \A x : x.Position = f.Position + take =>
              SectorIndex(x) = n /\ x.Position = n * SECTOR_SIZE
        /\ n \in Nat /\ ChainSectors(c) \in Nat
    BY <1>1, <1>2, <1>6, SectorStep, ChainFacts
  <2>4. g.CurrentCluster \in Nat /\ EndOfChain \in Nat /\ ~(take < left)
    BY <2>2, <1>2, <1>6, Constants DEF FileData
  <2>5. CASE g.CurrentCluster >= EndOfChain
    <3> DEFINE x == [g EXCEPT !.Size = g.Position]
    <3>1. r = [file |-> x, end |-> "eof"]
      BY <1>4, <2>1, <2>4, <2>5
    <3>2. r.file = x /\ r.end = "eof"
      BY <3>1
    <3>3. /\ x \in FileData /\ SameFile(x, g) /\ x.Position = g.Position
          /\ x.Size = g.Position /\ x.Buffer = g.Buffer
          /\ x.CurrentCluster = g.CurrentCluster
          /\ x.CurrentSectorInCluster = g.CurrentSectorInCluster
      BY <2>2 DEF FileData, SameFile
    <3> HIDE DEF x
    <3>4. SectorIndex(x) = n /\ x.Position = n * SECTOR_SIZE
      BY <3>3, <2>2, <2>3
    <3>5. n = ChainSectors(c) /\ g.CurrentSectorInCluster = 0
      BY <2>2, <2>4, <2>5
    <3>6. SameFile(x, f) /\ x.FirstCluster = c
      BY <3>3, <2>2 DEF SameFile
    <3>7. FollowsChain(x)
      BY <1>1, <2>3, <2>5, <3>3, <3>4, <3>5, <3>6 DEF FollowsChain
    <3> QED BY <1>6, <2>2, <2>3, <3>2, <3>3, <3>4, <3>5, <3>6, <3>7
  <2>6. CASE g.CurrentCluster < EndOfChain
    <3>1. /\ n < ChainSectors(c)
          /\ g.CurrentCluster = Chain[c][n \div SectorsPerCluster + 1]
          /\ g.CurrentSectorInCluster = n % SectorsPerCluster
          /\ SectorUnderCursor(h, g) = SectorOfChain(c, n)
      BY <2>2, <2>4, <2>6
    <3>2. PICK d \in DISK_ReadSectors(SectorOfChain(c, n), f.Buffer) :
            r = [file |-> [g EXCEPT !.Buffer = d.buffer],
                 end |-> IF d.ok THEN "go" ELSE "error"]
      BY <1>4, <2>1, <2>2, <2>4, <2>6, <3>1
    <3>3. \/ d.ok /\ d.buffer = SectorOfChain(c, n)
          \/ ~d.ok /\ d.buffer \in {f.Buffer, TORN}
      BY DEF DISK_ReadSectors
    <3>4. d.buffer \in Int \cup {TORN}
      <4>1. SectorOfChain(c, n) \in Int
        BY <1>1, <2>3, <3>1, SectorIsInt
      <4>2. f.Buffer \in Int \cup {TORN}
        BY <1>1 DEF FileData
      <4> QED BY <3>3, <4>1, <4>2
    <3> DEFINE x == [g EXCEPT !.Buffer = d.buffer]
    <3>5. r.file = x /\ r.end = IF d.ok THEN "go" ELSE "error"
      BY <3>2
    <3>6. /\ x \in FileData /\ SameFile(x, g) /\ x.Position = g.Position
          /\ x.Size = g.Size /\ x.Buffer = d.buffer
          /\ x.CurrentCluster = g.CurrentCluster
          /\ x.CurrentSectorInCluster = g.CurrentSectorInCluster
      BY <2>2, <3>4 DEF FileData, SameFile
    <3> HIDE DEF x
    <3>7. SectorIndex(x) = n
      BY <3>6, <2>2, <2>3
    <3>8. SameFile(x, f) /\ x.FirstCluster = c
      BY <3>6, <2>2 DEF SameFile
    <3>9. FollowsChain(x)
      BY <1>1, <2>2, <2>3, <3>1, <3>6, <3>7, <3>8 DEF FollowsChain, SameFile
    <3>10. ~d.ok => OnBadSector(c)
      <4>1. n \in 0 .. ChainSectors(c) - 1
        BY <2>3, <3>1
      <4>2. ~d.ok => SectorOfChain(c, n) \in BadSectors
        BY DEF DISK_ReadSectors
      <4> QED BY <1>1, <4>1, <4>2 DEF OnBadSector, OwnSectors
    <3> QED BY <1>6, <2>2, <3>1, <3>3, <3>5, <3>6, <3>7, <3>8, <3>9, <3>10
  <2> QED BY <2>4, <2>5, <2>6
<1> QED BY <1>1, <1>2, <1>5, <1>6

\* The root directory: its sectors are consecutive.
RootCursor(f) ==
  /\ f.IsDirectory /\ f.Size = DirEntryCount /\ f.FirstCluster = RootDirLba
  /\ f.CurrentCluster = RootDirLba + SectorIndex(f)
  /\ f.Position <= f.Size

LEMMA IterationOnRoot ==
  ASSUME files[ROOT] \in FileData, RootCursor(files[ROOT]),
         NEW take \in 1 .. LeftInBuffer(files[ROOT]),
         files[ROOT].Position + take <= files[ROOT].Size,
         NEW r \in Iteration(ROOT, take)
  PROVE  /\ r.file \in FileData /\ RootCursor(r.file)
         /\ r.file.Position = files[ROOT].Position + take
         /\ SectorIndex(files[ROOT]) <= SectorIndex(r.file)
         /\ r.file.Buffer \in {files[ROOT].Buffer, TORN, RootDirLba + SectorIndex(r.file)}
<1> DEFINE f == files[ROOT]
           p == f.Position + take
           e == [f EXCEPT !.Position = p]
           g == NextSector(ROOT, e)
           left == LeftInBuffer(f)
<1>1. /\ f \in FileData /\ RootCursor(f) /\ take \in 1 .. left
      /\ f.Position \in Nat /\ left \in 1 .. SECTOR_SIZE /\ SectorIndex(f) \in Nat
      /\ p \in Nat /\ p <= f.Size
  BY SectorFacts, Constants
<1>2. /\ e \in FileData /\ SameFile(e, f) /\ e.Position = p
      /\ e.Size = f.Size /\ e.CurrentCluster = f.CurrentCluster
      /\ e.Buffer = f.Buffer
  BY <1>1 DEF FileData, SameFile
<1>3. Iteration(ROOT, take) =
        IF take < left THEN {[file |-> e, end |-> "go"]}
        ELSE {[file |-> [g EXCEPT !.Buffer = d.buffer],
               end |-> IF d.ok THEN "go" ELSE "error"] :
                d \in DISK_ReadSectors(SectorUnderCursor(ROOT, g), g.Buffer)}
  BY DEF Iteration
<1> HIDE DEF e
<1>4. CASE take < left
  <2>1. r.file = e
    BY <1>3, <1>4
  <2>2. SectorIndex(e) = SectorIndex(f)
    BY <1>1, <1>2, <1>4, SectorStep
  <2>3. RootCursor(e)
    BY <1>1, <1>2, <2>2 DEF RootCursor, SameFile
  <2> QED BY <1>1, <1>2, <2>1, <2>2, <2>3
<1>5. CASE take = left
  <2>1. SectorIndex(e) = SectorIndex(f) + 1
    BY <1>1, <1>2, <1>5, SectorStep
  <2> DEFINE v == [e EXCEPT !.CurrentCluster = e.CurrentCluster + 1]
  <2>2. g = v
    BY DEF NextSector
  <2>3. e.CurrentCluster + 1 = RootDirLba + SectorIndex(e) /\ e.CurrentCluster + 1 \in Nat
    BY <1>1, <1>2, <2>1, Constants DEF RootCursor
  <2>4. /\ v \in FileData /\ SameFile(v, e) /\ v.Position = p /\ v.Size = e.Size
        /\ v.CurrentCluster = e.CurrentCluster + 1 /\ v.Buffer = e.Buffer
    BY <1>2, <2>3 DEF FileData, SameFile
  <2> HIDE DEF v, g
  <2>5. PICK d \in DISK_ReadSectors(SectorUnderCursor(ROOT, g), g.Buffer) :
          r = [file |-> [g EXCEPT !.Buffer = d.buffer],
               end |-> IF d.ok THEN "go" ELSE "error"]
    BY <1>1, <1>3, <1>5
  <2>6. d.buffer \in Int \cup {TORN}
    <3>1. SectorUnderCursor(ROOT, g) \in Int /\ g.Buffer \in Int \cup {TORN}
      BY <2>2, <2>4 DEF SectorUnderCursor, FileData
    <3> QED BY <3>1 DEF DISK_ReadSectors
  <2> DEFINE x == [v EXCEPT !.Buffer = d.buffer]
  <2>7. r.file = x
    BY <2>5, <2>2
  <2>8. /\ x \in FileData /\ SameFile(x, v) /\ x.Position = v.Position
        /\ x.Size = v.Size /\ x.CurrentCluster = v.CurrentCluster
        /\ x.Buffer = d.buffer
    BY <2>4, <2>6 DEF FileData, SameFile
  <2> HIDE DEF x
  <2>9. SectorIndex(x) = SectorIndex(e)
    BY <1>2, <2>4, <2>8 DEF SectorIndex
  <2>10. d.buffer \in {f.Buffer, TORN, RootDirLba + SectorIndex(e)}
    <3>1. SectorUnderCursor(ROOT, g) = RootDirLba + SectorIndex(e)
      BY <2>2, <2>3, <2>4 DEF SectorUnderCursor
    <3>2. d.buffer \in {g.Buffer, TORN, SectorUnderCursor(ROOT, g)}
      BY DEF DISK_ReadSectors
    <3> QED BY <1>2, <2>2, <2>4, <3>1, <3>2
  <2>11. RootCursor(x)
    BY <1>1, <1>2, <2>3, <2>4, <2>8, <2>9 DEF RootCursor, SameFile
  <2> QED BY <1>1, <1>2, <2>1, <2>4, <2>7, <2>8, <2>9, <2>10, <2>11
<1> QED BY <1>1, <1>4, <1>5

-----------------------------------------------------------------------------
(* Both kinds of handle together: a cursor is where its position says, and *)
(* k units can be read behind it.                                          *)

CursorOk(h, f) ==
  IF h = ROOT THEN RootCursor(f) ELSE IsEmptyFile(f) \/ FollowsChain(f)

HasLeft(f, k) == (f.IsDirectory /\ f.Size = 0) \/ k <= f.Size - f.Position

LEMMA CursorWithinSize ==
  ASSUME NEW h \in AllHandles, NEW f \in FileData, CursorOk(h, f)
  PROVE  HasLeft(f, 0)
<1>1. f.Position \in Nat /\ f.Size \in Nat
  BY DEF FileData
<1>2. CASE h = ROOT
  BY <1>1, <1>2 DEF CursorOk, RootCursor, HasLeft
<1>3. CASE h # ROOT /\ IsEmptyFile(f)
  BY <1>1, <1>3 DEF IsEmptyFile, HasLeft
<1>4. CASE h # ROOT /\ FollowsChain(f)
  <2>1. f.FirstCluster \in DOMAIN Chain
    BY <1>4 DEF FollowsChain
  <2>2. ChainSectors(f.FirstCluster) \in Nat /\ SectorIndex(f) \in Nat
    BY <2>1, ChainFacts, SectorFacts
  <2> QED BY <1>1, <1>4, <2>2 DEF FollowsChain, HasLeft
<1> QED BY <1>2, <1>3, <1>4 DEF CursorOk

\* The bound on byteCount is never negative, and keeps a read inside the file.
LEMMA BoundedFits ==
  ASSUME NEW f \in FileData, HasLeft(f, 0), NEW n \in Nat
  PROVE  /\ Bounded(f, n) \in 0 .. n
         /\ HasLeft(f, Bounded(f, n))
<1>1. f.Position \in Nat /\ f.Size \in Nat /\ f.IsDirectory \in BOOLEAN
  BY DEF FileData
<1>2. CASE f.IsDirectory /\ f.Size = 0
  BY <1>1, <1>2 DEF Bounded, HasLeft
<1>3. CASE ~(f.IsDirectory /\ f.Size = 0)
  <2>1. Bounded(f, n) = Min2(n, f.Size - f.Position)
    BY <1>1, <1>3 DEF Bounded
  <2>2. f.Size - f.Position \in Nat
    BY <1>1, <1>3 DEF HasLeft
  <2> QED BY <1>1, <2>1, <2>2 DEF Min2, HasLeft
<1> QED BY <1>2, <1>3

\* With something left to read, a file is inside its chain.
LEMMA LeftMeansInside ==
  ASSUME NEW f \in FileData, IsEmptyFile(f) \/ FollowsChain(f),
         NEW k \in Nat \ {0}, HasLeft(f, k)
  PROVE  FollowsChain(f) /\ SectorIndex(f) < ChainSectors(f.FirstCluster)
<1>1. f.Position \in Nat /\ f.Size \in Nat /\ f.IsDirectory \in BOOLEAN
  BY DEF FileData
<1>2. FollowsChain(f)
  BY <1>1 DEF IsEmptyFile, HasLeft
<1> DEFINE n == SectorIndex(f)
           m == ChainSectors(f.FirstCluster)
<1>3. f.FirstCluster \in DOMAIN Chain
  BY <1>2 DEF FollowsChain
<1>4. n \in Nat /\ m \in Nat /\ SECTOR_SIZE \in Nat \ {0}
  BY <1>3, ChainFacts, SectorFacts, Constants
<1>5. ASSUME n >= m PROVE FALSE
  <2>1. n = m /\ f.Position = n * SECTOR_SIZE /\ f.Size = f.Position
    BY <1>2, <1>5 DEF FollowsChain
  <2>2. m > 0
    <3>1. Len(Chain[f.FirstCluster]) \in Nat \ {0} /\ SectorsPerCluster \in Nat \ {0}
      BY <1>3, ChainFacts, Constants
    <3> QED BY <3>1 DEF ChainSectors
  <2> HIDE DEF n, m
  <2>3. f.Position > 0
    BY <2>1, <2>2, <1>4
  <2> QED BY <2>1, <2>3, <1>1 DEF HasLeft
<1> QED BY <1>2, <1>4, <1>5

\* An iteration keeps the cursor right and leaves the rest to be read.
LEMMA IterationSound ==
  ASSUME NEW h \in AllHandles, files[h] \in FileData, CursorOk(h, files[h]),
         NEW k \in Nat, HasLeft(files[h], k),
         NEW take \in 1 .. LeftInBuffer(files[h]), take <= k,
         NEW r \in Iteration(h, take)
  PROVE  /\ r.file \in FileData /\ CursorOk(h, r.file)
         /\ h # ROOT => r.file.Opened = files[h].Opened
         /\ r.end = "go" => HasLeft(r.file, k - take)
<1> DEFINE f == files[h]
<1>1. f.Position \in Nat /\ f.Size \in Nat /\ f.IsDirectory \in BOOLEAN
  BY DEF FileData
<1>2. LeftInBuffer(f) \in Nat
  BY SectorFacts, Constants
<1>3. CASE h = ROOT
  <2>1. f.Position + take <= f.Size
    BY <1>1, <1>2, <1>3, Constants DEF HasLeft, CursorOk, RootCursor
  <2>2. /\ r.file \in FileData /\ RootCursor(r.file)
        /\ r.file.Position = f.Position + take
    BY <1>3, <2>1, IterationOnRoot DEF CursorOk
  <2>3. r.file.Size = f.Size
    BY <1>3, <2>2 DEF CursorOk, RootCursor
  <2> QED BY <1>1, <1>2, <1>3, <2>2, <2>3, Constants DEF HasLeft, CursorOk, RootCursor
<1>4. CASE h # ROOT
  <2>1. h \in Handles /\ k \in Nat \ {0}
    BY <1>2, <1>4 DEF AllHandles
  <2>2. FollowsChain(f) /\ SectorIndex(f) < ChainSectors(f.FirstCluster)
    BY <1>4, <2>1, LeftMeansInside DEF CursorOk
  <2>3. f.Position + take <= f.Size \/ (f.IsDirectory /\ f.Size = 0)
    BY <1>1, <1>2 DEF HasLeft
  <2>4. /\ r.file \in FileData /\ SameFile(r.file, f)
        /\ r.file.Position = f.Position + take
        /\ FollowsChain(r.file)
        /\ r.end = "go" => r.file.Size = f.Size
    BY <2>1, <2>2, <2>3, IterationOnChain
  <2> QED BY <1>1, <1>2, <1>4, <2>4 DEF HasLeft, CursorOk, SameFile
<1> QED BY <1>3, <1>4

-----------------------------------------------------------------------------
(* The inductive invariant, action by action.                              *)

LEMMA HandleFacts ==
  /\ ROOT \in AllHandles /\ Handles \subseteq AllHandles
  /\ AllHandles \ {ROOT} = Handles
  /\ ROOT \notin Handles /\ NoFile \notin AllHandles
BY RootIsNoHandle DEF AllHandles

LEMMA ReadOutcome ==
  ASSUME NEW lba \in Int, NEW old \in Int \cup {TORN},
         NEW r \in DISK_ReadSectors(lba, old)
  PROVE  r.ok \in BOOLEAN /\ r.buffer \in Int \cup {TORN}
<1>1. r = [ok |-> TRUE, buffer |-> lba]
        \/ \E b \in {old, TORN} : r = [ok |-> FALSE, buffer |-> b]
  BY DEF DISK_ReadSectors
<1>2. CASE r = [ok |-> TRUE, buffer |-> lba]
  BY <1>2
<1>3. ASSUME NEW b \in {old, TORN}, r = [ok |-> FALSE, buffer |-> b]
      PROVE  r.ok \in BOOLEAN /\ r.buffer \in Int \cup {TORN}
  BY <1>3
<1> QED BY <1>1, <1>2, <1>3

LEMMA NoEntryOk == NoEntry \in EntryRecord /\ NoEntry.Name \in Name
<1>1. (CHOOSE n \in Name : TRUE) \in Name
  BY NameAssumption
<1> QED BY <1>1 DEF NoEntry, EntryRecord

\* A handle set up from an entry of the volume starts on its chain.
LEMMA EntryStartsOnChain ==
  ASSUME NEW e \in EntryRecord, SoundEntry(e), NEW o \in BOOLEAN,
         NEW b \in Int \cup {TORN}
  PROVE  /\ EntryFile(e, o, b) \in FileData
         /\ EntryFile(e, o, b).Opened = o
         /\ IsEmptyFile(EntryFile(e, o, b)) \/ FollowsChain(EntryFile(e, o, b))
<1> DEFINE f == EntryFile(e, o, b)
<1>1. /\ f \in FileData /\ f.Opened = o /\ f.Position = 0 /\ f.Size = e.Size
      /\ f.IsDirectory = e.IsDirectory /\ f.FirstCluster = e.FirstCluster
      /\ f.CurrentCluster = e.FirstCluster /\ f.CurrentSectorInCluster = 0
  BY DEF EntryFile, FileData, EntryRecord
<1> HIDE DEF f
<1>2. CASE e.Size = 0 /\ ~e.IsDirectory
  BY <1>1, <1>2 DEF IsEmptyFile, f
<1>3. CASE e.FirstCluster \in DOMAIN Chain
  <2>1. 0 \div SECTOR_SIZE = 0 /\ 0 \div SectorsPerCluster = 0
        /\ 0 % SectorsPerCluster = 0
    BY Constants
  <2>2. SectorIndex(f) = 0
    BY <1>1, <2>1 DEF SectorIndex
  <2>3. ChainSectors(e.FirstCluster) > 0 /\ Chain[e.FirstCluster][1] = e.FirstCluster
    <3>1. Len(Chain[e.FirstCluster]) \in Nat \ {0} /\ SectorsPerCluster \in Nat \ {0}
      BY <1>3, ChainFacts, Constants
    <3> QED BY <1>3, <3>1, ChainFacts DEF ChainSectors
  <2>4. ChainSectors(e.FirstCluster) \in Nat /\ f.Size \in Nat
    BY <1>1, <1>3, ChainFacts DEF FileData
  <2>5. FollowsChain(f)
    BY <1>1, <1>3, <2>1, <2>2, <2>3, <2>4 DEF FollowsChain
  <2> QED BY <1>1, <2>5 DEF f
<1> QED BY <1>2, <1>3 DEF SoundEntry

LEMMA InitHolds == Init => DriverInv
<1> SUFFICES ASSUME Init PROVE DriverInv
  OBVIOUS
<1>1. TypeOK
  <2>1. PICK flags \in [AllHandles -> BOOLEAN] :
          files = [h \in AllHandles |-> Blank(flags[h])]
    BY DEF Init
  <2>2. \A b \in BOOLEAN : Blank(b) \in FileData
    BY DEF Blank, FileData
  <2>3. files \in [AllHandles -> FileData]
    BY <2>1, <2>2
  <2> QED BY <2>3, NoEntryOk DEF Init, TypeOK
<1>2. pc = "boot" /\ held = {}
  BY DEF Init
<1> QED BY <1>1, <1>2 DEF DriverInv, OpenedIffOwned, CursorFollowsChain, CallState, Running

\* What the invariant says of a handle a call works on.
LEMMA CursorOkOf ==
  ASSUME DriverInv, Running, NEW h \in AllHandles, h = ROOT \/ files[h].Opened
  PROVE  files[h] \in FileData /\ CursorOk(h, files[h]) /\ HasLeft(files[h], 0)
<1>1. files[h] \in FileData
  BY DEF DriverInv, TypeOK
<1>2. CursorOk(h, files[h])
  BY HandleFacts DEF DriverInv, CursorFollowsChain, CursorOk, RootCursor
<1> QED BY <1>1, <1>2, CursorWithinSize

\* Rewinding the root directory keeps its cursor right.
LEMMA RootRewound ==
  ASSUME NEW f \in FileData, RootCursor(f)
  PROVE  Closed(ROOT, f) \in FileData /\ RootCursor(Closed(ROOT, f))
<1> DEFINE x == Closed(ROOT, f)
<1>1. /\ x \in FileData /\ SameFile(x, f) /\ x.Position = 0 /\ x.Size = f.Size
      /\ x.CurrentCluster = f.FirstCluster
  BY DEF Closed, FileData, SameFile
<1> HIDE DEF x
<1>2. 0 \div SECTOR_SIZE = 0
  BY Constants
<1> QED BY <1>1, <1>2, Constants DEF RootCursor, SectorIndex, SameFile, x

LEMMA CopiedType ==
  ASSUME NEW f \in FileData, NEW take \in Nat
  PROVE  Copied(f, take) \in Seq((Int \cup {TORN}) \X Nat)
<1>1. f.Buffer \in Int \cup {TORN} /\ f.Position % SECTOR_SIZE \in Nat
  BY Constants DEF FileData
<1>2. \A i \in 1 .. take : (f.Position % SECTOR_SIZE) + i - 1 \in Nat
  BY <1>1
<1> QED BY <1>1, <1>2 DEF Copied

\* What an iteration copies are the units from the cursor on, if the buffer
\* holds the sector under it.
LEMMA CopiedUnits ==
  ASSUME NEW f \in FileData, NEW take \in 1 .. LeftInBuffer(f), NEW c
  PROVE  /\ Len(Copied(f, take)) = take
         /\ \A j \in 1 .. take :
              /\ Copied(f, take)[j][1] = f.Buffer
              /\ f.Buffer = SectorOfChain(c, SectorIndex(f)) =>
                   Copied(f, take)[j] = UnitOfChain(c, f.Position + j - 1)
<1> DEFINE s == SECTOR_SIZE
           p == f.Position
           x == p % s
<1>1. s \in Nat \ {0} /\ p \in Nat /\ take \in Nat /\ x \in 0 .. s - 1
  BY SectorFacts, Constants DEF FileData
<1>2. take <= s - x
  BY DEF LeftInBuffer
<1>3. Copied(f, take) = [i \in 1 .. take |-> <<f.Buffer, x + i - 1>>]
  BY DEF Copied
<1>4. SectorIndex(f) = p \div s
  BY DEF SectorIndex
<1>5. ASSUME NEW j \in 1 .. take
      PROVE  (p + j - 1) \div s = p \div s /\ (p + j - 1) % s = x + j - 1
  <2>1. CASE j = 1
    <3>1. p + j - 1 = p /\ x + j - 1 = x
      BY <1>1, <2>1
    <3> QED BY <3>1
  <2>2. CASE j # 1
    <3> DEFINE t == j - 1
    <3>1. t \in 1 .. (s - x) /\ t < s - x
      BY <1>1, <1>2, <2>2
    <3>2. p + j - 1 = p + t /\ x + j - 1 = x + t
      BY <1>1
    <3> HIDE DEF t, p, s
    <3>3. (p + t) \div s = p \div s /\ (p + t) % s = (p % s) + t
      BY <1>1, <3>1, DivStep DEF x
    <3> QED BY <3>2, <3>3
  <2> QED BY <2>1, <2>2
<1>6. Len(Copied(f, take)) = take
  BY <1>1, <1>3
<1>7. ASSUME NEW j \in 1 .. take
      PROVE  /\ Copied(f, take)[j][1] = f.Buffer
             /\ f.Buffer = SectorOfChain(c, SectorIndex(f)) =>
                  Copied(f, take)[j] = UnitOfChain(c, f.Position + j - 1)
  <2>1. Copied(f, take)[j] = <<f.Buffer, x + j - 1>>
    BY <1>3
  <2>2. UnitOfChain(c, p + j - 1) = <<SectorOfChain(c, SectorIndex(f)), x + j - 1>>
    BY <1>4, <1>5 DEF UnitOfChain
  <2> QED BY <2>1, <2>2
<1> QED BY <1>6, <1>7

LEMMA Concatenation ==
  ASSUME NEW S, NEW s \in Seq(S), NEW t \in Seq(S)
  PROVE  /\ Len(s \o t) = Len(s) + Len(t) /\ Len(s) \in Nat /\ Len(t) \in Nat
         /\ \A j \in 1 .. Len(s \o t) :
              \/ j \in 1 .. Len(s) /\ (s \o t)[j] = s[j]
              \/ /\ j - Len(s) \in 1 .. Len(t)
                 /\ (s \o t)[j] = t[j - Len(s)]
OBVIOUS

\* Replacing one handle by one with a right cursor keeps all cursors right.
LEMMA CursorsKept ==
  ASSUME DriverInv, Running, NEW h \in AllHandles, NEW x \in FileData,
         CursorOk(h, x) \/ (h # ROOT /\ ~x.Opened),
         files' = [files EXCEPT ![h] = x]
  PROVE  CursorFollowsChain' /\ files' \in [AllHandles -> FileData]
<1>1. files \in [AllHandles -> FileData]
  BY DEF DriverInv, TypeOK
<1>2. files' \in [AllHandles -> FileData]
  BY <1>1
<1>3. RootCursor(files'[ROOT])
  BY <1>1, HandleFacts DEF DriverInv, CursorFollowsChain, CursorOk, RootCursor
<1>4. \A i \in Handles : files'[i].Opened => IsEmptyFile(files'[i]) \/ FollowsChain(files'[i])
  BY <1>1, HandleFacts DEF DriverInv, CursorFollowsChain, CursorOk
<1> QED BY <1>2, <1>3, <1>4 DEF CursorFollowsChain, RootCursor

LEMMA InitializeKeeps ==
  ASSUME DriverInv, FAT_Initialize \/ FAT_InitializeFails PROVE DriverInv'
<1>1. files \in [AllHandles -> FileData] /\ pc = "boot"
  BY DEF DriverInv, TypeOK, FAT_Initialize, FAT_InitializeFails
<1>2. \A b \in Int \cup {TORN} : RootFile(b) \in FileData
  BY Constants DEF RootFile, FileData
<1>3. \A h \in AllHandles : [files[h] EXCEPT !.Opened = FALSE] \in FileData
  BY <1>1 DEF FileData
<1>4. CASE FAT_InitializeFails
  <2>1. \A b \in {files[ROOT].Buffer, TORN} : b \in Int \cup {TORN}
    BY <1>1, HandleFacts DEF FileData
  <2>2. files' \in [AllHandles -> FileData]
    <3>1. CASE files' = files
      BY <1>1, <3>1
    <3>2. CASE files' # files
      <4>1. PICK b \in {files[ROOT].Buffer, TORN} :
              files' = [files EXCEPT ![ROOT] = RootFile(b)]
        BY <1>4, <3>2 DEF FAT_InitializeFails
      <4> QED BY <1>1, <1>2, <2>1, <4>1
    <3> QED BY <3>1, <3>2
  <2>3. TypeOK'
    BY <1>4, <2>2 DEF FAT_InitializeFails, DriverInv, TypeOK, openVars, readVars
  <2>4. pc' = "halt"
    BY <1>4 DEF FAT_InitializeFails
  <2> QED BY <2>3, <2>4
        DEF DriverInv, OpenedIffOwned, CursorFollowsChain, CallState, Running
<1>5. CASE FAT_Initialize
  <2> DEFINE new == [h \in AllHandles |->
                       IF h = ROOT THEN RootFile(RootDirLba)
                                   ELSE [files[h] EXCEPT !.Opened = FALSE]]
  <2>1. files' = new
    BY <1>5 DEF FAT_Initialize
  <2>2. new[ROOT] = RootFile(RootDirLba) /\ new \in [AllHandles -> FileData]
    BY <1>2, <1>3, HandleFacts, Constants
  <2>3. \A h \in Handles : ~new[h].Opened
    BY <1>1, HandleFacts DEF FileData
  <2> HIDE DEF new
  <2>4. TypeOK'
    BY <1>5, <2>1, <2>2 DEF FAT_Initialize, DriverInv, TypeOK, openVars, readVars
  <2>5. RootCursor(RootFile(RootDirLba))
    <3> DEFINE f == RootFile(RootDirLba)
    <3>1. /\ f.IsDirectory /\ f.Size = DirEntryCount /\ f.FirstCluster = RootDirLba
          /\ f.CurrentCluster = RootDirLba /\ f.Position = 0
      BY DEF RootFile
    <3> HIDE DEF f
    <3>2. 0 \div SECTOR_SIZE = 0
      BY Constants
    <3> QED BY <3>1, <3>2, Constants DEF RootCursor, SectorIndex, f
  <2>6. CursorFollowsChain'
    BY <2>1, <2>2, <2>3, <2>5 DEF CursorFollowsChain, RootCursor
  <2>7. held = {} /\ pc' = "idle" /\ held' = held
    BY <1>1, <1>5 DEF DriverInv, CallState, FAT_Initialize
  <2>8. OpenedIffOwned'
    BY <2>1, <2>3, <2>7 DEF OpenedIffOwned
  <2> QED BY <2>4, <2>6, <2>7, <2>8 DEF DriverInv, CallState
<1> QED BY <1>4, <1>5

\* Steps that only begin or end a call: no handle changes.
LEMMA ControlKeeps ==
  ASSUME DriverInv,
         \/ \E p \in Paths : FAT_Open(p)
         \/ OpenReturn \/ OpenComponent \/ OpenFault \/ ReadReturn
  PROVE  DriverInv'
<1>1. CASE \E p \in Paths : FAT_Open(p)
  <2>1. TypeOK'
    BY <1>1, HandleFacts, ClientAssumption DEF FAT_Open, DriverInv, TypeOK, readVars
  <2>2. OpenedIffOwned'
    BY <1>1, HandleFacts DEF FAT_Open, DriverInv, OpenedIffOwned, Running
  <2>3. CursorFollowsChain' /\ CallState'
    BY <1>1 DEF FAT_Open, DriverInv, CursorFollowsChain, CallState, Running, SectorIndex,
                FollowsChain, IsEmptyFile
  <2> QED BY <2>1, <2>2, <2>3 DEF DriverInv
<1>2. CASE OpenReturn
  <2>1. TypeOK'
    BY <1>2, HandleFacts DEF OpenReturn, DriverInv, TypeOK, readVars
  <2>2. OpenedIffOwned'
    BY <1>2, HandleFacts DEF OpenReturn, DriverInv, OpenedIffOwned, Running, TypeOK
  <2>3. CursorFollowsChain' /\ CallState'
    BY <1>2 DEF OpenReturn, DriverInv, CursorFollowsChain, CallState, Running
  <2> QED BY <2>1, <2>2, <2>3 DEF DriverInv
<1>3. CASE OpenComponent
  <2>1. TypeOK'
    BY <1>3, NameAssumption DEF OpenComponent, DriverInv, TypeOK, readVars
  <2>2. OpenedIffOwned'
    BY <1>3 DEF OpenComponent, DriverInv, OpenedIffOwned, Running
  <2>3. CursorFollowsChain' /\ CallState'
    BY <1>3 DEF OpenComponent, DriverInv, CursorFollowsChain, CallState, Running
  <2> QED BY <2>1, <2>2, <2>3 DEF DriverInv
<1>4. CASE OpenFault
  <2>1. TypeOK'
    BY <1>4 DEF OpenFault, DriverInv, TypeOK, readVars, openVars
  <2>2. OpenedIffOwned'
    BY <1>4, HandleFacts DEF OpenFault, DriverInv, OpenedIffOwned, Running, AllHandles, openVars
  <2>3. CursorFollowsChain' /\ CallState'
    BY <1>4 DEF OpenFault, DriverInv, CursorFollowsChain, CallState, Running
  <2> QED BY <2>1, <2>2, <2>3 DEF DriverInv
<1>5. CASE ReadReturn
  <2>1. TypeOK'
    BY <1>5 DEF ReadReturn, DriverInv, TypeOK
  <2>2. OpenedIffOwned'
    BY <1>5 DEF ReadReturn, DriverInv, OpenedIffOwned, Running
  <2>3. CursorFollowsChain' /\ CallState'
    BY <1>5 DEF ReadReturn, DriverInv, CursorFollowsChain, CallState, Running
  <2> QED BY <2>1, <2>2, <2>3 DEF DriverInv
<1> QED BY <1>1, <1>2, <1>3, <1>4, <1>5

\* A handle the client holds is open.
LEMMA HeldIsOpen ==
  ASSUME DriverInv, pc \in {"idle", "read"}, NEW h \in held
  PROVE  Running /\ h \in AllHandles /\ (h = ROOT \/ files[h].Opened)
<1>1. Running /\ h \in AllHandles
  BY DEF DriverInv, TypeOK, Running
<1>2. {i \in Handles : files[i].Opened} = held \cap Handles
  BY <1>1 DEF DriverInv, OpenedIffOwned
<1> QED BY <1>1, <1>2, HandleFacts

LEMMA ReadKeeps ==
  ASSUME DriverInv, NEW h \in held, NEW n \in ReadSizes, FAT_Read(h, n)
  PROVE  DriverInv'
<1>1. /\ files[h] \in FileData /\ HasLeft(files[h], 0) /\ h \in AllHandles
  BY HeldIsOpen, CursorOkOf DEF FAT_Read
<1>2. n \in Nat
  BY ClientAssumption
<1>3. want' \in Nat /\ HasLeft(files[h], want')
  BY <1>1, <1>2, BoundedFits DEF FAT_Read
<1>4. TypeOK'
  BY <1>1, <1>3 DEF FAT_Read, DriverInv, TypeOK
<1>5. OpenedIffOwned'
  BY DEF FAT_Read, DriverInv, OpenedIffOwned, Running
<1>6. CursorFollowsChain'
  BY DEF FAT_Read, DriverInv, CursorFollowsChain, Running
<1>7. CallState'
  BY <1>3 DEF FAT_Read, CallState, HasLeft
<1> QED BY <1>4, <1>5, <1>6, <1>7 DEF DriverInv

LEMMA CloseKeeps ==
  ASSUME DriverInv, NEW h \in held, FAT_Close(h)
  PROVE  DriverInv'
<1>1. /\ files[h] \in FileData /\ CursorOk(h, files[h]) /\ h \in AllHandles
      /\ Running /\ pc = "idle"
  BY HeldIsOpen, CursorOkOf DEF FAT_Close
<1> DEFINE x == Closed(h, files[h])
<1>2. x \in FileData /\ (CursorOk(h, x) \/ (h # ROOT /\ ~x.Opened))
  <2>1. CASE h # ROOT
    BY <1>1, <2>1 DEF Closed, FileData
  <2>2. CASE h = ROOT
    BY <1>1, <2>2, RootRewound DEF CursorOk
  <2> QED BY <2>1, <2>2
<1>3. files' = [files EXCEPT ![h] = x]
  BY DEF FAT_Close, DriverInv, TypeOK
<1>4. h # ROOT => ~x.Opened
  BY <1>1 DEF Closed, FileData
<1> HIDE DEF x
<1>5. CursorFollowsChain' /\ files' \in [AllHandles -> FileData]
  BY <1>1, <1>2, <1>3, CursorsKept
<1>6. TypeOK'
  BY <1>5 DEF FAT_Close, DriverInv, TypeOK, openVars, readVars
<1>7. OpenedIffOwned'
  <2>1. {i \in Handles : files[i].Opened} = held \cap Handles
    BY <1>1 DEF DriverInv, OpenedIffOwned
  <2>2. \A i \in Handles : files'[i].Opened <=> (files[i].Opened /\ i # h)
    BY <1>1, <1>3, <1>4, HandleFacts DEF DriverInv, TypeOK
  <2>3. held' = held \ {h} /\ pc' = "idle"
    BY <1>1 DEF FAT_Close
  <2> QED BY <2>1, <2>2, <2>3 DEF OpenedIffOwned
<1>8. CallState'
  BY <1>1 DEF FAT_Close, CallState
<1> QED BY <1>5, <1>6, <1>7, <1>8 DEF DriverInv

LEMMA ReadLoopKeeps == ASSUME DriverInv, ReadLoop PROVE DriverInv'
<1>1. /\ pc = "read" /\ cur \in held /\ want \in Nat /\ want > 0
      /\ HasLeft(files[cur], want)
  BY DEF ReadLoop, DriverInv, TypeOK, CallState, HasLeft
<1>2. /\ files[cur] \in FileData /\ CursorOk(cur, files[cur]) /\ cur \in AllHandles
      /\ Running /\ (cur = ROOT \/ files[cur].Opened)
  BY <1>1, HeldIsOpen, CursorOkOf
<1> DEFINE take == Min2(want, LeftInBuffer(files[cur]))
<1>3. take \in 1 .. LeftInBuffer(files[cur]) /\ take <= want /\ take \in Nat
  BY <1>1, <1>2, SectorFacts, Constants DEF Min2
<1>4. PICK r \in Iteration(cur, take) :
        /\ files' = [files EXCEPT ![cur] = r.file]
        /\ want' = IF r.end = "go" THEN want - take ELSE 0
        /\ out' = out \o Copied(files[cur], take)
        /\ lost' = LostAfter(cur, take, r)
  BY DEF ReadLoop
<1> HIDE DEF take
<1>5. /\ r.file \in FileData /\ CursorOk(cur, r.file)
      /\ cur # ROOT => r.file.Opened = files[cur].Opened
      /\ r.end = "go" => HasLeft(r.file, want - take)
  BY <1>1, <1>2, <1>3, <1>4, IterationSound
<1>6. CursorFollowsChain' /\ files' \in [AllHandles -> FileData]
  BY <1>2, <1>4, <1>5, CursorsKept
<1>7. want' \in Nat /\ HasLeft(r.file, want')
  <2>1. HasLeft(r.file, 0)
    BY <1>2, <1>5, CursorWithinSize
  <2>2. want - take \in Nat
    BY <1>1, <1>3
  <2> QED BY <1>4, <1>5, <2>1, <2>2
<1>8. TypeOK'
  <2>1. Copied(files[cur], take) \in Seq((Int \cup {TORN}) \X Nat)
    BY <1>2, <1>3, CopiedType
  <2>2. out' \in Seq((Int \cup {TORN}) \X Nat)
    BY <1>4, <2>1 DEF DriverInv, TypeOK
  <2>3. lost' \subseteq AllHandles
    BY <1>2, <1>4 DEF LostAfter, DriverInv, TypeOK
  <2> QED BY <1>6, <1>7, <2>2, <2>3 DEF ReadLoop, DriverInv, TypeOK, openVars
<1>9. OpenedIffOwned'
  <2>1. \A i \in Handles : files'[i].Opened = files[i].Opened
    BY <1>2, <1>4, <1>5, HandleFacts DEF DriverInv, TypeOK
  <2> QED BY <1>2, <2>1 DEF ReadLoop, DriverInv, OpenedIffOwned, openVars, Running
<1>10. CallState'
  <2>1. files'[cur] = r.file
    BY <1>2, <1>4 DEF DriverInv, TypeOK
  <2> QED BY <1>1, <1>7, <2>1 DEF ReadLoop, CallState, HasLeft, openVars
<1> QED BY <1>6, <1>8, <1>9, <1>10 DEF DriverInv

\* What the invariant says of the directory a search stands on.
LEMMA Searched ==
  ASSUME DriverInv, pc = "find"
  PROVE  /\ Running /\ cur \in AllHandles /\ (cur = ROOT \/ files[cur].Opened)
         /\ files[cur] \in FileData /\ CursorOk(cur, files[cur])
         /\ HasLeft(files[cur], 0)
<1>1. Running /\ cur \in AllHandles
  BY DEF DriverInv, TypeOK, CallState, Running
<1>2. {i \in Handles : files[i].Opened} = (held \cap Handles) \cup ({cur} \cap Handles)
  BY <1>1 DEF DriverInv, OpenedIffOwned
<1>3. cur = ROOT \/ files[cur].Opened
  BY <1>1, <1>2, HandleFacts
<1> QED BY <1>1, <1>3, CursorOkOf

\* Closing the directory a search stands on.
LEMMA ClosedCursor ==
  ASSUME NEW h \in AllHandles, NEW f \in FileData, CursorOk(h, f)
  PROVE  /\ Closed(h, f) \in FileData
         /\ CursorOk(h, Closed(h, f)) \/ (h # ROOT /\ ~Closed(h, f).Opened)
         /\ h # ROOT => ~Closed(h, f).Opened
<1>1. CASE h # ROOT
  BY <1>1 DEF Closed, FileData
<1>2. CASE h = ROOT
  BY <1>2, RootRewound DEF CursorOk
<1> QED BY <1>1, <1>2

\* Giving the searched directory back when the search ends.
LEMMA SearchEnds ==
  ASSUME DriverInv, pc = "find", NEW x, cur # ROOT => ~x.Opened,
         files' = [files EXCEPT ![cur] = x],
         held' = held, pc' \in {"idle", "enter"}
  PROVE  OpenedIffOwned'
<1>1. {i \in Handles : files[i].Opened} = (held \cap Handles) \cup ({cur} \cap Handles)
  BY Searched DEF DriverInv, OpenedIffOwned
<1>2. held \cap ({cur} \cap Handles) = {}
  BY Searched DEF DriverInv, OpenedIffOwned
<1>3. \A i \in Handles : files'[i].Opened <=> (files[i].Opened /\ i # cur)
  BY Searched, HandleFacts DEF DriverInv, TypeOK
<1> QED BY <1>1, <1>2, <1>3 DEF OpenedIffOwned

LEMMA SearchStepKeeps == ASSUME DriverInv, SearchStep PROVE DriverInv'
<1>1. /\ pc = "find" /\ Bounded(files[cur], 1) = 1
      /\ Running /\ cur \in AllHandles /\ (cur = ROOT \/ files[cur].Opened)
      /\ files[cur] \in FileData /\ CursorOk(cur, files[cur])
      /\ HasLeft(files[cur], 0)
  BY Searched DEF SearchStep
<1>2. HasLeft(files[cur], 1) /\ 1 \in 1 .. LeftInBuffer(files[cur])
  <2>1. HasLeft(files[cur], Bounded(files[cur], 1))
    BY <1>1, BoundedFits
  <2> QED BY <1>1, <2>1, SectorFacts, Constants
<1>3. PICK r \in Iteration(cur, 1) :
        /\ lost' = LostAfter(cur, 1, r)
        /\ LET at == EntryAt(files[cur]) IN
           \/ /\ Matches(at, fatName)
              /\ files' = [files EXCEPT ![cur] = Closed(cur, r.file)]
              /\ entry' = Entry[at] /\ fatName' = NoEntry.Name
              /\ cur' = NoFile /\ pc' = "enter"
           \/ /\ ~Matches(at, fatName)
              /\ files' = [files EXCEPT ![cur] = r.file]
              /\ UNCHANGED <<pc, cur, fatName, entry>>
  BY DEF SearchStep
<1>4. /\ r.file \in FileData /\ CursorOk(cur, r.file)
      /\ cur # ROOT => r.file.Opened = files[cur].Opened
  BY <1>1, <1>2, <1>3, IterationSound
<1>5. lost' \subseteq AllHandles
  BY <1>1, <1>3 DEF LostAfter, DriverInv, TypeOK
<1> DEFINE at == EntryAt(files[cur])
           x == Closed(cur, r.file)
<1>6. CASE Matches(at, fatName)
  <2>1. /\ files' = [files EXCEPT ![cur] = x] /\ entry' = Entry[at]
        /\ fatName' = NoEntry.Name /\ cur' = NoFile /\ pc' = "enter"
    BY <1>3, <1>6
  <2>2. x \in FileData /\ (CursorOk(cur, x) \/ (cur # ROOT /\ ~x.Opened))
        /\ (cur # ROOT => ~x.Opened)
    BY <1>1, <1>4, ClosedCursor
  <2> HIDE DEF x
  <2>3. CursorFollowsChain' /\ files' \in [AllHandles -> FileData]
    BY <1>1, <2>1, <2>2, CursorsKept
  <2>4. at \in DOMAIN Entry
    BY <1>6 DEF Matches
  <2> HIDE DEF at
  <2>5. entry' \in EntryRecord /\ SoundEntry(entry')
    BY <2>1, <2>4, EntryAssumption
  <2>6. TypeOK'
    BY <1>5, <2>1, <2>3, <2>5, NoEntryOk DEF SearchStep, DriverInv, TypeOK, readVars
  <2>7. OpenedIffOwned'
    BY <1>1, <2>1, <2>2, SearchEnds DEF SearchStep
  <2>8. CallState'
    BY <2>1, <2>5 DEF CallState, SoundEntry
  <2> QED BY <2>3, <2>6, <2>7, <2>8 DEF DriverInv
<1>7. CASE ~Matches(at, fatName)
  <2>1. files' = [files EXCEPT ![cur] = r.file] /\ UNCHANGED <<pc, cur, fatName, entry>>
    BY <1>3, <1>7
  <2>2. CursorFollowsChain' /\ files' \in [AllHandles -> FileData]
    BY <1>1, <1>4, <2>1, CursorsKept
  <2>3. TypeOK'
    BY <1>5, <2>1, <2>2 DEF SearchStep, DriverInv, TypeOK, readVars
  <2>4. \A i \in Handles : files'[i].Opened = files[i].Opened
    BY <1>1, <1>4, <2>1, HandleFacts DEF DriverInv, TypeOK
  <2>5. OpenedIffOwned'
    BY <1>1, <2>1, <2>4 DEF SearchStep, DriverInv, OpenedIffOwned, Running
  <2>6. CallState'
    BY <1>1, <2>1 DEF DriverInv, CallState
  <2> QED BY <2>2, <2>3, <2>5, <2>6 DEF DriverInv
<1> QED BY <1>6, <1>7

LEMMA NotFoundKeeps == ASSUME DriverInv, NotFound PROVE DriverInv'
<1>1. /\ pc = "find" /\ Running /\ cur \in AllHandles
      /\ files[cur] \in FileData /\ CursorOk(cur, files[cur])
  BY Searched DEF NotFound
<1> DEFINE x == Closed(cur, files[cur])
<1>2. x \in FileData /\ (CursorOk(cur, x) \/ (cur # ROOT /\ ~x.Opened))
      /\ (cur # ROOT => ~x.Opened)
  BY <1>1, ClosedCursor
<1>3. files' = [files EXCEPT ![cur] = x]
  BY DEF NotFound
<1> HIDE DEF x
<1>4. CursorFollowsChain' /\ files' \in [AllHandles -> FileData]
  BY <1>1, <1>2, <1>3, CursorsKept
<1>5. TypeOK'
  BY <1>4, NoEntryOk DEF NotFound, DriverInv, TypeOK, readVars
<1>6. OpenedIffOwned'
  BY <1>1, <1>2, <1>3, SearchEnds DEF NotFound
<1>7. CallState'
  BY DEF NotFound, CallState
<1> QED BY <1>4, <1>5, <1>6, <1>7 DEF DriverInv

LEMMA OpenEntryKeeps == ASSUME DriverInv, FAT_OpenEntry PROVE DriverInv'
<1>1. pc = "enter" /\ Running /\ entry \in EntryRecord /\ SoundEntry(entry)
  BY DEF FAT_OpenEntry, DriverInv, TypeOK, CallState, Running
<1>2. {i \in Handles : files[i].Opened} = held \cap Handles
  BY <1>1 DEF DriverInv, OpenedIffOwned
<1>3. CASE FreeHandles = {} /\ cur' = NoFile /\ UNCHANGED <<files, lost>>
  <2>1. TypeOK'
    BY <1>3, NoEntryOk DEF FAT_OpenEntry, DriverInv, TypeOK, readVars
  <2>2. OpenedIffOwned'
    BY <1>2, <1>3, HandleFacts DEF FAT_OpenEntry, OpenedIffOwned
  <2>3. CursorFollowsChain' /\ CallState'
    BY <1>1, <1>3 DEF FAT_OpenEntry, DriverInv, CursorFollowsChain, CallState, Running
  <2> QED BY <2>1, <2>2, <2>3 DEF DriverInv
<1>4. ASSUME NEW h \in FreeHandles,
             NEW r \in DISK_ReadSectors(FAT_ClusterToLba(entry.FirstCluster), files[h].Buffer),
             files' = [files EXCEPT ![h] = EntryFile(entry, r.ok, r.buffer)],
             cur' = IF r.ok THEN h ELSE NoFile,
             lost' = lost \ {h}
      PROVE  DriverInv'
  <2>1. h \in Handles /\ h \in AllHandles /\ h # ROOT /\ ~files[h].Opened
        /\ files[h] \in FileData
    BY HandleFacts DEF FreeHandles, DriverInv, TypeOK
  <2>2. FAT_ClusterToLba(entry.FirstCluster) \in Int /\ files[h].Buffer \in Int \cup {TORN}
    BY <1>1, <2>1, Constants DEF FAT_ClusterToLba, EntryRecord, FileData
  <2>3. r.ok \in BOOLEAN /\ r.buffer \in Int \cup {TORN}
    BY <2>2, ReadOutcome
  <2> DEFINE x == EntryFile(entry, r.ok, r.buffer)
  <2>4. x \in FileData /\ x.Opened = r.ok /\ CursorOk(h, x)
    BY <1>1, <2>1, <2>3, EntryStartsOnChain DEF CursorOk
  <2>5. files' = [files EXCEPT ![h] = x]
    BY <1>4
  <2> HIDE DEF x
  <2>6. CursorFollowsChain' /\ files' \in [AllHandles -> FileData]
    BY <1>1, <2>1, <2>4, <2>5, CursorsKept
  <2>7. TypeOK'
    BY <1>4, <2>1, <2>6, NoEntryOk DEF FAT_OpenEntry, DriverInv, TypeOK, readVars
  <2>8. h \notin held
    BY <1>2, <2>1
  <2>9. \A i \in Handles : files'[i].Opened <=> files[i].Opened \/ (i = h /\ r.ok)
    BY <2>1, <2>4, <2>5 DEF DriverInv, TypeOK
  <2>10. OpenedIffOwned'
    BY <1>2, <1>4, <2>1, <2>8, <2>9, HandleFacts DEF FAT_OpenEntry, OpenedIffOwned
  <2>11. CallState'
    BY <1>4, <2>8 DEF FAT_OpenEntry, CallState
  <2> QED BY <2>6, <2>7, <2>10, <2>11 DEF DriverInv
<1> QED BY <1>3, <1>4 DEF FAT_OpenEntry

LEMMA StutterKeeps == ASSUME DriverInv, UNCHANGED vars PROVE DriverInv'
<1>1. TypeOK'
  BY DEF DriverInv, TypeOK, vars, openVars, readVars
<1>2. OpenedIffOwned'
  BY DEF DriverInv, OpenedIffOwned, Running, vars, openVars
<1>3. CursorFollowsChain' /\ CallState'
  BY DEF DriverInv, CursorFollowsChain, CallState, Running, vars, openVars, readVars
<1> QED BY <1>1, <1>2, <1>3 DEF DriverInv

LEMMA StepKeeps == DriverInv /\ [Next]_vars => DriverInv'
<1> SUFFICES ASSUME DriverInv, [Next]_vars PROVE DriverInv'
  OBVIOUS
<1>1. CASE Boot
  BY <1>1, InitializeKeeps DEF Boot
<1>2. CASE Client
  <2>1. CASE \E p \in Paths : FAT_Open(p)
    BY <2>1, ControlKeeps
  <2>2. CASE \E h \in held, n \in ReadSizes : FAT_Read(h, n)
    BY <2>2, ReadKeeps
  <2>3. CASE \E h \in held : FAT_Close(h)
    BY <2>3, CloseKeeps
  <2> QED BY <1>2, <2>1, <2>2, <2>3 DEF Client
<1>3. CASE Driver
  BY <1>3, ControlKeeps, SearchStepKeeps, NotFoundKeeps, OpenEntryKeeps, ReadLoopKeeps
     DEF Driver
<1>4. CASE Stopped \/ UNCHANGED vars
  BY <1>4, StutterKeeps DEF Stopped
<1> QED BY <1>1, <1>2, <1>3, <1>4 DEF Next

\* In every behaviour of the driver, for every volume that is sound and every
\* client that calls it as fat.h allows, the inductive invariant holds.
THEOREM DriverInvariant == Spec => []DriverInv
<1>1. Init => DriverInv
  BY InitHolds
<1>2. DriverInv /\ [Next]_vars => DriverInv'
  BY StepKeeps
<1> QED BY <1>1, <1>2, PTL DEF Spec

\* Handles are never leaked or handed out twice: Opened says exactly who owns
\* one, on every path through FAT_Open and FAT_OpenEntry.
THEOREM HandlesOwned == Spec => []OpenedIffOwned
<1>1. DriverInv => OpenedIffOwned
  BY DEF DriverInv
<1> QED BY <1>1, DriverInvariant, PTL

\* The cursor of every open handle is the one its position says, with any
\* number of disk errors: FAT_NextCluster is only asked for clusters of the
\* chain, and Size - Position never wraps.
THEOREM CursorsCorrect == Spec => []CursorFollowsChain
<1>1. DriverInv => CursorFollowsChain
  BY DEF DriverInv
<1> QED BY <1>1, DriverInvariant, PTL

-----------------------------------------------------------------------------
(* The buffers.                                                            *)

OwnBuffer(f) ==
  f.FirstCluster \in DOMAIN Chain => f.Buffer \in OwnSectors(f.FirstCluster) \cup {TORN}

RightBuffer(f) ==
  HasSector(f) => f.Buffer = SectorOfChain(f.FirstCluster, SectorIndex(f))

\* What both buffer invariants say, handle by handle.
BuffersOk ==
  Running => \A h \in Handles :
    files[h].Opened => OwnBuffer(files[h]) /\ (h \notin lost => RightBuffer(files[h]))

LEMMA BuffersOkMeans == BuffersOk <=> BufferUnderCursor /\ NoForeignSector
BY DEF BuffersOk, BufferUnderCursor, NoForeignSector, OwnBuffer, RightBuffer

\* An iteration on a file leaves a buffer of the file, and the right one
\* unless the read failed.
LEMMA IterationBuffer ==
  ASSUME NEW h \in Handles, files[h] \in FileData,
         IsEmptyFile(files[h]) \/ FollowsChain(files[h]),
         NEW k \in Nat \ {0}, HasLeft(files[h], k),
         NEW take \in 1 .. LeftInBuffer(files[h]), take <= k,
         NEW r \in Iteration(h, take),
         OwnBuffer(files[h]), h \notin lost => RightBuffer(files[h])
  PROVE  OwnBuffer(r.file) /\ (h \notin LostAfter(h, take, r) => RightBuffer(r.file))
<1> DEFINE f == files[h]
           c == f.FirstCluster
<1>1. FollowsChain(f) /\ SectorIndex(f) < ChainSectors(c) /\ c \in DOMAIN Chain
  BY LeftMeansInside DEF FollowsChain
<1>2. f.Position \in Nat /\ f.Size \in Nat /\ LeftInBuffer(f) \in Nat
  BY SectorFacts, Constants DEF FileData
<1>3. f.Position + take <= f.Size \/ (f.IsDirectory /\ f.Size = 0)
  BY <1>2 DEF HasLeft
<1>4. /\ r.file \in FileData /\ SameFile(r.file, f)
      /\ \/ /\ take < LeftInBuffer(f) /\ r.end = "go"
            /\ r.file.Buffer = f.Buffer /\ SectorIndex(r.file) = SectorIndex(f)
         \/ /\ take = LeftInBuffer(f) /\ r.end = "go"
            /\ SectorIndex(r.file) < ChainSectors(c)
            /\ r.file.Buffer = SectorOfChain(c, SectorIndex(r.file))
         \/ /\ take = LeftInBuffer(f) /\ r.end = "error"
            /\ r.file.Buffer \in {f.Buffer, TORN}
         \/ /\ take = LeftInBuffer(f) /\ r.end = "eof"
            /\ r.file.Buffer = f.Buffer
            /\ SectorIndex(r.file) >= ChainSectors(c)
  BY <1>1, <1>3, IterationOnChain
<1>5. /\ r.file.FirstCluster = c /\ SectorIndex(r.file) \in Nat
      /\ SectorIndex(f) \in Nat /\ ChainSectors(c) \in Nat
  BY <1>1, <1>4, SectorFacts, ChainFacts DEF SameFile
<1>6. OwnBuffer(r.file)
  <2>1. CASE r.file.Buffer \in {f.Buffer, TORN}
    BY <2>1, <1>5 DEF OwnBuffer
  <2>2. CASE /\ SectorIndex(r.file) < ChainSectors(c)
             /\ r.file.Buffer = SectorOfChain(c, SectorIndex(r.file))
    <3>1. SectorIndex(r.file) \in 0 .. ChainSectors(c) - 1
      BY <2>2, <1>5
    <3> QED BY <2>2, <3>1, <1>5 DEF OwnBuffer, OwnSectors
  <2> QED BY <1>4, <2>1, <2>2
<1>7. ASSUME h \notin LostAfter(h, take, r) PROVE RightBuffer(r.file)
  <2>1. CASE take < LeftInBuffer(f)
    <3>1. h \notin lost
      BY <1>7, <2>1 DEF LostAfter
    <3> QED BY <1>2, <1>4, <1>5, <2>1, <3>1 DEF RightBuffer, HasSector
  <2>2. CASE take = LeftInBuffer(f)
    <3>1. r.end # "error"
      BY <1>2, <1>7, <2>2 DEF LostAfter
    <3> QED BY <1>2, <1>4, <1>5, <2>2, <3>1 DEF RightBuffer, HasSector
  <2> QED BY <1>2, <2>1, <2>2
<1> QED BY <1>6, <1>7

\* A buffer just filled by FAT_OpenEntry is the first sector of the file.
LEMMA EntryBuffer ==
  ASSUME NEW e \in EntryRecord,
         NEW f, f = EntryFile(e, TRUE, FAT_ClusterToLba(e.FirstCluster))
  PROVE  OwnBuffer(f) /\ RightBuffer(f)
<1>1. /\ f.FirstCluster = e.FirstCluster /\ f.Position = 0
      /\ f.Buffer = FAT_ClusterToLba(e.FirstCluster)
  BY DEF EntryFile
<1> SUFFICES ASSUME e.FirstCluster \in DOMAIN Chain PROVE OwnBuffer(f) /\ RightBuffer(f)
  BY <1>1 DEF OwnBuffer, RightBuffer, HasSector
<1>2. 0 \div SECTOR_SIZE = 0 /\ 0 \div SectorsPerCluster = 0 /\ 0 % SectorsPerCluster = 0
  BY Constants
<1>3. SectorIndex(f) = 0
  BY <1>1, <1>2 DEF SectorIndex
<1>4. Chain[e.FirstCluster][1] = e.FirstCluster
  BY ChainFacts
<1>5. f.Buffer = SectorOfChain(e.FirstCluster, 0)
  <2>1. e.FirstCluster \in Nat
    BY DEF EntryRecord
  <2>2. SectorOfChain(e.FirstCluster, 0) = FAT_ClusterToLba(e.FirstCluster)
    BY <1>2, <1>4, <2>1, Constants DEF SectorOfChain, FAT_ClusterToLba
  <2> QED BY <1>1, <2>2
<1>6. 0 \in 0 .. ChainSectors(e.FirstCluster) - 1
  <2>1. Len(Chain[e.FirstCluster]) \in Nat \ {0} /\ SectorsPerCluster \in Nat \ {0}
    BY ChainFacts, Constants
  <2>2. Len(Chain[e.FirstCluster]) * SectorsPerCluster \in Nat \ {0}
    BY <2>1
  <2> QED BY <2>2 DEF ChainSectors
<1> QED BY <1>1, <1>3, <1>5, <1>6 DEF OwnBuffer, RightBuffer, OwnSectors, HasSector

LEMMA BuffersInit == Init => BuffersOk
BY DEF Init, BuffersOk, Running

LEMMA BuffersStep == DriverInv /\ BuffersOk /\ [Next]_vars => BuffersOk'
<1> SUFFICES ASSUME DriverInv, BuffersOk, [Next]_vars, Running', NEW i \in Handles,
                    files'[i].Opened
             PROVE  OwnBuffer(files'[i]) /\ (i \notin lost' => RightBuffer(files'[i]))
  BY DEF BuffersOk
<1>1. files \in [AllHandles -> FileData] /\ i \in AllHandles /\ i # ROOT
  BY HandleFacts DEF DriverInv, TypeOK
<1>2. ASSUME Running, files'[i] = files[i], lost' \ {ROOT} = lost \ {ROOT}
      PROVE  OwnBuffer(files'[i]) /\ (i \notin lost' => RightBuffer(files'[i]))
  BY <1>1, <1>2 DEF BuffersOk
<1>3. ASSUME Running, NEW h \in AllHandles, NEW x, files' = [files EXCEPT ![h] = x],
             lost' \ {h} = lost \ {h}, i # h
      PROVE  OwnBuffer(files'[i]) /\ (i \notin lost' => RightBuffer(files'[i]))
  BY <1>1, <1>3 DEF BuffersOk
<1>4. CASE Boot
  <2>1. CASE FAT_Initialize
    BY <1>1, <2>1 DEF FAT_Initialize, FileData
  <2>2. CASE FAT_InitializeFails
    BY <2>2 DEF FAT_InitializeFails, Running
  <2> QED BY <1>4, <2>1, <2>2 DEF Boot
<1>5. CASE \/ \E p \in Paths : FAT_Open(p)
           \/ \E h \in held, n \in ReadSizes : FAT_Read(h, n)
           \/ OpenReturn \/ OpenComponent \/ OpenFault \/ ReadReturn
           \/ Stopped \/ UNCHANGED vars
  <2>1. Running /\ files' = files /\ lost' = lost
    BY <1>5 DEF FAT_Open, FAT_Read, OpenReturn, OpenComponent, OpenFault, ReadReturn,
                Stopped, Running, vars
  <2> QED BY <1>2, <2>1
<1>6. CASE \E h \in held : FAT_Close(h)
  <2>1. PICK h \in held : FAT_Close(h)
    BY <1>6
  <2>2. h \in AllHandles /\ files[h] \in FileData
    BY <1>1 DEF DriverInv, TypeOK
  <2>3. Running /\ files' = [files EXCEPT ![h] = Closed(h, files[h])] /\ lost' = lost
    BY <2>1, <2>2, <1>1 DEF FAT_Close, Running
  <2>4. i # h
    BY <1>1, <2>2, <2>3 DEF Closed, FileData
  <2> QED BY <1>3, <2>2, <2>3, <2>4
<1>7. CASE ReadLoop
  <2>1. /\ pc = "read" /\ cur \in held /\ want \in Nat /\ want > 0
        /\ HasLeft(files[cur], want)
    BY <1>7 DEF ReadLoop, DriverInv, TypeOK, CallState, HasLeft
  <2>2. /\ files[cur] \in FileData /\ CursorOk(cur, files[cur]) /\ cur \in AllHandles
        /\ Running /\ (cur = ROOT \/ files[cur].Opened)
    BY <2>1, HeldIsOpen, CursorOkOf
  <2> DEFINE take == Min2(want, LeftInBuffer(files[cur]))
  <2>3. take \in 1 .. LeftInBuffer(files[cur]) /\ take <= want /\ want \in Nat \ {0}
    BY <2>1, <2>2, SectorFacts, Constants DEF Min2
  <2>4. PICK r \in Iteration(cur, take) :
          files' = [files EXCEPT ![cur] = r.file] /\ lost' = LostAfter(cur, take, r)
    BY <1>7 DEF ReadLoop
  <2> HIDE DEF take
  <2>5. CASE i = cur
    <3>1. OwnBuffer(files[cur]) /\ (cur \notin lost => RightBuffer(files[cur]))
      BY <1>1, <2>2, <2>5 DEF BuffersOk
    <3>2. IsEmptyFile(files[cur]) \/ FollowsChain(files[cur])
      BY <1>1, <2>2, <2>5 DEF CursorOk
    <3>3. OwnBuffer(r.file) /\ (cur \notin LostAfter(cur, take, r) => RightBuffer(r.file))
      BY <2>1, <2>2, <2>3, <2>4, <2>5, <3>1, <3>2, IterationBuffer
    <3> QED BY <1>1, <2>4, <2>5, <3>3
  <2>6. lost' \ {cur} = lost \ {cur}
    BY <2>4 DEF LostAfter
  <2> QED BY <1>3, <2>2, <2>4, <2>5, <2>6
<1>8. CASE SearchStep
  <2>1. /\ Running /\ cur \in AllHandles /\ (cur = ROOT \/ files[cur].Opened)
        /\ files[cur] \in FileData /\ CursorOk(cur, files[cur])
        /\ HasLeft(files[cur], 0) /\ Bounded(files[cur], 1) = 1
    BY <1>8, Searched DEF SearchStep
  <2>2. HasLeft(files[cur], 1) /\ 1 \in 1 .. LeftInBuffer(files[cur])
    <3>1. HasLeft(files[cur], Bounded(files[cur], 1))
      BY <2>1, BoundedFits
    <3> QED BY <2>1, <3>1, SectorFacts, Constants
  <2>3. PICK r \in Iteration(cur, 1) :
          /\ lost' = LostAfter(cur, 1, r)
          /\ \/ files' = [files EXCEPT ![cur] = Closed(cur, r.file)]
             \/ files' = [files EXCEPT ![cur] = r.file]
    BY <1>8 DEF SearchStep
  <2>4. r.file \in FileData
    BY <2>1, <2>2, <2>3, IterationSound
  <2>5. lost' \ {cur} = lost \ {cur}
    BY <2>3 DEF LostAfter
  <2>6. CASE i = cur
    <3>1. files'[i] = r.file
      <4>1. i # ROOT => ~Closed(cur, r.file).Opened
        BY <2>4, <2>6 DEF Closed, FileData
      <4> QED BY <1>1, <2>3, <2>6, <4>1
    <3>2. OwnBuffer(files[cur]) /\ (cur \notin lost => RightBuffer(files[cur]))
      BY <1>1, <2>1, <2>6 DEF BuffersOk
    <3>3. IsEmptyFile(files[cur]) \/ FollowsChain(files[cur])
      BY <1>1, <2>1, <2>6 DEF CursorOk
    <3>4. OwnBuffer(r.file) /\ (cur \notin LostAfter(cur, 1, r) => RightBuffer(r.file))
      BY <2>1, <2>2, <2>3, <2>6, <3>2, <3>3, IterationBuffer
    <3> QED BY <2>3, <2>6, <3>1, <3>4
  <2>7. CASE i # cur
    BY <1>3, <2>1, <2>3, <2>5, <2>7
  <2> QED BY <2>6, <2>7
<1>9. CASE NotFound
  <2>1. /\ Running /\ cur \in AllHandles /\ files[cur] \in FileData
        /\ files' = [files EXCEPT ![cur] = Closed(cur, files[cur])] /\ lost' = lost
    BY <1>9, <1>1, Searched DEF NotFound
  <2>2. i # cur
    BY <1>1, <2>1 DEF Closed, FileData
  <2> QED BY <1>3, <2>1, <2>2
<1>10. CASE FAT_OpenEntry
  <2>1. Running /\ entry \in EntryRecord
    BY <1>10 DEF FAT_OpenEntry, Running, DriverInv, TypeOK
  <2>2. CASE FreeHandles = {} /\ UNCHANGED <<files, lost>>
    BY <1>2, <2>1, <2>2
  <2>3. ASSUME NEW h \in FreeHandles,
               NEW r \in DISK_ReadSectors(FAT_ClusterToLba(entry.FirstCluster), files[h].Buffer),
               files' = [files EXCEPT ![h] = EntryFile(entry, r.ok, r.buffer)],
               lost' = lost \ {h}
        PROVE  OwnBuffer(files'[i]) /\ (i \notin lost' => RightBuffer(files'[i]))
    <3>1. h \in AllHandles
      BY HandleFacts DEF FreeHandles
    <3>2. CASE i # h
      BY <1>3, <2>1, <2>3, <3>1, <3>2
    <3>3. CASE i = h
      <4>1. files'[i] = EntryFile(entry, r.ok, r.buffer)
        BY <1>1, <2>3, <3>3
      <4>2. r.ok
        BY <4>1 DEF EntryFile
      <4>3. r.buffer = FAT_ClusterToLba(entry.FirstCluster) /\ r.ok = TRUE
        BY <4>2 DEF DISK_ReadSectors
      <4> QED BY <2>1, <4>1, <4>3, EntryBuffer
    <3> QED BY <3>2, <3>3
  <2> QED BY <1>10, <2>2, <2>3 DEF FAT_OpenEntry
<1> QED BY <1>4, <1>5, <1>6, <1>7, <1>8, <1>9, <1>10 DEF Next, Client, Driver

\* FAT_Read copies from the sector under the cursor as long as the last read
\* of the handle succeeded, and never from another file's sector.
THEOREM BuffersCorrect == Spec => [](BufferUnderCursor /\ NoForeignSector)
<1>1. Init => BuffersOk
  BY BuffersInit
<1>2. DriverInv /\ BuffersOk /\ [Next]_vars => BuffersOk'
  BY BuffersStep
<1>3. BuffersOk <=> BufferUnderCursor /\ NoForeignSector
  BY BuffersOkMeans
<1> QED BY <1>1, <1>2, <1>3, DriverInvariant, PTL DEF Spec

\* Whatever reads failed: a search or a read never sees another file's data.
THEOREM NoForeignBuffer == Spec => []NoForeignSector
BY BuffersCorrect, PTL

\* A step changes no handle the client holds, but the one the call is about.
LEMMA StepLeavesHeld ==
  DriverInv /\ [Next]_vars =>
    [\A h \in held \cap Handles : files'[h] # files[h] => h = cur \/ h \notin held']_vars
<1> SUFFICES ASSUME DriverInv, Next, NEW h \in held \cap Handles, files'[h] # files[h]
             PROVE  h = cur \/ h \notin held'
  OBVIOUS
<1>1. files \in [AllHandles -> FileData] /\ h \in AllHandles /\ h # ROOT
  BY HandleFacts DEF DriverInv, TypeOK
<1>2. CASE Boot
  <2>1. CASE FAT_Initialize
    BY <2>1 DEF FAT_Initialize, DriverInv, CallState
  <2>2. CASE FAT_InitializeFails
    BY <2>2 DEF FAT_InitializeFails, DriverInv, CallState
  <2> QED BY <1>2, <2>1, <2>2 DEF Boot
<1>3. CASE \/ \E p \in Paths : FAT_Open(p)
           \/ \E i \in held, n \in ReadSizes : FAT_Read(i, n)
           \/ OpenReturn \/ OpenComponent \/ OpenFault \/ ReadReturn \/ Stopped
  BY <1>3 DEF FAT_Open, FAT_Read, OpenReturn, OpenComponent, OpenFault, ReadReturn,
              Stopped, vars
<1>4. CASE \E i \in held : FAT_Close(i)
  <2>1. PICK i \in held : FAT_Close(i)
    BY <1>4
  <2>2. h = i
    BY <1>1, <2>1 DEF FAT_Close
  <2> QED BY <2>1, <2>2 DEF FAT_Close
<1>5. CASE ReadLoop \/ SearchStep \/ NotFound
  BY <1>1, <1>5 DEF ReadLoop, SearchStep, NotFound
<1>6. CASE FAT_OpenEntry
  <2>1. {i \in Handles : files[i].Opened} = held \cap Handles
    BY <1>6 DEF FAT_OpenEntry, DriverInv, OpenedIffOwned, Running
  <2>2. h \notin FreeHandles
    BY <2>1 DEF FreeHandles
  <2> QED BY <1>1, <1>6, <2>2 DEF FAT_OpenEntry
<1> QED BY <1>2, <1>3, <1>4, <1>5, <1>6 DEF Next, Client, Driver

\* Opening, reading and closing other files leaves a held handle alone.
THEOREM HeldHandlesUndisturbed == Spec => HeldUndisturbed
<1>1. DriverInv /\ [Next]_vars =>
        [\A h \in held \cap Handles : files'[h] # files[h] => h = cur \/ h \notin held']_vars
  BY StepLeavesHeld
<1> QED BY <1>1, DriverInvariant, PTL DEF Spec, HeldUndisturbed

-----------------------------------------------------------------------------
(* The file behind an open handle.                                         *)

\* f is a handle on the file of entry e.  The size of a directory is 0 until
\* FAT_Read finds the end of its chain.
FileOf(f, e) ==
  /\ f.FirstCluster = e.FirstCluster /\ f.IsDirectory = e.IsDirectory
  /\ \/ f.Size = e.Size
     \/ f.IsDirectory /\ SectorIndex(f) = ChainSectors(f.FirstCluster)

LEMMA EntryIsSound ==
  ASSUME NEW at \in DOMAIN Entry
  PROVE  /\ Entry[at] \in EntryRecord /\ SoundEntry(Entry[at])
         /\ Entry[at].FirstCluster \in Nat /\ Entry[at].Size \in Nat
         /\ Entry[at].IsDirectory \in BOOLEAN
BY EntryAssumption DEF EntryRecord

\* A position never passes the end of the stream.
LEMMA PositionInStream ==
  ASSUME NEW f \in FileData, IsEmptyFile(f) \/ FollowsChain(f), HasLeft(f, 0)
  PROVE  /\ StreamLen(f) \in Nat /\ f.Position \in 0 .. StreamLen(f)
         /\ FollowsChain(f) /\ SectorIndex(f) >= ChainSectors(f.FirstCluster) =>
              /\ f.Position = f.Size
              /\ f.Position = ChainSectors(f.FirstCluster) * SECTOR_SIZE
<1>1. f.Position \in Nat /\ f.Size \in Nat /\ f.IsDirectory \in BOOLEAN
  BY DEF FileData
<1> DEFINE m == ChainSectors(f.FirstCluster)
           n == SectorIndex(f)
<1>2. FollowsChain(f) /\ n >= m => n = m /\ f.Position = n * SECTOR_SIZE /\ f.Position = f.Size
  BY DEF FollowsChain
<1>3. CASE ~f.IsDirectory
  <2>1. StreamLen(f) = f.Size /\ f.Position <= f.Size
    BY <1>1, <1>3 DEF StreamLen, HasLeft
  <2> QED BY <1>1, <1>2, <2>1
<1>4. CASE f.IsDirectory
  <2>1. FollowsChain(f) /\ f.FirstCluster \in DOMAIN Chain
    BY <1>4 DEF IsEmptyFile, FollowsChain
  <2>2. m \in Nat /\ SECTOR_SIZE \in Nat \ {0} /\ n \in Nat
    BY <2>1, ChainFacts, SectorFacts, Constants
  <2>3. StreamLen(f) = m * SECTOR_SIZE
    BY <1>4 DEF StreamLen
  <2>4. n < m => f.Position < m * SECTOR_SIZE
    BY <1>1, <2>2, DivBound DEF SectorIndex
  <2> HIDE DEF n, m
  <2>5. m * SECTOR_SIZE \in Nat
    BY <2>2
  <2> QED BY <1>1, <1>2, <2>1, <2>2, <2>3, <2>4, <2>5 DEF n, m
<1> QED BY <1>1, <1>3, <1>4

\* A file fits its chain.
LEMMA SizeFitsChain ==
  ASSUME NEW at \in DOMAIN Entry, Entry[at].FirstCluster \in DOMAIN Chain
  PROVE  Entry[at].Size <= ChainSectors(Entry[at].FirstCluster) * SECTOR_SIZE
<1> DEFINE c == Entry[at].FirstCluster
<1>1. Len(Chain[c]) \in Nat /\ SectorsPerCluster \in Nat /\ SECTOR_SIZE \in Nat
  BY ChainFacts, Constants
<1>2. Entry[at].Size = 0 \/ Entry[at].Size <= Len(Chain[c]) * ClusterSize
  BY EntryIsSound DEF SoundEntry
<1>3. Len(Chain[c]) * ClusterSize = ChainSectors(c) * SECTOR_SIZE
  <2>1. \A x, y, z \in Nat : x * (y * z) = (x * y) * z
    OBVIOUS
  <2> QED BY ONLY <1>1, <2>1 DEF ClusterSize, ChainSectors
<1>4. ChainSectors(c) * SECTOR_SIZE \in Nat
  BY <1>1, ChainFacts
<1> QED BY <1>2, <1>3, <1>4

\* An iteration stays on its file, inside its stream, and reaches the end of
\* the file exactly at the end of the stream.
LEMMA IterationReads ==
  ASSUME NEW h \in Handles, files[h] \in FileData,
         IsEmptyFile(files[h]) \/ FollowsChain(files[h]),
         NEW at \in DOMAIN Entry, FileOf(files[h], Entry[at]),
         NEW k \in Nat \ {0}, HasLeft(files[h], k),
         NEW take \in 1 .. LeftInBuffer(files[h]), take <= k,
         NEW r \in Iteration(h, take)
  PROVE  /\ r.file \in FileData /\ SameFile(r.file, files[h])
         /\ FileOf(r.file, Entry[at])
         /\ r.file.Position = files[h].Position + take
         /\ StreamLen(r.file) = StreamLen(files[h])
         /\ files[h].Position + take <= StreamLen(files[h])
         /\ r.end = "eof" => files[h].Position + take = StreamLen(files[h])
         /\ r.end \in {"go", "eof", "error"}
         /\ r.end = "error" => OnBadSector(files[h].FirstCluster)
<1> DEFINE f == files[h]
           g == r.file
           c == f.FirstCluster
           e == Entry[at]
<1>1. FollowsChain(f) /\ SectorIndex(f) < ChainSectors(c) /\ c \in DOMAIN Chain
  BY LeftMeansInside DEF FollowsChain
<1>2. f.Position \in Nat /\ f.Size \in Nat /\ f.IsDirectory \in BOOLEAN /\ take \in Nat \ {0}
  BY SectorFacts, Constants DEF FileData
<1>3. f.Position + take <= f.Size \/ (f.IsDirectory /\ f.Size = 0)
  BY <1>2 DEF HasLeft
<1>4. /\ g \in FileData /\ SameFile(g, f) /\ FollowsChain(g)
      /\ g.Position = f.Position + take
      /\ r.end # "eof" => g.Size = f.Size
  BY <1>1, <1>3, IterationOnChain
<1>0. r.end \in {"go", "eof", "error"} /\ (r.end = "error" => OnBadSector(c))
  <2>1. /\ r.end = "error" => OnBadSector(c)
        /\ r.end = "go" \/ r.end = "error" \/ r.end = "eof"
    BY <1>1, <1>3, IterationOnChain
  <2> QED BY <2>1
<1>5. r.end = "eof" => SectorIndex(g) >= ChainSectors(c)
  <2>1. \/ r.end = "go" \/ r.end = "error"
        \/ r.end = "eof" /\ SectorIndex(g) >= ChainSectors(c)
    BY <1>1, <1>3, IterationOnChain
  <2> QED BY <2>1
<1>6. /\ g.FirstCluster = c /\ g.IsDirectory = f.IsDirectory
      /\ g.Position \in Nat /\ g.Size \in Nat
  BY <1>4 DEF SameFile, FileData
<1>7. e.FirstCluster = c /\ e.IsDirectory = f.IsDirectory /\ e.Size \in Nat
  BY EntryIsSound DEF FileOf
<1> DEFINE m == ChainSectors(c)
           bytes == m * SECTOR_SIZE
<1>8. m \in Nat /\ bytes \in Nat
  BY <1>1, ChainFacts, Constants
<1>9. SectorIndex(f) # m
  BY <1>1, <1>8, SectorFacts
<1>10. f.Size = e.Size
  BY <1>7, <1>9 DEF FileOf
<1>11. r.end = "eof" => g.Position = bytes /\ g.Size = g.Position /\ SectorIndex(g) = m
  BY <1>4, <1>5, <1>6 DEF FollowsChain
<1>12. CASE f.IsDirectory
  <2>1. StreamLen(g) = bytes /\ StreamLen(f) = bytes
    BY <1>6, <1>12 DEF StreamLen
  <2>2. g.Position <= bytes
    <3>1. CASE SectorIndex(g) < m
      <4>1. g.Position < m * SECTOR_SIZE
        BY <1>6, <1>8, <3>1, Constants, DivBound DEF SectorIndex
      <4> QED BY <1>6, <1>8, <4>1
    <3>2. CASE SectorIndex(g) >= m
      BY <1>4, <1>6, <1>8, <3>2 DEF FollowsChain
    <3>3. SectorIndex(g) \in Nat
      BY <1>4, SectorFacts
    <3> QED BY <1>8, <3>1, <3>2, <3>3
  <2>3. FileOf(g, e)
    BY <1>4, <1>6, <1>7, <1>10, <1>11, <1>12 DEF FileOf
  <2> HIDE DEF f, g, c, e, bytes
  <2> QED BY <1>0, <1>4, <1>11, <2>1, <2>2, <2>3 DEF f, g, e, c
<1>13. CASE ~f.IsDirectory
  <2>1. f.Position + take <= f.Size
    BY <1>3, <1>13
  <2>2. r.end = "eof" => f.Size <= bytes
    BY <1>1, <1>7, <1>10, SizeFitsChain
  <2> HIDE DEF bytes
  <2>3. g.Size = f.Size /\ (r.end = "eof" => f.Position + take = f.Size)
    BY <1>2, <1>4, <1>6, <1>8, <1>11, <2>1, <2>2
  <2>4. StreamLen(g) = g.Size /\ StreamLen(f) = f.Size
    BY <1>6, <1>13 DEF StreamLen
  <2>5. FileOf(g, e)
    BY <1>6, <1>7, <1>10, <2>3 DEF FileOf
  <2> HIDE DEF f, g, c, e
  <2> QED BY <1>0, <1>4, <2>1, <2>3, <2>4, <2>5 DEF f, g, e, c
<1> QED BY <1>12, <1>13

\* Every handle in use, and the one a lookup is about to take, is on the file
\* of an entry; a lookup starts at the beginning of it.
EntryInv ==
  /\ pc = "enter" => \E at \in DOMAIN Entry : entry = Entry[at]
  /\ pc = "open" /\ cur \in Handles => files[cur].Position = 0
  /\ Running => \A h \in Handles :
       files[h].Opened => \E at \in DOMAIN Entry : FileOf(files[h], Entry[at])

LEMMA EntryInit == Init => EntryInv
BY DEF Init, EntryInv, Running

\* What happens to the file of the call in progress.
LEMMA FileKept ==
  ASSUME DriverInv, EntryInv, Running, NEW h \in AllHandles, NEW x,
         files' = [files EXCEPT ![h] = x],
         h \in Handles /\ x.Opened => \E at \in DOMAIN Entry : FileOf(x, Entry[at])
  PROVE  \A i \in Handles :
           files'[i].Opened => \E at \in DOMAIN Entry : FileOf(files'[i], Entry[at])
<1>1. files \in [AllHandles -> FileData] /\ Handles \subseteq AllHandles
  BY HandleFacts DEF DriverInv, TypeOK
<1> SUFFICES ASSUME NEW i \in Handles, files'[i].Opened
             PROVE  \E at \in DOMAIN Entry : FileOf(files'[i], Entry[at])
  OBVIOUS
<1>2. CASE i = h
  BY <1>1, <1>2
<1>3. CASE i # h
  <2>1. files'[i] = files[i]
    BY <1>1, <1>3
  <2> QED BY <2>1 DEF EntryInv
<1> QED BY <1>2, <1>3

\* An iteration of a copy loop or a search keeps the file.
LEMMA IterationKeepsFile ==
  ASSUME DriverInv, EntryInv, Running, cur \in AllHandles,
         cur = ROOT \/ files[cur].Opened,
         NEW k \in Nat \ {0}, HasLeft(files[cur], k),
         NEW take \in 1 .. LeftInBuffer(files[cur]), take <= k,
         NEW r \in Iteration(cur, take),
         cur \in Handles
  PROVE  \E at \in DOMAIN Entry : FileOf(r.file, Entry[at])
<1>1. files[cur] \in FileData /\ (IsEmptyFile(files[cur]) \/ FollowsChain(files[cur]))
  BY CursorOkOf, HandleFacts DEF CursorOk
<1>2. PICK at \in DOMAIN Entry : FileOf(files[cur], Entry[at])
  BY HandleFacts DEF EntryInv
<1>3. FileOf(r.file, Entry[at])
  BY <1>1, <1>2, IterationReads
<1> QED BY <1>3

LEMMA EntryStep == DriverInv /\ EntryInv /\ [Next]_vars => EntryInv'
<1> SUFFICES ASSUME DriverInv, EntryInv, [Next]_vars PROVE EntryInv'
  OBVIOUS
<1>1. CASE Boot
  <2>1. CASE FAT_Initialize
    <3>1. pc' = "idle" /\ \A h \in Handles : ~files'[h].Opened
      BY <2>1, HandleFacts DEF FAT_Initialize, DriverInv, TypeOK, FileData
    <3> QED BY <3>1 DEF EntryInv
  <2>2. CASE FAT_InitializeFails
    BY <2>2 DEF FAT_InitializeFails, EntryInv, Running
  <2> QED BY <1>1, <2>1, <2>2 DEF Boot
<1>2. CASE \/ \E p \in Paths : FAT_Open(p)
           \/ \E h \in held, n \in ReadSizes : FAT_Read(h, n)
           \/ OpenReturn \/ OpenComponent \/ OpenFault \/ ReadReturn
  <2>1. Running /\ files' = files /\ pc' # "enter" /\ (pc' = "open" => cur' = ROOT)
    BY <1>2 DEF FAT_Open, FAT_Read, OpenReturn, OpenComponent, OpenFault, ReadReturn, Running
  <2> QED BY <2>1, HandleFacts DEF EntryInv
<1>3. CASE \E h \in held : FAT_Close(h)
  <2>1. PICK h \in held : FAT_Close(h)
    BY <1>3
  <2>2. h \in AllHandles /\ files[h] \in FileData /\ Running /\ pc' = "idle"
        /\ files' = [files EXCEPT ![h] = Closed(h, files[h])]
    BY <2>1 DEF FAT_Close, DriverInv, TypeOK, Running
  <2>3. h \in Handles => ~Closed(h, files[h]).Opened
    BY <2>2, HandleFacts DEF Closed, FileData
  <2>4. \A i \in Handles :
          files'[i].Opened => \E at \in DOMAIN Entry : FileOf(files'[i], Entry[at])
    BY <2>2, <2>3, FileKept
  <2> QED BY <2>2, <2>4 DEF EntryInv
<1>4. CASE ReadLoop
  <2>1. /\ pc = "read" /\ pc' = "read" /\ cur \in held /\ want \in Nat \ {0}
        /\ HasLeft(files[cur], want)
    BY <1>4 DEF ReadLoop, DriverInv, TypeOK, CallState, HasLeft
  <2>2. /\ files[cur] \in FileData /\ cur \in AllHandles
        /\ Running /\ (cur = ROOT \/ files[cur].Opened)
    BY <2>1, HeldIsOpen, CursorOkOf
  <2> DEFINE take == Min2(want, LeftInBuffer(files[cur]))
  <2>3. take \in 1 .. LeftInBuffer(files[cur]) /\ take <= want
    BY <2>1, <2>2, SectorFacts, Constants DEF Min2
  <2>4. PICK r \in Iteration(cur, take) : files' = [files EXCEPT ![cur] = r.file]
    BY <1>4 DEF ReadLoop
  <2> HIDE DEF take
  <2>5. cur \in Handles => \E at \in DOMAIN Entry : FileOf(r.file, Entry[at])
    BY <2>1, <2>2, <2>3, IterationKeepsFile
  <2>6. \A i \in Handles :
          files'[i].Opened => \E at \in DOMAIN Entry : FileOf(files'[i], Entry[at])
    BY <2>2, <2>4, <2>5, FileKept
  <2> QED BY <2>1, <2>6 DEF EntryInv
<1>5. CASE SearchStep
  <2>1. /\ Running /\ cur \in AllHandles /\ (cur = ROOT \/ files[cur].Opened)
        /\ files[cur] \in FileData /\ HasLeft(files[cur], 0)
        /\ Bounded(files[cur], 1) = 1 /\ pc = "find"
    BY <1>5, Searched DEF SearchStep
  <2>2. HasLeft(files[cur], 1) /\ 1 \in 1 .. LeftInBuffer(files[cur])
    <3>1. HasLeft(files[cur], Bounded(files[cur], 1))
      BY <2>1, BoundedFits
    <3> QED BY <2>1, <3>1, SectorFacts, Constants
  <2>3. PICK r \in Iteration(cur, 1) :
          \/ /\ files' = [files EXCEPT ![cur] = Closed(cur, r.file)]
             /\ pc' = "enter"
             /\ EntryAt(files[cur]) \in DOMAIN Entry /\ entry' = Entry[EntryAt(files[cur])]
          \/ /\ files' = [files EXCEPT ![cur] = r.file] /\ pc' = "find"
    BY <1>5, <2>1 DEF SearchStep, Matches
  <2>4. cur \in Handles => \E at \in DOMAIN Entry : FileOf(r.file, Entry[at])
    BY <2>1, <2>2, IterationKeepsFile
  <2>5. cur \in Handles => ~Closed(cur, r.file).Opened
    <3>1. r.file \in FileData
      BY <2>1, <2>2, IterationSound, Searched
    <3> QED BY <3>1, HandleFacts DEF Closed, FileData
  <2>6. \A i \in Handles :
          files'[i].Opened => \E at \in DOMAIN Entry : FileOf(files'[i], Entry[at])
    <3>1. CASE files' = [files EXCEPT ![cur] = Closed(cur, r.file)]
      BY <2>1, <2>5, <3>1, FileKept
    <3>2. CASE files' = [files EXCEPT ![cur] = r.file]
      BY <2>1, <2>4, <3>2, FileKept
    <3> QED BY <2>3, <3>1, <3>2
  <2> QED BY <2>3, <2>6 DEF EntryInv
<1>6. CASE NotFound
  <2>1. /\ Running /\ cur \in AllHandles /\ files[cur] \in FileData /\ pc' = "idle"
        /\ files' = [files EXCEPT ![cur] = Closed(cur, files[cur])]
    BY <1>6, Searched DEF NotFound, DriverInv, TypeOK
  <2>2. cur \in Handles => ~Closed(cur, files[cur]).Opened
    BY <2>1, HandleFacts DEF Closed, FileData
  <2>3. \A i \in Handles :
          files'[i].Opened => \E at \in DOMAIN Entry : FileOf(files'[i], Entry[at])
    BY <2>1, <2>2, FileKept
  <2> QED BY <2>1, <2>3 DEF EntryInv
<1>7. CASE FAT_OpenEntry
  <2>1. Running /\ pc' = "open" /\ files \in [AllHandles -> FileData]
    BY <1>7 DEF FAT_OpenEntry, Running, DriverInv, TypeOK
  <2>2. PICK at \in DOMAIN Entry : entry = Entry[at]
    BY <1>7 DEF FAT_OpenEntry, EntryInv
  <2>3. CASE cur' = NoFile /\ files' = files
    BY <2>1, <2>3, HandleFacts DEF EntryInv
  <2>4. ASSUME NEW h \in FreeHandles,
               NEW r \in DISK_ReadSectors(FAT_ClusterToLba(entry.FirstCluster), files[h].Buffer),
               files' = [files EXCEPT ![h] = EntryFile(entry, r.ok, r.buffer)],
               cur' \in {h, NoFile}
        PROVE  EntryInv'
    <3> DEFINE x == EntryFile(entry, r.ok, r.buffer)
    <3>1. h \in Handles /\ h \in AllHandles
      BY HandleFacts DEF FreeHandles
    <3>2. FileOf(x, Entry[at]) /\ x.Position = 0
      BY <2>2 DEF FileOf, EntryFile
    <3> HIDE DEF x
    <3>3. files' = [files EXCEPT ![h] = x]
      BY <2>4 DEF x
    <3>4. \A i \in Handles :
            files'[i].Opened => \E a \in DOMAIN Entry : FileOf(files'[i], Entry[a])
      BY <2>1, <3>1, <3>2, <3>3, FileKept
    <3>5. cur' \in Handles => files'[cur'].Position = 0
      BY <2>1, <2>4, <3>1, <3>2, <3>3, HandleFacts
    <3> QED BY <2>1, <3>4, <3>5 DEF EntryInv
  <2> QED BY <1>7, <2>3, <2>4 DEF FAT_OpenEntry
<1>8. CASE Stopped \/ UNCHANGED vars
  <2>1. files' = files /\ pc' = pc /\ cur' = cur /\ entry' = entry
    BY <1>8 DEF Stopped, vars, openVars
  <2> QED BY <2>1 DEF EntryInv, Running, FileOf, SectorIndex
<1> QED BY <1>1, <1>2, <1>3, <1>4, <1>5, <1>6, <1>7, <1>8 DEF Next, Client, Driver

LEMMA HandlesOnEntries == Spec => []EntryInv
BY EntryInit, EntryStep, DriverInvariant, PTL DEF Spec

-----------------------------------------------------------------------------
(* Reads that failed.                                                      *)

\* The last read of a handle can only have failed on a file with a bad sector;
\* a handle just opened has been read.
LostInv ==
  /\ \A h \in Handles \cap lost : OnBadSector(files[h].FirstCluster)
  /\ pc = "open" => cur \notin Handles \cap lost

\* One handle changes.
LEMMA LostKept ==
  ASSUME LostInv, files \in [AllHandles -> FileData], NEW h \in AllHandles, NEW x,
         files' = [files EXCEPT ![h] = x], lost' \subseteq lost \cup {h},
         h \in Handles \cap lost' => OnBadSector(x.FirstCluster)
  PROVE  \A i \in Handles \cap lost' : OnBadSector(files'[i].FirstCluster)
<1> SUFFICES ASSUME NEW i \in Handles \cap lost' PROVE OnBadSector(files'[i].FirstCluster)
  OBVIOUS
<1>1. CASE i = h
  BY <1>1
<1>2. CASE i # h
  <2>1. i \in AllHandles /\ i \in lost
    BY <1>2, HandleFacts
  <2> QED BY <1>2, <2>1 DEF LostInv
<1> QED BY <1>1, <1>2

LEMMA LostAfterIteration ==
  ASSUME DriverInv, EntryInv, LostInv, Running, cur \in AllHandles,
         cur = ROOT \/ files[cur].Opened,
         NEW k \in Nat \ {0}, HasLeft(files[cur], k),
         NEW take \in 1 .. LeftInBuffer(files[cur]), take <= k,
         NEW r \in Iteration(cur, take)
  PROVE  /\ LostAfter(cur, take, r) \subseteq lost \cup {cur}
         /\ cur \in Handles \cap LostAfter(cur, take, r) => OnBadSector(r.file.FirstCluster)
<1>1. LostAfter(cur, take, r) \subseteq lost \cup {cur}
  BY DEF LostAfter
<1>2. ASSUME cur \in Handles, cur \in LostAfter(cur, take, r)
      PROVE  OnBadSector(r.file.FirstCluster)
  <2>1. /\ files[cur] \in FileData
        /\ IsEmptyFile(files[cur]) \/ FollowsChain(files[cur])
    BY <1>2, CursorOkOf, HandleFacts DEF CursorOk
  <2>2. PICK at \in DOMAIN Entry : FileOf(files[cur], Entry[at])
    BY <1>2, HandleFacts DEF EntryInv
  <2>3. /\ SameFile(r.file, files[cur])
        /\ r.end = "error" => OnBadSector(files[cur].FirstCluster)
    BY <1>2, <2>1, <2>2, IterationReads
  <2>4. r.end = "error" \/ cur \in lost
    BY <1>2 DEF LostAfter
  <2> QED BY <1>2, <2>3, <2>4 DEF LostInv, SameFile
<1> QED BY <1>1, <1>2

LEMMA LostStep == DriverInv /\ EntryInv /\ LostInv /\ [Next]_vars => LostInv'
<1> SUFFICES ASSUME DriverInv, EntryInv, LostInv, [Next]_vars PROVE LostInv'
  OBVIOUS
<1>1. files \in [AllHandles -> FileData]
  BY DEF DriverInv, TypeOK
<1>2. CASE Boot
  <2>1. pc' # "open" /\ lost' = lost
    BY <1>2 DEF Boot, FAT_Initialize, FAT_InitializeFails
  <2>2. \A h \in Handles : files'[h].FirstCluster = files[h].FirstCluster
    <3>1. CASE FAT_Initialize
      BY <1>1, <3>1, HandleFacts DEF FAT_Initialize
    <3>2. CASE FAT_InitializeFails
      BY <1>1, <3>2, HandleFacts DEF FAT_InitializeFails
    <3> QED BY <1>2, <3>1, <3>2 DEF Boot
  <2> QED BY <2>1, <2>2 DEF LostInv
<1>3. CASE \/ \E p \in Paths : FAT_Open(p)
           \/ \E h \in held, n \in ReadSizes : FAT_Read(h, n)
           \/ OpenReturn \/ OpenComponent \/ OpenFault \/ ReadReturn
  <2>1. files' = files /\ lost' = lost /\ (pc' = "open" => cur' = ROOT)
    BY <1>3 DEF FAT_Open, FAT_Read, OpenReturn, OpenComponent, OpenFault, ReadReturn
  <2> QED BY <2>1, HandleFacts DEF LostInv
<1>4. CASE \E h \in held : FAT_Close(h)
  <2>1. PICK h \in held : FAT_Close(h)
    BY <1>4
  <2>2. /\ h \in AllHandles /\ pc' = "idle" /\ lost' = lost
        /\ files' = [files EXCEPT ![h] = Closed(h, files[h])]
    BY <2>1 DEF FAT_Close, DriverInv, TypeOK
  <2>3. Closed(h, files[h]).FirstCluster = files[h].FirstCluster
    BY <1>1, <2>2 DEF Closed, FileData
  <2>4. \A i \in Handles \cap lost' : OnBadSector(files'[i].FirstCluster)
    BY <1>1, <2>2, <2>3, LostKept DEF LostInv
  <2> QED BY <2>2, <2>4 DEF LostInv
<1>5. CASE ReadLoop
  <2>1. /\ pc = "read" /\ pc' = "read" /\ cur \in held /\ want \in Nat \ {0}
        /\ HasLeft(files[cur], want)
    BY <1>5 DEF ReadLoop, DriverInv, TypeOK, CallState, HasLeft
  <2>2. /\ files[cur] \in FileData /\ cur \in AllHandles
        /\ Running /\ (cur = ROOT \/ files[cur].Opened)
    BY <2>1, HeldIsOpen, CursorOkOf
  <2> DEFINE take == Min2(want, LeftInBuffer(files[cur]))
  <2>3. take \in 1 .. LeftInBuffer(files[cur]) /\ take <= want
    BY <2>1, <2>2, SectorFacts, Constants DEF Min2
  <2>4. PICK r \in Iteration(cur, take) :
          files' = [files EXCEPT ![cur] = r.file] /\ lost' = LostAfter(cur, take, r)
    BY <1>5 DEF ReadLoop
  <2> HIDE DEF take
  <2>5. /\ lost' \subseteq lost \cup {cur}
        /\ cur \in Handles \cap lost' => OnBadSector(r.file.FirstCluster)
    BY <2>1, <2>2, <2>3, <2>4, LostAfterIteration
  <2>6. \A i \in Handles \cap lost' : OnBadSector(files'[i].FirstCluster)
    BY <1>1, <2>2, <2>4, <2>5, LostKept
  <2> QED BY <2>1, <2>6 DEF LostInv
<1>6. CASE SearchStep
  <2>1. /\ Running /\ cur \in AllHandles /\ (cur = ROOT \/ files[cur].Opened)
        /\ files[cur] \in FileData /\ HasLeft(files[cur], 0)
        /\ Bounded(files[cur], 1) = 1 /\ pc = "find"
    BY <1>6, Searched DEF SearchStep
  <2>2. HasLeft(files[cur], 1) /\ 1 \in 1 .. LeftInBuffer(files[cur])
    <3>1. HasLeft(files[cur], Bounded(files[cur], 1))
      BY <2>1, BoundedFits
    <3> QED BY <2>1, <3>1, SectorFacts, Constants
  <2>3. PICK r \in Iteration(cur, 1) :
          /\ lost' = LostAfter(cur, 1, r)
          /\ \/ files' = [files EXCEPT ![cur] = Closed(cur, r.file)] /\ pc' = "enter"
             \/ files' = [files EXCEPT ![cur] = r.file] /\ pc' = "find"
    BY <1>6, <2>1 DEF SearchStep
  <2>4. /\ lost' \subseteq lost \cup {cur}
        /\ cur \in Handles \cap lost' => OnBadSector(r.file.FirstCluster)
    BY <2>1, <2>2, <2>3, LostAfterIteration
  <2>5. Closed(cur, r.file).FirstCluster = r.file.FirstCluster
    <3>1. r.file \in FileData
      BY <2>1, <2>2, IterationSound, Searched
    <3> QED BY <3>1 DEF Closed, FileData
  <2>6. \A i \in Handles \cap lost' : OnBadSector(files'[i].FirstCluster)
    <3>1. CASE files' = [files EXCEPT ![cur] = Closed(cur, r.file)]
      BY <1>1, <2>1, <2>4, <2>5, <3>1, LostKept
    <3>2. CASE files' = [files EXCEPT ![cur] = r.file]
      BY <1>1, <2>1, <2>4, <3>2, LostKept
    <3> QED BY <2>3, <3>1, <3>2
  <2> QED BY <2>3, <2>6 DEF LostInv
<1>7. CASE NotFound
  <2>1. /\ cur \in AllHandles /\ pc' = "idle" /\ lost' = lost
        /\ files' = [files EXCEPT ![cur] = Closed(cur, files[cur])]
    BY <1>1, <1>7, Searched DEF NotFound
  <2>2. Closed(cur, files[cur]).FirstCluster = files[cur].FirstCluster
    BY <1>1, <2>1 DEF Closed, FileData
  <2>3. \A i \in Handles \cap lost' : OnBadSector(files'[i].FirstCluster)
    BY <1>1, <2>1, <2>2, LostKept DEF LostInv
  <2> QED BY <2>1, <2>3 DEF LostInv
<1>8. CASE FAT_OpenEntry
  <2>1. CASE files' = files /\ lost' = lost /\ cur' = NoFile
    BY <2>1, HandleFacts DEF LostInv
  <2>2. ASSUME NEW h \in FreeHandles, NEW x, files' = [files EXCEPT ![h] = x],
               lost' = lost \ {h}, cur' \in {h, NoFile}
        PROVE  LostInv'
    <3>1. h \in AllHandles
      BY HandleFacts DEF FreeHandles
    <3>2. \A i \in Handles \cap lost' : OnBadSector(files'[i].FirstCluster)
      BY <1>1, <2>2, <3>1, LostKept
    <3> QED BY <2>2, <3>2, HandleFacts DEF LostInv
  <2> QED BY <1>8, <2>1, <2>2 DEF FAT_OpenEntry
<1>9. CASE Stopped \/ UNCHANGED vars
  <2>1. files' = files /\ pc' = pc /\ cur' = cur /\ lost' = lost
    BY <1>9 DEF Stopped, vars, openVars
  <2> QED BY <2>1 DEF LostInv
<1> QED BY <1>2, <1>3, <1>4, <1>5, <1>6, <1>7, <1>8, <1>9 DEF Next, Client, Driver

LEMMA LostOnBadSectors == Spec => []LostInv
<1>1. Init => LostInv
  BY DEF Init, LostInv
<1> QED BY <1>1, LostStep, DriverInvariant, HandlesOnEntries, PTL DEF Spec

-----------------------------------------------------------------------------
(* The driver implements FileStream, for a client that does not ask for    *)
(* the root directory itself.                                              *)

\* The root directory is never handed out, and nothing is before FAT_Initialize
\* is through.
HeldInv ==
  /\ held \subseteq Handles
  /\ pc = "open" /\ cur = ROOT => path # <<>>
  /\ pc = "halt" => held = {}

LEMMA HeldStep ==
  ASSUME <<>> \notin Paths
  PROVE  DriverInv /\ HeldInv /\ [Next]_vars => HeldInv'
<1> SUFFICES ASSUME DriverInv, HeldInv, [Next]_vars PROVE HeldInv'
  OBVIOUS
<1>1. CASE \E p \in Paths : FAT_Open(p)
  BY <1>1 DEF FAT_Open, HeldInv
<1>2. CASE OpenReturn
  <2>1. cur \in Handles \cup {NoFile} /\ held' = held \cup ({cur} \ {NoFile}) /\ pc' = "idle"
    BY <1>2 DEF OpenReturn, HeldInv, DriverInv, TypeOK, AllHandles
  <2> QED BY <2>1 DEF HeldInv
<1>3. CASE FAT_OpenEntry
  <2>1. held' = held /\ cur' \in Handles \cup {NoFile} /\ pc' = "open"
    BY <1>3 DEF FAT_OpenEntry, FreeHandles
  <2> QED BY <2>1, HandleFacts DEF HeldInv, AllHandles
<1>4. CASE \/ \E h \in held, n \in ReadSizes : FAT_Read(h, n)
           \/ \E h \in held : FAT_Close(h)
           \/ OpenComponent \/ OpenFault \/ SearchStep \/ NotFound
           \/ ReadLoop \/ ReadReturn
  <2>1. held' \subseteq held /\ pc' # "open" /\ pc' # "halt"
    BY <1>4 DEF FAT_Read, FAT_Close, OpenComponent, OpenFault, SearchStep, NotFound,
                ReadLoop, ReadReturn
  <2> QED BY <2>1 DEF HeldInv
<1>5. CASE Stopped \/ UNCHANGED vars
  BY <1>5 DEF Stopped, vars, openVars, HeldInv
<1>6. CASE Boot
  BY <1>6 DEF Boot, FAT_Initialize, FAT_InitializeFails, DriverInv, CallState, HeldInv
<1> QED BY <1>1, <1>2, <1>3, <1>4, <1>5, <1>6 DEF Next, Client, Driver

LEMMA OnlyFilesHeld ==
  ASSUME <<>> \notin Paths
  PROVE  Spec => []HeldInv
<1>1. Init => HeldInv
  BY DEF Init, HeldInv
<1>2. DriverInv /\ HeldInv /\ [Next]_vars => HeldInv'
  BY HeldStep
<1> QED BY <1>1, <1>2, DriverInvariant, PTL DEF Spec

\* What the refinement rests on.
RefInv ==
  /\ DriverInv /\ BufferUnderCursor /\ EntryInv
  /\ LostInv /\ HeldInv

LEMMA SameContents ==
  ASSUME NEW f, NEW g, g.FirstCluster = f.FirstCluster, StreamLen(g) = StreamLen(f)
  PROVE  StreamOf(g) = StreamOf(f)
BY DEF StreamOf

\* The stream of a handle is that of its file on the volume.
LEMMA ContentsOfEntry ==
  ASSUME NEW f, NEW at \in DOMAIN Entry, FileOf(f, Entry[at])
  PROVE  StreamOf(f) \in FileStreams
<1> DEFINE x == EntryFile(Entry[at], TRUE, 0)
<1>1. /\ x.FirstCluster = f.FirstCluster /\ x.IsDirectory = f.IsDirectory
      /\ x.Size = Entry[at].Size
  BY DEF EntryFile, FileOf
<1>2. StreamLen(x) = StreamLen(f)
  BY <1>1 DEF StreamLen, FileOf
<1>3. StreamOf(x) = StreamOf(f)
  BY <1>1, <1>2, SameContents
<1> QED BY <1>3 DEF FileStreams

LEMMA FragileEntry ==
  ASSUME NEW f, NEW at \in DOMAIN Entry, FileOf(f, Entry[at]), OnBadSector(f.FirstCluster)
  PROVE  StreamOf(f) \in FragileStreams
<1> DEFINE x == EntryFile(Entry[at], TRUE, 0)
<1>1. /\ x.FirstCluster = f.FirstCluster /\ x.IsDirectory = f.IsDirectory
      /\ x.Size = Entry[at].Size /\ Entry[at].FirstCluster = f.FirstCluster
  BY DEF EntryFile, FileOf
<1>2. StreamLen(x) = StreamLen(f)
  BY <1>1 DEF StreamLen, FileOf
<1>3. StreamOf(x) = StreamOf(f)
  BY <1>1, <1>2, SameContents
<1>4. at \in {a \in DOMAIN Entry : OnBadSector(Entry[a].FirstCluster)}
  BY <1>1
<1> QED BY <1>3, <1>4 DEF FragileStreams

\* A handle of the client, and the stream it stands for.
LEMMA HeldStream ==
  ASSUME RefInv, NEW h \in held
  PROVE  /\ h \in Handles /\ Running /\ h \in AllHandles
         /\ files[h] \in FileData /\ files[h].Opened
         /\ IsEmptyFile(files[h]) \/ FollowsChain(files[h])
         /\ HasLeft(files[h], 0)
         /\ HeldStreams[h] = StreamOf(files[h])
         /\ HeldPositions[h] = files[h].Position
         /\ Len(HeldStreams[h]) = StreamLen(files[h])
         /\ StreamLen(files[h]) \in Nat
         /\ files[h].Position \in 0 .. StreamLen(files[h])
         /\ \E at \in DOMAIN Entry : FileOf(files[h], Entry[at])
<1>1. h \in Handles /\ h \in AllHandles /\ h # ROOT
  BY HandleFacts DEF RefInv, HeldInv
<1>2. Running
  <2>1. pc = "open" \/ pc = "find" \/ pc = "enter" \/ pc = "idle" \/ pc = "read"
          \/ pc = "fault" \/ pc = "halt"
    BY DEF RefInv, DriverInv, CallState, TypeOK
  <2>2. pc # "halt"
    BY DEF RefInv, HeldInv
  <2> QED BY <2>1, <2>2 DEF Running
<1>3. files[h].Opened
  BY <1>1, <1>2 DEF RefInv, DriverInv, OpenedIffOwned
<1>4. /\ files[h] \in FileData /\ HasLeft(files[h], 0)
      /\ IsEmptyFile(files[h]) \/ FollowsChain(files[h])
  BY <1>1, <1>2, <1>3, CursorOkOf DEF RefInv, CursorOk
<1>5. StreamLen(files[h]) \in Nat /\ files[h].Position \in 0 .. StreamLen(files[h])
  BY <1>4, PositionInStream
<1>6. HeldStreams[h] = StreamOf(files[h]) /\ HeldPositions[h] = files[h].Position
  BY DEF HeldStreams, HeldPositions
<1>7. Len(StreamOf(files[h])) = StreamLen(files[h])
  BY <1>5 DEF StreamOf
<1>8. \E at \in DOMAIN Entry : FileOf(files[h], Entry[at])
  BY <1>1, <1>2, <1>3 DEF RefInv, EntryInv
<1> QED BY <1>1, <1>2, <1>3, <1>4, <1>5, <1>6, <1>7, <1>8

\* A step that leaves the client's handles alone is a stutter of the stream.
LEMMA StreamStutters ==
  ASSUME held' = held, \A h \in held : files'[h] = files[h],
         lost' \cap held = lost \cap held,
         pc # "read", pc' # "read", out' = out
  PROVE  UNCHANGED Stream!streamVars
<1>1. HeldStreams' = HeldStreams
  BY DEF HeldStreams, StreamOf, StreamLen
<1>2. HeldPositions' = HeldPositions
  BY DEF HeldPositions
<1>3. HandleRead' = HandleRead /\ LeftToCopy' = LeftToCopy
  BY DEF HandleRead, LeftToCopy
<1>4. (lost \cap held)' = lost \cap held
  OBVIOUS
<1> QED BY <1>1, <1>2, <1>3, <1>4 DEF Stream!streamVars

LEMMA OpensStream ==
  ASSUME RefInv, OpenReturn
  PROVE  Stream!OpenStream \/ UNCHANGED Stream!streamVars
<1>1. /\ pc = "open" /\ path = <<>> /\ held' = held \cup ({cur} \ {NoFile})
      /\ pc' = "idle" /\ files' = files /\ out' = out /\ lost' = lost
  BY DEF OpenReturn, readVars
<1>2. CASE cur = NoFile
  BY <1>1, <1>2, StreamStutters
<1>3. CASE cur # NoFile
  <2>1. cur \in Handles /\ Running
    BY <1>1, <1>3 DEF RefInv, HeldInv, DriverInv, TypeOK, AllHandles, Running
  <2>2. files[cur].Opened /\ cur \notin held
    <3>1. {h \in Handles : files[h].Opened} = (held \cap Handles) \cup ({cur} \cap Handles)
          /\ held \cap ({cur} \cap Handles) = {}
      BY <1>1, <2>1 DEF RefInv, DriverInv, OpenedIffOwned
    <3> QED BY <2>1, <3>1
  <2>3. PICK at \in DOMAIN Entry : FileOf(files[cur], Entry[at])
    BY <2>1, <2>2 DEF RefInv, EntryInv
  <2>4. StreamOf(files[cur]) \in FileStreams
    BY <2>3, ContentsOfEntry
  <2>5. files[cur].Position = 0
    BY <1>1, <2>1 DEF RefInv, EntryInv
  <2>6. held' = held \cup {cur}
    BY <1>1, <1>3
  <2>7. DOMAIN HeldStreams = held /\ DOMAIN HeldPositions = held
    BY DEF HeldStreams, HeldPositions
  <2>8. HeldStreams' = Stream!Extend(HeldStreams, cur, StreamOf(files[cur]))
    <3>1. HeldStreams' = [h \in held \cup {cur} |-> StreamOf(files[h])]
      BY <1>1, <2>6 DEF HeldStreams, StreamOf, StreamLen
    <3>2. \A h \in held : HeldStreams[h] = StreamOf(files[h])
      BY DEF HeldStreams
    <3> QED BY <2>7, <3>1, <3>2 DEF Stream!Extend
  <2>9. HeldPositions' = Stream!Extend(HeldPositions, cur, 0)
    <3>1. HeldPositions' = [h \in held \cup {cur} |-> files[h].Position]
      BY <1>1, <2>6 DEF HeldPositions
    <3>2. \A h \in held : HeldPositions[h] = files[h].Position
      BY DEF HeldPositions
    <3> QED BY <2>5, <2>7, <3>1, <3>2 DEF Stream!Extend
  <2>10. HandleRead = {} /\ HandleRead' = {} /\ LeftToCopy' = LeftToCopy
    BY <1>1 DEF HandleRead, LeftToCopy
  <2>11. cur \in Handles \ DOMAIN HeldStreams
    BY <2>1, <2>2, <2>7
  <2>12. (lost \cap held)' = lost \cap held
    <3>1. cur \notin lost
      BY <1>1, <2>1 DEF RefInv, LostInv
    <3> QED BY <1>1, <2>6, <3>1
  <2> QED BY <1>1, <2>4, <2>8, <2>9, <2>10, <2>11, <2>12
          DEF Stream!OpenStream, Stream!Opened
<1> QED BY <1>2, <1>3

LEMMA ClosesStream ==
  ASSUME RefInv, NEW h \in held, FAT_Close(h)
  PROVE  Stream!CloseStream
<1>1. /\ pc = "idle" /\ pc' = "idle" /\ held' = held \ {h} /\ out' = out /\ lost' = lost
      /\ files' = [files EXCEPT ![h] = Closed(h, files[h])]
      /\ files \in [AllHandles -> FileData] /\ held \subseteq AllHandles
  BY DEF FAT_Close, readVars, RefInv, DriverInv, TypeOK
<1>2. \A i \in held \ {h} : files'[i] = files[i]
  BY <1>1
<1>3. DOMAIN HeldStreams = held /\ DOMAIN HeldPositions = held
  BY DEF HeldStreams, HeldPositions
<1>4. HeldStreams' = Stream!Remove(HeldStreams, h)
  <2>1. HeldStreams' = [i \in held \ {h} |-> StreamOf(files[i])]
    BY <1>1, <1>2 DEF HeldStreams, StreamOf, StreamLen
  <2>2. \A i \in held : HeldStreams[i] = StreamOf(files[i])
    BY DEF HeldStreams
  <2> QED BY <1>3, <2>1, <2>2 DEF Stream!Remove
<1>5. HeldPositions' = Stream!Remove(HeldPositions, h)
  <2>1. HeldPositions' = [i \in held \ {h} |-> files[i].Position]
    BY <1>1, <1>2 DEF HeldPositions
  <2>2. \A i \in held : HeldPositions[i] = files[i].Position
    BY DEF HeldPositions
  <2> QED BY <1>3, <2>1, <2>2 DEF Stream!Remove
<1>6. HandleRead = {} /\ HandleRead' = {} /\ LeftToCopy' = LeftToCopy
  BY <1>1 DEF HandleRead, LeftToCopy
<1>7. (lost \cap held)' = (lost \cap held) \ {h}
  BY <1>1
<1> QED BY <1>1, <1>3, <1>4, <1>5, <1>6, <1>7 DEF Stream!CloseStream, Stream!Opened

\* The bound FAT_Read puts on a request is what is left of the stream; that of a
\* directory comes from its chain, until its end has been found.
LEMMA BoundIsLeft ==
  ASSUME NEW f \in FileData, IsEmptyFile(f) \/ FollowsChain(f),
         NEW at \in DOMAIN Entry, FileOf(f, Entry[at]), NEW n \in Nat,
         StreamLen(f) \in Nat, f.Position \in 0 .. StreamLen(f)
  PROVE  Min2(Bounded(f, n), StreamLen(f) - f.Position)
           = Min2(n, StreamLen(f) - f.Position)
<1>1. f.Position \in Nat /\ f.Size \in Nat /\ f.IsDirectory \in BOOLEAN
  BY DEF FileData
<1>2. CASE ~f.IsDirectory
  <2>1. StreamLen(f) = f.Size /\ Bounded(f, n) = Min2(n, f.Size - f.Position)
    BY <1>2 DEF StreamLen, Bounded
  <2> QED BY <1>1, <2>1 DEF Min2
<1>3. CASE f.IsDirectory /\ f.Size = 0
  BY <1>3 DEF Bounded
<1>4. CASE f.IsDirectory /\ f.Size # 0
  <2>1. SectorIndex(f) = ChainSectors(f.FirstCluster)
    BY <1>4, EntryIsSound DEF FileOf, SoundEntry
  <2>2. FollowsChain(f)
    BY <1>4 DEF IsEmptyFile
  <2>3. f.FirstCluster \in DOMAIN Chain
    BY <2>2 DEF FollowsChain
  <2>4. ChainSectors(f.FirstCluster) \in Nat
    BY <2>3, Constants, ChainAssumption DEF ChainSectors
  <2>5. f.Position = ChainSectors(f.FirstCluster) * SECTOR_SIZE /\ f.Size = f.Position
    BY <2>1, <2>2, <2>4 DEF FollowsChain
  <2>6. StreamLen(f) = f.Position
    BY <1>4, <2>5 DEF StreamLen
  <2>7. Bounded(f, n) = Min2(n, 0)
    BY <1>1, <1>4, <2>5 DEF Bounded
  <2> QED BY <1>1, <2>6, <2>7 DEF Min2
<1> QED BY <1>1, <1>2, <1>3, <1>4

LEMMA BeginsRead ==
  ASSUME RefInv, NEW h \in held, NEW n \in ReadSizes, FAT_Read(h, n)
  PROVE  Stream!BeginRead
<1>1. /\ pc = "idle" /\ pc' = "read" /\ cur' = h /\ want' = Bounded(files[h], n)
      /\ files' = files /\ held' = held /\ out' = out /\ n \in Nat /\ lost' = lost
  BY ClientAssumption DEF FAT_Read
<1>2. /\ files[h] \in FileData /\ HasLeft(files[h], 0)
      /\ StreamLen(files[h]) \in Nat /\ files[h].Position \in 0 .. StreamLen(files[h])
      /\ Len(HeldStreams[h]) = StreamLen(files[h])
      /\ HeldPositions[h] = files[h].Position
      /\ IsEmptyFile(files[h]) \/ FollowsChain(files[h])
  BY HeldStream
<1>3. want' \in Nat
  BY <1>1, <1>2, BoundedFits
<1>4. HeldStreams' = HeldStreams /\ HeldPositions' = HeldPositions
  BY <1>1 DEF HeldStreams, HeldPositions, StreamOf, StreamLen
<1>5. HandleRead = {} /\ HandleRead' = {h}
  BY <1>1 DEF HandleRead
<1>6. LeftToCopy' = Min2(want', StreamLen(files[h]) - files[h].Position)
  BY <1>1 DEF LeftToCopy, StreamLen
<1>7. PICK at \in DOMAIN Entry : FileOf(files[h], Entry[at])
  BY HeldStream
<1>8. LeftToCopy' = Min2(n, StreamLen(files[h]) - files[h].Position)
  BY <1>1, <1>2, <1>6, <1>7, BoundIsLeft
<1>9. LeftToCopy' = Stream!Granted(h, n)
  BY <1>2, <1>8 DEF Stream!Granted, Min2
<1>10. h \in DOMAIN HeldStreams
  BY DEF HeldStreams
<1> QED BY <1>1, <1>2, <1>4, <1>5, <1>9, <1>10 DEF Stream!BeginRead, Stream!Opened

LEMMA EndsRead ==
  ASSUME RefInv, ReadReturn
  PROVE  Stream!EndRead
<1>1. /\ pc = "read" /\ pc' = "idle" /\ want = 0 /\ out' = <<>>
      /\ files' = files /\ held' = held /\ cur \in held /\ lost' = lost
  BY DEF ReadReturn, RefInv, DriverInv, CallState
<1>2. StreamLen(files[cur]) \in Nat /\ files[cur].Position \in 0 .. StreamLen(files[cur])
  BY <1>1, HeldStream
<1>3. HeldStreams' = HeldStreams /\ HeldPositions' = HeldPositions
  BY <1>1 DEF HeldStreams, HeldPositions, StreamOf, StreamLen
<1>4. HandleRead # {} /\ HandleRead' = {}
  BY <1>1 DEF HandleRead
<1>5. LeftToCopy = 0 /\ LeftToCopy' = 0
  BY <1>1, <1>2 DEF LeftToCopy, Min2
<1> QED BY <1>1, <1>3, <1>4, <1>5 DEF Stream!EndRead

\* What an iteration copies is the next part of the stream.
LEMMA CopiedFromStream ==
  ASSUME NEW f \in FileData, NEW take \in 1 .. LeftInBuffer(f),
         f.Buffer = SectorOfChain(f.FirstCluster, SectorIndex(f)),
         StreamLen(f) \in Nat, f.Position + take <= StreamLen(f)
  PROVE  Copied(f, take) = SubSeq(StreamOf(f), f.Position + 1, f.Position + take)
<1> DEFINE S == (Int \cup {TORN}) \X Nat
           p == f.Position
           t == Copied(f, take)
           s == StreamOf(f)
           u == SubSeq(s, p + 1, p + take)
<1>1. p \in Nat /\ take \in Nat \ {0}
  BY SectorFacts, Constants DEF FileData
<1>2. /\ t \in Seq(S) /\ Len(t) = take
      /\ \A j \in 1 .. take : t[j] = UnitOfChain(f.FirstCluster, p + j - 1)
  BY <1>1, CopiedType, CopiedUnits
<1>3. \A i \in 1 .. StreamLen(f) : s[i] = UnitOfChain(f.FirstCluster, i - 1)
  BY DEF StreamOf
<1> HIDE DEF t, s, p
<1>4. \A j \in 1 .. take : p + j \in 1 .. StreamLen(f) /\ s[p + j] = t[j]
  <2> SUFFICES ASSUME NEW j \in 1 .. take
               PROVE  p + j \in 1 .. StreamLen(f) /\ s[p + j] = t[j]
    OBVIOUS
  <2>1. p + j \in 1 .. StreamLen(f)
    BY <1>1 DEF p
  <2> QED BY <1>1, <1>2, <1>3, <2>1
<1>5. \A i \in p + 1 .. p + take : s[i] \in S
  <2> SUFFICES ASSUME NEW i \in p + 1 .. p + take PROVE s[i] \in S
    OBVIOUS
  <2>1. i - p \in 1 .. take /\ p + (i - p) = i
    BY <1>1
  <2>2. t[i - p] \in S
    BY <1>2, <2>1, ElementOfSeq
  <2> QED BY <1>4, <2>1, <2>2
<1>6. /\ u \in Seq(S) /\ Len(u) = IF p + 1 <= p + take THEN (p + take) - (p + 1) + 1 ELSE 0
      /\ \A j \in 1 .. (p + take) - (p + 1) + 1 : u[j] = s[(p + 1) + j - 1]
  <2>1. p + 1 \in Int /\ p + take \in Int
    BY <1>1
  <2> QED BY <1>5, <2>1, SubSeqProperties
<1> HIDE DEF u, S
<1>7. Len(u) = take
  BY <1>1, <1>6
<1>8. \A j \in 1 .. take : u[j] = t[j]
  BY <1>1, <1>4, <1>6
<1>9. t = u
  BY <1>2, <1>6, <1>7, <1>8, SeqEqual
<1> QED BY <1>9 DEF t, u, s, p

LEMMA EndOfBlock ==
  ASSUME NEW s \in Nat \ {0}, NEW p \in Nat, NEW k \in Nat \ {0}, NEW x \in Nat,
         x = p + k, k <= s - (p % s)
  PROVE  x % s = 0 <=> k = s - (p % s)
<1> DEFINE q == p \div s
           m == p % s
<1>1. q \in Nat /\ m \in 0 .. s - 1 /\ p = s * q + m
  OBVIOUS
<1> HIDE DEF q, m
<1>2. CASE k < s - m
  <2>1. m + k \in 0 .. s - 1 /\ x = s * q + (m + k) /\ m + k # 0
    BY <1>1, <1>2
  <2>2. x % s = m + k
    BY <1>1, <2>1, DivUnique
  <2> QED BY <1>2, <2>1, <2>2 DEF m
<1>3. CASE k = s - m
  <2>1. q + 1 \in Nat /\ s * (q + 1) = s * q + s
    BY <1>1
  <2>2. x = s * (q + 1) + 0 /\ 0 \in 0 .. s - 1
    BY <1>1, <1>3, <2>1
  <2>3. x % s = 0
    BY <2>1, <2>2, DivUnique
  <2> QED BY <1>3, <2>3 DEF m
<1>4. k < s - m \/ k = s - m
  BY <1>1 DEF m
<1> QED BY <1>2, <1>3, <1>4

\* An iteration stays in its sector, and ends on a boundary exactly when it
\* takes all that was left of it.
LEMMA BlockEnd ==
  ASSUME NEW f \in FileData, NEW take \in 1 .. LeftInBuffer(f)
  PROVE  /\ (f.Position % SECTOR_SIZE) + take <= SECTOR_SIZE
         /\ (f.Position + take) % SECTOR_SIZE = 0 <=> take = LeftInBuffer(f)
<1>1. SECTOR_SIZE \in Nat \ {0} /\ f.Position \in Nat /\ LeftInBuffer(f) \in Nat
  BY SectorFacts, Constants
<1>2. f.Position % SECTOR_SIZE \in Nat
  BY <1>1
<1>3. LeftInBuffer(f) = SECTOR_SIZE - (f.Position % SECTOR_SIZE)
  BY DEF LeftInBuffer
<1>4. take \in Nat \ {0} /\ take <= SECTOR_SIZE - (f.Position % SECTOR_SIZE)
  BY <1>1, <1>3
<1>5. f.Position + take \in Nat
  BY <1>1, <1>4
<1>6. (f.Position + take) % SECTOR_SIZE = 0 <=> take = LeftInBuffer(f)
  BY <1>1, <1>3, <1>4, <1>5, EndOfBlock
<1> QED BY <1>1, <1>2, <1>4, <1>6

LEMMA DeliversUnits ==
  ASSUME RefInv, ReadLoop
  PROVE  Stream!Deliver
<1> DEFINE f == files[cur]
           p == f.Position
           left == StreamLen(f) - p
           take == Min2(want, LeftInBuffer(f))
<1>1. /\ pc = "read" /\ pc' = "read" /\ cur' = cur /\ held' = held
      /\ cur \in held /\ want \in Nat \ {0} /\ HasLeft(f, want)
      /\ files \in [AllHandles -> FileData] /\ cur \in AllHandles
  BY DEF ReadLoop, openVars, RefInv, DriverInv, TypeOK, CallState, HasLeft
<1>2. /\ cur \in Handles /\ Running /\ f \in FileData /\ f.Opened
      /\ IsEmptyFile(f) \/ FollowsChain(f)
      /\ HeldStreams[cur] = StreamOf(f) /\ HeldPositions[cur] = p
      /\ StreamLen(f) \in Nat /\ p \in 0 .. StreamLen(f)
  BY <1>1, HeldStream
<1>3. PICK at \in DOMAIN Entry : FileOf(f, Entry[at])
  BY <1>1, HeldStream
<1>4. take \in 1 .. LeftInBuffer(f) /\ take <= want /\ take \in Nat \ {0}
  BY <1>1, <1>2, SectorFacts, Constants DEF Min2
<1>5. PICK r \in Iteration(cur, take) :
        /\ files' = [files EXCEPT ![cur] = r.file]
        /\ want' = IF r.end = "go" THEN want - take ELSE 0
        /\ out' = out \o Copied(f, take)
        /\ lost' = LostAfter(cur, take, r)
  BY DEF ReadLoop
<1> HIDE DEF take
<1>6. /\ SameFile(r.file, f) /\ r.file.Position = p + take
      /\ StreamLen(r.file) = StreamLen(f)
      /\ p + take <= StreamLen(f)
      /\ r.end = "eof" => p + take = StreamLen(f)
      /\ r.end \in {"go", "eof", "error"}
      /\ r.end = "error" => OnBadSector(f.FirstCluster)
  BY <1>1, <1>2, <1>3, <1>4, IterationReads
<1>8. cur \notin lost => Copied(f, take) = SubSeq(StreamOf(f), p + 1, p + take)
  <2>0. SUFFICES ASSUME cur \notin lost
                 PROVE  Copied(f, take) = SubSeq(StreamOf(f), p + 1, p + take)
    OBVIOUS
  <2>1. FollowsChain(f) /\ HasSector(f)
    BY <1>1, <1>2, LeftMeansInside DEF HasSector, FollowsChain
  <2>2. f.Buffer = SectorOfChain(f.FirstCluster, SectorIndex(f))
    BY <1>2, <2>1, <2>0 DEF RefInv, BufferUnderCursor
  <2> QED BY <1>2, <1>4, <1>6, <2>2, CopiedFromStream
<1>9. files'[cur] = r.file /\ \A i \in held \ {cur} : files'[i] = files[i]
  BY <1>1, <1>5 DEF RefInv, DriverInv, TypeOK
<1>10. StreamOf(r.file) = StreamOf(f)
  BY <1>6, SameContents DEF SameFile
<1>11. HeldStreams' = HeldStreams
  <2>1. \A i \in held : StreamOf(files'[i]) = StreamOf(files[i])
    BY <1>9, <1>10
  <2>2. HeldStreams' = [i \in held |-> StreamOf(files'[i])]
    BY <1>1 DEF HeldStreams, StreamOf, StreamLen
  <2> QED BY <2>1, <2>2 DEF HeldStreams
<1>12. HeldPositions' = [HeldPositions EXCEPT ![cur] = @ + take]
  <2>1. \A i \in held : files'[i].Position = IF i = cur THEN p + take ELSE files[i].Position
    BY <1>6, <1>9
  <2>2. HeldPositions' = [i \in held |-> files'[i].Position]
    BY <1>1 DEF HeldPositions
  <2>3. DOMAIN HeldPositions = held
        /\ \A i \in held : HeldPositions[i] = files[i].Position
    BY DEF HeldPositions
  <2>4. HeldPositions = [i \in held |-> files[i].Position]
    BY DEF HeldPositions
  <2> QED BY <2>1, <2>2, <2>4
<1>13. HandleRead = {cur} /\ HandleRead' = {cur}
  BY <1>1 DEF HandleRead
<1>14. left \in Nat /\ LeftToCopy = Min2(want, left) /\ take <= left
  BY <1>1, <1>2, <1>4, <1>6 DEF LeftToCopy
<1>15. LeftToCopy' = Min2(want', left - take)
  <2>1. LeftToCopy' = Min2(want', StreamLen(files'[cur]) - files'[cur].Position)
    BY <1>1 DEF LeftToCopy, StreamLen
  <2>2. StreamLen(r.file) - r.file.Position = left - take
    BY <1>2, <1>4, <1>6
  <2> QED BY <1>9, <2>1, <2>2
<1> DEFINE atEnd == (HeldPositions[cur] + take) % SECTOR_SIZE = 0
<1>a. /\ (HeldPositions[cur] % SECTOR_SIZE) + take <= SECTOR_SIZE
      /\ atEnd <=> take = LeftInBuffer(f)
  BY <1>2, <1>4, BlockEnd
<1>b. /\ LeftInBuffer(f) \in Nat
      /\ take < LeftInBuffer(f) \/ take = LeftInBuffer(f)
  BY <1>2, <1>4, SectorFacts, Constants
<1>c. take < LeftInBuffer(f) => r.end = "go"
  BY <1>5 DEF Iteration
<1> HIDE DEF atEnd
<1>16. /\ take \in 1 .. LeftToCopy /\ LeftToCopy > 0
       /\ \/ /\ LeftToCopy' = LeftToCopy - take
             /\ (lost \cap held)' = IF atEnd THEN (lost \cap held) \ {cur} ELSE lost \cap held
          \/ /\ atEnd /\ HeldStreams[cur] \in FragileStreams /\ LeftToCopy' = 0
             /\ (lost \cap held)' = (lost \cap held) \cup {cur}
  <2>0. take \in 1 .. LeftToCopy /\ LeftToCopy > 0
    BY <1>1, <1>4, <1>14 DEF Min2
  <2>1. r.end = "eof" => left = take
    BY <1>2, <1>4, <1>6
  <2> HIDE DEF left
  <2>2. CASE r.end \in {"go", "eof"}
    <3>1. LeftToCopy' = LeftToCopy - take
      <4>1. CASE r.end = "go"
        <5>1. want' = want - take
          BY <1>5, <4>1
        <5> QED BY <1>1, <1>4, <1>14, <1>15, <5>1 DEF Min2
      <4>2. CASE r.end = "eof"
        <5>1. want' = 0 /\ left = take
          BY <1>5, <2>1, <4>2
        <5> QED BY <1>1, <1>4, <1>14, <1>15, <5>1 DEF Min2
      <4> QED BY <2>2, <4>1, <4>2
    <3>2. lost' = IF atEnd THEN lost \ {cur} ELSE lost
      <4>1. CASE take < LeftInBuffer(f)
        <5>1. ~atEnd
          BY <1>4, <1>a, <1>b, <4>1
        <5> QED BY <1>5, <4>1, <5>1 DEF LostAfter
      <4>2. CASE take = LeftInBuffer(f)
        <5>1. atEnd /\ ~(take < LeftInBuffer(f)) /\ r.end # "error"
          BY <1>4, <1>a, <1>b, <2>2, <4>2
        <5> QED BY <1>5, <5>1 DEF LostAfter
      <4> QED BY <1>b, <4>1, <4>2
    <3>3. (lost \cap held)' = IF atEnd THEN (lost \cap held) \ {cur} ELSE lost \cap held
      BY <1>1, <3>2
    <3> QED BY <2>0, <3>1, <3>3
  <2>3. CASE r.end = "error"
    <3>1. want' = 0 /\ left - take \in Nat
      BY <1>1, <1>4, <1>5, <1>14, <2>3
    <3>2. LeftToCopy' = 0
      BY <1>15, <3>1 DEF Min2
    <3>3. take = LeftInBuffer(f) /\ ~(take < LeftInBuffer(f))
      BY <1>4, <1>b, <1>c, <2>3
    <3>4. atEnd /\ lost' = lost \cup {cur}
      BY <1>5, <1>a, <2>3, <3>3 DEF LostAfter
    <3>5. (lost \cap held)' = (lost \cap held) \cup {cur}
      BY <1>1, <3>4
    <3>6. HeldStreams[cur] \in FragileStreams
      BY <1>2, <1>3, <1>6, <2>3, FragileEntry
    <3> QED BY <2>0, <3>2, <3>4, <3>5, <3>6
  <2> QED BY <1>6, <2>2, <2>3
<1>17. Stream!Copies(cur, take)
  <2>1. CASE cur \notin lost
    <3>1. out' = out \o SubSeq(HeldStreams[cur], HeldPositions[cur] + 1,
                               HeldPositions[cur] + take)
      BY <1>2, <1>5, <1>8, <2>1
    <3> QED BY <2>1, <3>1 DEF Stream!Copies
  <2>2. CASE cur \in lost
    <3> DEFINE S == (Int \cup {TORN}) \X Nat
               t == Copied(f, take)
    <3>1. t \in Seq(S) /\ Len(t) = take /\ out \in Seq(S)
      <4>1. t \in Seq(S)
        BY <1>2, <1>4, CopiedType
      <4>2. Len(t) = take
        BY <1>4 DEF Copied
      <4>3. out \in Seq(S)
        BY DEF RefInv, DriverInv, TypeOK
      <4> QED BY <4>1, <4>2, <4>3
    <3>2. out' = out \o t
      BY <1>5
    <3> HIDE DEF S, t
    <3>3. /\ Len(out \o t) = Len(out) + Len(t)
          /\ \A i \in 1 .. Len(out) : (out \o t)[i] = out[i]
      BY <3>1, ConcatProperties
    <3>4. Len(out') = Len(out) + take /\ \A i \in 1 .. Len(out) : out'[i] = out[i]
      BY <3>1, <3>2, <3>3
    <3> QED BY <1>1, <2>2, <3>4 DEF Stream!Copies
  <2> QED BY <2>1, <2>2
<1>18. HandleRead' = HandleRead
  BY <1>13
<1> QED BY <1>11, <1>12, <1>13, <1>16, <1>17, <1>18, <1>a DEF Stream!Deliver, atEnd

LEMMA StreamInit ==
  Init => Stream!StreamInit
<1> SUFFICES ASSUME Init PROVE Stream!StreamInit
  OBVIOUS
<1>1. held = {} /\ pc = "boot" /\ out = <<>>
  BY DEF Init
<1>2. HeldStreams = [h \in {} |-> <<>>] /\ HeldPositions = [h \in {} |-> 0]
  BY <1>1 DEF HeldStreams, HeldPositions
<1>3. HandleRead = {} /\ LeftToCopy = 0
  BY <1>1 DEF HandleRead, LeftToCopy
<1> QED BY <1>1, <1>2, <1>3 DEF Stream!StreamInit

LEMMA StreamStep ==
  RefInv /\ [Next]_vars => [Stream!StreamNext]_Stream!streamVars
<1> SUFFICES ASSUME RefInv, [Next]_vars
             PROVE  Stream!StreamNext \/ UNCHANGED Stream!streamVars
  OBVIOUS
<1>1. /\ files \in [AllHandles -> FileData] /\ held \subseteq Handles
      /\ Handles \subseteq AllHandles /\ ROOT \notin Handles
  BY HandleFacts DEF RefInv, HeldInv, DriverInv, TypeOK
<1>2. CASE Boot
  <2>1. held = {} /\ held' = held /\ pc = "boot" /\ pc' # "read" /\ out' = out
        /\ lost' = lost
    BY <1>2 DEF Boot, FAT_Initialize, FAT_InitializeFails, readVars, RefInv, DriverInv,
                CallState
  <2> QED BY <2>1, StreamStutters
<1>3. CASE \/ \E p \in Paths : FAT_Open(p)
           \/ OpenComponent \/ OpenFault
  <2>1. held' = held /\ files' = files /\ pc # "read" /\ pc' # "read" /\ out' = out
        /\ lost' = lost
    BY <1>3 DEF FAT_Open, OpenComponent, OpenFault, readVars
  <2> QED BY <2>1, StreamStutters
<1>4. CASE OpenReturn
  BY <1>4, OpensStream DEF Stream!StreamNext
<1>5. CASE \E h \in held : FAT_Close(h)
  BY <1>5, ClosesStream DEF Stream!StreamNext
<1>6. CASE \E h \in held, n \in ReadSizes : FAT_Read(h, n)
  BY <1>6, BeginsRead DEF Stream!StreamNext
<1>7. CASE ReadLoop
  BY <1>7, DeliversUnits DEF Stream!StreamNext
<1>8. CASE ReadReturn
  BY <1>8, EndsRead DEF Stream!StreamNext
<1>9. CASE SearchStep \/ NotFound
  <2>1. pc = "find" /\ pc' # "read" /\ held' = held /\ out' = out
    BY <1>9 DEF SearchStep, NotFound, readVars
  <2>2. Running
    BY <2>1 DEF Running
  <2>3. cur \notin held
    BY <1>1, <2>1, <2>2 DEF RefInv, DriverInv, OpenedIffOwned
  <2>4. \E x : files' = [files EXCEPT ![cur] = x]
    <3>1. CASE SearchStep
      <4>1. PICK r \in Iteration(cur, 1) :
              \/ files' = [files EXCEPT ![cur] = Closed(cur, r.file)]
              \/ files' = [files EXCEPT ![cur] = r.file]
        BY <3>1 DEF SearchStep
      <4> QED BY <4>1
    <3>2. CASE NotFound
      <4>1. files' = [files EXCEPT ![cur] = Closed(cur, files[cur])]
        BY <1>1, <3>2, Searched DEF NotFound, RefInv
      <4> QED BY <4>1
    <3> QED BY <1>9, <3>1, <3>2
  <2>5. \A h \in held : files'[h] = files[h]
    BY <1>1, <2>3, <2>4
  <2>6. lost' \cap held = lost \cap held
    <3>1. lost' = lost \/ lost' = lost \cup {cur} \/ lost' = lost \ {cur}
      BY <1>9 DEF SearchStep, NotFound, LostAfter
    <3> QED BY <2>3, <3>1
  <2> QED BY <2>1, <2>5, <2>6, StreamStutters
<1>10. CASE FAT_OpenEntry
  <2>1. pc = "enter" /\ pc' # "read" /\ held' = held /\ out' = out
    BY <1>10 DEF FAT_OpenEntry, readVars
  <2>2. \A h \in held : files[h].Opened
    BY HeldStream
  <2>3. \A h \in held : files'[h] = files[h]
    <3>1. files' = files
            \/ \E h \in FreeHandles : \E x : files' = [files EXCEPT ![h] = x]
      BY <1>10 DEF FAT_OpenEntry
    <3>2. FreeHandles \cap held = {}
      BY <2>2 DEF FreeHandles
    <3> QED BY <1>1, <3>1, <3>2
  <2>4. lost' \cap held = lost \cap held
    <3>1. lost' = lost \/ \E h \in FreeHandles : lost' = lost \ {h}
      BY <1>10 DEF FAT_OpenEntry
    <3>2. FreeHandles \cap held = {}
      BY <2>2 DEF FreeHandles
    <3> QED BY <3>1, <3>2
  <2> QED BY <2>1, <2>3, <2>4, StreamStutters
<1>11. CASE Stopped \/ UNCHANGED vars
  <2>1. /\ files' = files /\ held' = held /\ pc' = pc /\ cur' = cur
        /\ want' = want /\ out' = out /\ lost' = lost
    BY <1>11 DEF Stopped, vars, openVars, readVars
  <2>2. HeldStreams' = HeldStreams /\ HeldPositions' = HeldPositions
    BY <2>1 DEF HeldStreams, HeldPositions, StreamOf, StreamLen
  <2>3. HandleRead' = HandleRead /\ LeftToCopy' = LeftToCopy
    BY <2>1 DEF HandleRead, LeftToCopy, StreamLen
  <2> QED BY <2>1, <2>2, <2>3 DEF Stream!streamVars
<1> QED BY <1>2, <1>3, <1>4, <1>5, <1>6, <1>7, <1>8, <1>9, <1>10, <1>11
        DEF Next, Client, Driver

\* fat.h's file streams: a client that opens files by name gets from each read
\* exactly the next units of the file it opened, whatever lookups, reads and
\* closes of other handles came between, and whatever reads of other files
\* failed.  A read of a file with a bad sector may end early, and of the
\* units after that only those of the sector that failed may be wrong.
\* (The path of no component is the root directory itself, which is no entry of
\* the volume; there is one cursor for all who open it.)
THEOREM ImplementsStreams ==
  ASSUME <<>> \notin Paths
  PROVE  Spec => ImplementsFileStream
<1>1. Init => Stream!StreamInit
  BY StreamInit
<1>2. RefInv /\ [Next]_vars => [Stream!StreamNext]_Stream!streamVars
  BY StreamStep
<1>3. DriverInv /\ BufferUnderCursor /\ EntryInv /\ LostInv /\ HeldInv <=> RefInv
  BY DEF RefInv
<1>4. Spec => [](BufferUnderCursor /\ NoForeignSector) /\ []LostInv /\ []HeldInv
  BY BuffersCorrect, LostOnBadSectors, OnlyFilesHeld
<1> QED BY <1>1, <1>2, <1>3, <1>4, DriverInvariant, HandlesOnEntries, PTL
        DEF Spec, ImplementsFileStream, Stream!StreamSpec

-----------------------------------------------------------------------------
(* A search of a subdirectory all of whose sectors can be read.            *)

\* No entry before the position has the name looked for.
SearchInv ==
  pc = "find" /\ cur \in Handles /\ files[cur].IsDirectory
      /\ ~OnBadSector(files[cur].FirstCluster) =>
    \A i \in 0 .. files[cur].Position - 1 :
      ~Matches(UnitOfChain(files[cur].FirstCluster, i), fatName)

LEMMA SearchGoesOn ==
  ASSUME DriverInv, BufferUnderCursor, EntryInv, LostInv, SearchInv,
         SearchStep, pc' = "find", cur \in Handles, files'[cur].IsDirectory,
         ~OnBadSector(files'[cur].FirstCluster)
  PROVE  \A i \in 0 .. files'[cur].Position - 1 :
           ~Matches(UnitOfChain(files'[cur].FirstCluster, i), fatName)
<1> DEFINE f == files[cur]
           c == f.FirstCluster
           p == f.Position
<1>1. /\ Running /\ cur \in AllHandles /\ f.Opened /\ f \in FileData
      /\ IsEmptyFile(f) \/ FollowsChain(f)
      /\ pc = "find" /\ Bounded(f, 1) = 1 /\ HasLeft(f, 0)
  BY Searched, HandleFacts DEF SearchStep, CursorOk
<1>2. HasLeft(f, 1) /\ 1 \in 1 .. LeftInBuffer(f)
  <2>1. HasLeft(f, Bounded(f, 1))
    BY <1>1, BoundedFits
  <2> QED BY <1>1, <2>1, SectorFacts, Constants
<1>3. PICK r \in Iteration(cur, 1) :
        files' = [files EXCEPT ![cur] = r.file] /\ ~Matches(EntryAt(f), fatName)
  BY <1>1 DEF SearchStep
<1>4. PICK at \in DOMAIN Entry : FileOf(f, Entry[at])
  BY <1>1 DEF EntryInv
<1>5. SameFile(r.file, f) /\ r.file.Position = p + 1
  BY <1>1, <1>2, <1>4, IterationReads
<1>6. files'[cur] = r.file
  BY <1>1, <1>3 DEF DriverInv, TypeOK
<1>7. f.IsDirectory /\ files'[cur].FirstCluster = c /\ files'[cur].Position = p + 1
  BY <1>5, <1>6 DEF SameFile
<1>8. FollowsChain(f) /\ HasSector(f) /\ ~OnBadSector(c) /\ cur \notin lost
  <2>1. ~OnBadSector(c)
    BY <1>7
  <2>2. cur \notin lost
    BY <2>1 DEF LostInv
  <2> QED BY <1>1, <1>2, <2>1, <2>2, LeftMeansInside DEF HasSector, FollowsChain
<1>9. EntryAt(f) = UnitOfChain(c, p)
  <2>1. f.Buffer = SectorOfChain(c, SectorIndex(f))
    BY <1>1, <1>8 DEF BufferUnderCursor
  <2> QED BY <2>1 DEF EntryAt, UnitOfChain, SectorIndex
<1>10. \A i \in 0 .. p - 1 : ~Matches(UnitOfChain(c, i), fatName)
  BY <1>1, <1>7, <1>8 DEF SearchInv
<1>11. p \in Nat
  BY <1>1 DEF FileData
<1> HIDE DEF p, c
<1>12. \A i \in 0 .. (p + 1) - 1 : i \in 0 .. p - 1 \/ i = p
  BY <1>11
<1> QED BY <1>3, <1>7, <1>9, <1>10, <1>12

LEMMA SearchInvStep ==
  DriverInv /\ BufferUnderCursor /\ EntryInv /\ LostInv /\ SearchInv /\ [Next]_vars
    => SearchInv'
<1> SUFFICES ASSUME DriverInv, BufferUnderCursor, EntryInv, LostInv, SearchInv,
                    [Next]_vars, pc' = "find", cur' \in Handles, files'[cur'].IsDirectory,
                    ~OnBadSector(files'[cur'].FirstCluster)
             PROVE  \A i \in 0 .. files'[cur'].Position - 1 :
                      ~Matches(UnitOfChain(files'[cur'].FirstCluster, i), fatName')
  BY DEF SearchInv, UnitOfChain, Matches
<1>1. CASE OpenComponent
  <2>1. pc = "open" /\ cur' = cur /\ files' = files
    BY <1>1 DEF OpenComponent
  <2>2. files'[cur'].Position = 0
    BY <2>1 DEF EntryInv
  <2> QED BY <2>2
<1>2. CASE SearchStep
  <2>1. cur' = cur /\ fatName' = fatName
    BY <1>2 DEF SearchStep
  <2> QED BY <1>2, <2>1, SearchGoesOn
<1>3. CASE Stopped \/ UNCHANGED vars
  <2>1. pc = "find" /\ cur' = cur /\ files' = files /\ fatName' = fatName
    BY <1>3 DEF Stopped, vars, openVars
  <2> QED BY <2>1 DEF SearchInv
<1>4. ASSUME Boot \/ Client \/ OpenReturn \/ OpenFault \/ NotFound \/ FAT_OpenEntry
               \/ ReadLoop \/ ReadReturn
      PROVE FALSE
  <2>1. CASE Boot \/ Client
    BY <2>1 DEF Boot, FAT_Initialize, FAT_InitializeFails, Client, FAT_Open, FAT_Read, FAT_Close
  <2>2. CASE OpenReturn \/ OpenFault \/ NotFound \/ FAT_OpenEntry \/ ReadLoop \/ ReadReturn
    BY <2>2 DEF OpenReturn, OpenFault, NotFound, FAT_OpenEntry, ReadLoop, ReadReturn
  <2> QED BY <1>4, <2>1, <2>2
<1> QED BY <1>1, <1>2, <1>3, <1>4 DEF Next, Driver

LEMMA SearchedSoFar == Spec => []SearchInv
<1>1. Init => SearchInv
  BY DEF Init, SearchInv
<1>2. DriverInv /\ BufferUnderCursor /\ EntryInv /\ LostInv /\ SearchInv /\ [Next]_vars
        => SearchInv'
  BY SearchInvStep
<1>3. Spec => [](BufferUnderCursor /\ NoForeignSector) /\ []LostInv
  BY BuffersCorrect, LostOnBadSectors
<1> QED BY <1>1, <1>2, <1>3, DriverInvariant, HandlesOnEntries, PTL DEF Spec

\* A search that ends without the name has seen every entry.
LEMMA SearchedAll ==
  ASSUME DriverInv, EntryInv, SearchInv, NotFound, files[cur].IsDirectory, cur \in Handles,
         ~OnBadSector(files[cur].FirstCluster)
  PROVE  ~NameIsIn(cur, fatName)
<1> DEFINE f == files[cur]
           c == f.FirstCluster
           m == ChainSectors(c)
<1>1. /\ Running /\ f.Opened /\ f \in FileData /\ pc = "find" /\ Bounded(f, 1) = 0
      /\ IsEmptyFile(f) \/ FollowsChain(f)
      /\ HasLeft(f, 0) /\ cur # ROOT
  BY Searched, HandleFacts DEF NotFound, CursorOk
<1>2. FollowsChain(f) /\ c \in DOMAIN Chain
  BY <1>1 DEF IsEmptyFile, FollowsChain
<1>3. f.Position \in Nat /\ f.Size \in Nat
  BY <1>1 DEF FileData
<1>4. f.Size # 0
  BY <1>1 DEF Bounded
<1>5. PICK at \in DOMAIN Entry : FileOf(f, Entry[at])
  BY <1>1 DEF EntryInv
<1>6. SectorIndex(f) = m
  BY <1>4, <1>5, EntryIsSound DEF FileOf, SoundEntry
<1>7. m \in Nat /\ SECTOR_SIZE \in Nat \ {0}
  BY <1>2, ChainFacts, Constants
<1>8. f.Position = m * SECTOR_SIZE
  BY <1>1, <1>2, <1>6, <1>7, PositionInStream
<1>9. \A i \in 0 .. m * SECTOR_SIZE - 1 : ~Matches(UnitOfChain(c, i), fatName)
  BY <1>1, <1>8 DEF SearchInv
<1>10. ASSUME NEW n \in 0 .. m - 1, NEW j \in 0 .. SECTOR_SIZE - 1
       PROVE  ~Matches(<<SectorOfChain(c, n), j>>, fatName)
  <2> DEFINE i == SECTOR_SIZE * n + j
  <2>1. i \in Nat /\ n \in Nat
    BY <1>7
  <2>2. i \div SECTOR_SIZE = n /\ i % SECTOR_SIZE = j
    <3> DEFINE x == i
    <3>1. x \in Nat /\ x = SECTOR_SIZE * n + j
      BY <2>1
    <3> HIDE DEF x
    <3>2. x \div SECTOR_SIZE = n /\ x % SECTOR_SIZE = j
      BY <1>7, <2>1, <3>1, DivUnique
    <3> QED BY <3>2 DEF x
  <2> HIDE DEF i, m, c
  <2>3. i < m * SECTOR_SIZE
    BY <1>7, <2>1, <2>2, DivBound
  <2>4. i \in 0 .. m * SECTOR_SIZE - 1
    BY <1>7, <2>1, <2>3
  <2>5. UnitOfChain(c, i) = <<SectorOfChain(c, n), j>>
    BY <2>2 DEF UnitOfChain
  <2> QED BY <1>9, <2>4, <2>5
<1> HIDE DEF f
<1>11. DirectorySlots(cur) = OwnSectors(c) \X (0 .. SECTOR_SIZE - 1)
  BY <1>1 DEF DirectorySlots, f
<1> HIDE DEF c, m
<1>12. OwnSectors(c) = {SectorOfChain(c, n) : n \in 0 .. m - 1}
  BY DEF OwnSectors, m
<1> QED BY <1>10, <1>11, <1>12 DEF NameIsIn

\* FAT_FindFile misses no entry of a subdirectory, wherever in its chain the
\* entry is, unless the subdirectory itself has a bad sector.
THEOREM SubdirectorySearchComplete == Spec => SubdirectorySearchIsComplete
<1>1. DriverInv /\ EntryInv /\ SearchInv /\ [Next]_vars =>
        [NotFound /\ files[cur].IsDirectory /\ cur \in Handles
         /\ ~OnBadSector(files[cur].FirstCluster)
           => ~NameIsIn(cur, fatName)]_vars
  BY SearchedAll
<1> QED BY <1>1, DriverInvariant, HandlesOnEntries, SearchedSoFar, PTL
        DEF Spec, SubdirectorySearchIsComplete
=============================================================================
