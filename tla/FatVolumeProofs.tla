---------------------------- MODULE FatVolumeProofs ----------------------------
(***************************************************************************)
(* Proofs about FatTable and FatVolume, for both drivers: FAT_NextCluster  *)
(* reads back what a table of 12-bit entries packs into its bytes, and     *)
(* following it goes through the sectors of a chain in order.              *)
(***************************************************************************)
EXTENDS FatVolume, TLAPS

\* Quotient and remainder are unique.
LEMMA DivUnique ==
  ASSUME NEW s \in Nat \ {0}, NEW q \in Nat, NEW r \in 0 .. s - 1,
         NEW p \in Nat, p = s * q + r
  PROVE  p \div s = q /\ p % s = r
<1> DEFINE Q == p \div s
           R == p % s
<1>1. Q \in Nat /\ R \in 0 .. s - 1 /\ p = s * Q + R
  OBVIOUS
<1> HIDE DEF Q, R
<1>2. CASE Q < q
  <2>1. s * (Q + 1) <= s * q
    BY <1>1, <1>2
  <2> QED BY <2>1, <1>1
<1>3. CASE Q > q
  <2>1. s * (q + 1) <= s * Q
    BY <1>1, <1>3
  <2> QED BY <2>1, <1>1
<1>4. CASE Q = q
  BY <1>1, <1>4 DEF Q, R
<1> QED BY <1>1, <1>2, <1>3, <1>4

\* Moving t units on inside a sector of s keeps the quotient; moving on to its
\* end adds one and lands on a sector boundary.
LEMMA DivStep ==
  ASSUME NEW s \in Nat \ {0}, NEW p \in Nat, NEW t \in 1 .. (s - (p % s))
  PROVE  /\ p \div s \in Nat /\ p % s \in 0 .. s - 1
         /\ t < s - (p % s) => /\ (p + t) \div s = p \div s
                               /\ (p + t) % s = (p % s) + t
         /\ t = s - (p % s) => /\ (p + t) \div s = (p \div s) + 1
                               /\ (p + t) % s = 0
                               /\ p + t = ((p \div s) + 1) * s
<1> DEFINE Q == p \div s
           R == p % s
<1>1. Q \in Nat /\ R \in 0 .. s - 1 /\ p = s * Q + R
  OBVIOUS
<1> HIDE DEF Q, R
<1>2. ASSUME t < s - R PROVE (p + t) \div s = Q /\ (p + t) % s = R + t
  <2>1. p + t = s * Q + (R + t) /\ R + t \in 0 .. s - 1 /\ p + t \in Nat
    BY <1>1, <1>2 DEF R
  <2> QED BY <2>1, <1>1, DivUnique
<1>3. ASSUME t = s - R
      PROVE  (p + t) \div s = Q + 1 /\ (p + t) % s = 0 /\ p + t = (Q + 1) * s
  <2> DEFINE x == p + t
             q == Q + 1
             z == 0
  <2>1. x = s * q + z /\ x = q * s
    BY <1>1, <1>3
  <2>2. x \in Nat /\ q \in Nat /\ z \in 0 .. s - 1
    BY <1>1
  <2> HIDE DEF x, q, z
  <2>3. x \div s = q /\ x % s = z
    BY <2>1, <2>2, DivUnique
  <2> QED BY <2>1, <2>3 DEF x, q, z
<1> QED BY <1>1, <1>2, <1>3 DEF Q, R

\* n below l * s has a quotient below l, and so has the last n of each block.
LEMMA DivBound ==
  ASSUME NEW s \in Nat \ {0}, NEW l \in Nat, NEW n \in Nat
  PROVE  n < l * s <=> n \div s < l
<1> DEFINE Q == n \div s
           R == n % s
<1>1. Q \in Nat /\ R \in 0 .. s - 1 /\ n = s * Q + R
  OBVIOUS
<1> HIDE DEF Q, R
<1>2. ASSUME Q < l PROVE n < l * s
  <2>1. s * (Q + 1) <= s * l
    BY <1>1, <1>2
  <2> QED BY <2>1, <1>1
<1>3. ASSUME Q >= l PROVE n >= l * s
  <2>1. s * l <= s * Q
    BY <1>1, <1>3
  <2> QED BY <2>1, <1>1
<1>4. l * s \in Int
  OBVIOUS
<1> QED BY <1>1, <1>2, <1>3, <1>4 DEF Q

LEMMA EvenBytes ==
  ASSUME NEW k \in Nat
  PROVE  /\ (3 * k) \div 3 = k /\ (3 * k) % 3 = 0
         /\ (3 * k + 1) \div 3 = k /\ (3 * k + 1) % 3 = 1
         /\ (3 * k + 2) \div 3 = k /\ (3 * k + 2) % 3 = 2
         /\ (2 * k) \div 2 = k /\ (2 * k) % 2 = 0
         /\ (2 * k + 1) \div 2 = k /\ (2 * k + 1) % 2 = 1
         /\ FatIndex(2 * k) = 3 * k /\ FatIndex(2 * k + 1) = 3 * k + 1
BY SMTT(30) DEF FatIndex

\* The two words an even and an odd entry are read from.
LEMMA Words ==
  ASSUME NEW even \in Entry12, NEW odd \in Entry12
  PROVE  /\ ((even % 256) + 256 * ((even \div 256) + 16 * (odd % 16))) % 4096 = even
         /\ (((even \div 256) + 16 * (odd % 16)) + 256 * (odd \div 16)) \div 16 = odd
<1> DEFINE el == even % 256
           eh == even \div 256
           ol == odd % 16
           oh == odd \div 16
<1>1. /\ el \in 0 .. 255 /\ eh \in 0 .. 15 /\ even = 256 * eh + el
      /\ ol \in 0 .. 15 /\ oh \in 0 .. 255 /\ odd = 16 * oh + ol
  BY SMTT(30) DEF Entry12
<1> HIDE DEF el, eh, ol, oh
<1>2. (el + 256 * (eh + 16 * ol)) % 4096 = even
  <2>1. el + 256 * (eh + 16 * ol) = 4096 * ol + even /\ even \in 0 .. 4095
    BY <1>1
  <2>2. (4096 * ol + even) % 4096 = even
    BY <2>1, <1>1, SMTT(30)
  <2> QED BY <2>1, <2>2
<1>3. ((eh + 16 * ol) + 256 * oh) \div 16 = odd
  <2>1. (eh + 16 * ol) + 256 * oh = 16 * odd + eh /\ odd \in Nat
    BY <1>1
  <2>2. (16 * odd + eh) \div 16 = odd
    BY <2>1, <1>1, SMTT(30)
  <2> QED BY <2>1, <2>2
<1> QED BY <1>2, <1>3 DEF el, eh, ol, oh

\* The link read for a cluster (stage2/fat.c:186, tools/fat/fat.c:192) is the
\* entry of the table, whichever halves of which bytes it occupies.
THEOREM LinkOfPacked ==
  ASSUME NEW table, DOMAIN table \subseteq Nat, Paired(table),
         table \in [DOMAIN table -> Entry12],
         NEW c \in DOMAIN table
  PROVE  Link(Packed(table), c) = table[c]
<1> DEFINE k == c \div 2
           even == table[2 * k]
           odd == table[2 * k + 1]
           p == Packed(table)
<1>1. k \in Nat /\ (c = 2 * k \/ c = 2 * k + 1)
  <2>1. c \in Nat
    OBVIOUS
  <2> QED BY <2>1, SMTT(30)
<1>2. 2 * k \in DOMAIN table /\ 2 * k + 1 \in DOMAIN table
  BY DEF Paired
<1>3. even \in Entry12 /\ odd \in Entry12
  BY <1>2
<1>4. \A b \in 0 .. 2 : 3 * k + b \in DOMAIN p
  BY DEF Packed
<1> HIDE DEF k
<1>e. /\ (3 * k) \div 3 = k /\ (3 * k) % 3 = 0
      /\ (3 * k + 1) \div 3 = k /\ (3 * k + 1) % 3 = 1
      /\ (3 * k + 2) \div 3 = k /\ (3 * k + 2) % 3 = 2
      /\ (2 * k) % 2 = 0 /\ (2 * k + 1) % 2 = 1
      /\ FatIndex(2 * k) = 3 * k /\ FatIndex(2 * k + 1) = 3 * k + 1
  BY <1>1, EvenBytes
<1>5. p[3 * k] = even % 256
  <2>1. 3 * k \in DOMAIN p
    <3>1. 3 * k + 0 = 3 * k
      BY <1>1
    <3> QED BY <3>1, <1>4
  <2> QED BY <2>1, <1>e DEF Packed
<1>6. p[3 * k + 1] = (even \div 256) + 16 * (odd % 16)
  <2>1. 3 * k + 1 \in DOMAIN p
    BY <1>4
  <2> QED BY <2>1, <1>e DEF Packed
<1>7. p[3 * k + 2] = odd \div 16
  <2>1. 3 * k + 2 \in DOMAIN p
    BY <1>4
  <2> QED BY <2>1, <1>e DEF Packed
<1> HIDE DEF p, even, odd
<1>8. CASE c = 2 * k
  <2>1. c % 2 = 0 /\ FatIndex(c) = 3 * k
    BY <1>8, <1>e
  <2>2. Link(p, c) = (p[3 * k] + 256 * p[3 * k + 1]) % 4096
    BY <2>1 DEF Link, Word
  <2>3. Link(p, c) = even
    BY <2>2, <1>3, <1>5, <1>6, Words
  <2> QED BY <2>3, <1>8 DEF p, even
<1>9. CASE c = 2 * k + 1
  <2>1. c % 2 = 1 /\ FatIndex(c) = 3 * k + 1 /\ (3 * k + 1) + 1 = 3 * k + 2
    BY <1>1, <1>9, <1>e
  <2>2. Link(p, c) = (p[3 * k + 1] + 256 * p[3 * k + 2]) \div 16
    <3>1. Word(p, 3 * k + 1) = p[3 * k + 1] + 256 * p[3 * k + 2]
      BY <2>1 DEF Word
    <3>2. Link(p, c) = Word(p, FatIndex(c)) \div 16
      BY <2>1 DEF Link
    <3> QED BY <3>1, <3>2, <2>1
  <2>3. Link(p, c) = odd
    BY <2>2, <1>3, <1>6, <1>7, Words
  <2> QED BY <2>3, <1>9 DEF p, odd
<1> QED BY <1>1, <1>8, <1>9

-----------------------------------------------------------------------------
(* The chain of a file, sector by sector.                                  *)

LEMMA VolumeConstants ==
  /\ SECTOR_SIZE \in Nat \ {0} /\ SectorsPerCluster \in Nat \ {0}
  /\ RootDirLba \in Nat /\ DataSectionLba \in Nat
  /\ DirEntryCount \in Nat \ {0} /\ EndOfChain \in Nat
<1>1. RootDirLba \in Nat
  BY GeometryAssumption DEF RootDirLba
<1>2. (DirEntryCount + SECTOR_SIZE - 1) \div SECTOR_SIZE \in Nat
  <2>1. DirEntryCount + SECTOR_SIZE - 1 \in Nat /\ SECTOR_SIZE \in Nat \ {0}
    BY GeometryAssumption
  <2> QED BY <2>1
<1> QED BY <1>1, <1>2, GeometryAssumption DEF DataSectionLba

LEMMA ChainFacts ==
  ASSUME NEW c \in DOMAIN Chain
  PROVE  /\ Len(Chain[c]) \in Nat \ {0}
         /\ ChainSectors(c) \in Nat
         /\ Chain[c][1] = c
         /\ \A i \in 1 .. Len(Chain[c]) :
              /\ Chain[c][i] \in DOMAIN Fat
              /\ Chain[c][i] \in Nat /\ Chain[c][i] < EndOfChain
              /\ Fat[Chain[c][i]] \in Nat
              /\ i < Len(Chain[c]) => Fat[Chain[c][i]] = Chain[c][i + 1]
              /\ i = Len(Chain[c]) => Fat[Chain[c][i]] >= EndOfChain
<1>1. Chain[c] \in Seq(DOMAIN Fat)
  BY ChainAssumption
<1>2. Len(Chain[c]) \in Nat \ {0}
  BY <1>1, ChainAssumption
<1>3. \A i \in 1 .. Len(Chain[c]) : Chain[c][i] \in DOMAIN Fat
  BY <1>1
<1>4. \A i \in 1 .. Len(Chain[c]) : Chain[c][i] \in Nat /\ Fat[Chain[c][i]] \in Nat
  <2>1. DOMAIN Fat \subseteq Nat /\ Fat \in [DOMAIN Fat -> Entry12]
    BY ChainAssumption
  <2>2. Entry12 \subseteq Nat
    BY DEF Entry12
  <2>3. \A d \in DOMAIN Fat : d \in Nat /\ Fat[d] \in Nat
    BY <2>1, <2>2
  <2> QED BY <2>3, <1>3
<1>5. ChainSectors(c) \in Nat
  BY <1>2, VolumeConstants DEF ChainSectors
<1> QED BY <1>2, <1>3, <1>4, <1>5, ChainAssumption

\* Following the packed table is following the table.
LEMMA NextClusterIsLink ==
  ASSUME NEW c \in DOMAIN Fat
  PROVE  FAT_NextCluster(c) = Fat[c]
BY ChainAssumption, LinkOfPacked DEF FAT_NextCluster, FatBytes

LEMMA SectorIsInt ==
  ASSUME NEW c \in DOMAIN Chain, NEW n \in Nat, n < ChainSectors(c)
  PROVE  SectorOfChain(c, n) \in Int
<1> DEFINE q == n \div SectorsPerCluster
           r == n % SectorsPerCluster
<1>1. Len(Chain[c]) \in Nat \ {0} /\ SectorsPerCluster \in Nat \ {0}
  BY ChainFacts, VolumeConstants
<1>2. q \in Nat /\ r \in Nat
  BY <1>1
<1>3. q < Len(Chain[c])
  BY <1>1, DivBound DEF ChainSectors
<1> HIDE DEF q, r
<1>4. Chain[c][q + 1] \in Nat
  <2>1. q + 1 \in 1 .. Len(Chain[c])
    BY <1>1, <1>2, <1>3
  <2> QED BY <2>1, ChainFacts
<1> QED BY <1>1, <1>2, <1>4, VolumeConstants DEF SectorOfChain, q, r

\* The step from sector n of a chain to sector n + 1: the next sector of the
\* same cluster, or the first one of the linked cluster, or the end mark.
LEMMA ChainStep ==
  ASSUME NEW c \in DOMAIN Chain, NEW n \in Nat, n < ChainSectors(c),
         NEW q, q = n \div SectorsPerCluster,
         NEW r, r = n % SectorsPerCluster
  PROVE  /\ q \in 0 .. Len(Chain[c]) - 1 /\ r \in 0 .. SectorsPerCluster - 1
         /\ r + 1 < SectorsPerCluster =>
              /\ (n + 1) \div SectorsPerCluster = q
              /\ (n + 1) % SectorsPerCluster = r + 1
              /\ n + 1 < ChainSectors(c)
         /\ r + 1 >= SectorsPerCluster /\ q + 1 < Len(Chain[c]) =>
              /\ (n + 1) \div SectorsPerCluster = q + 1
              /\ (n + 1) % SectorsPerCluster = 0
              /\ n + 1 < ChainSectors(c)
              /\ Fat[Chain[c][q + 1]] = Chain[c][q + 2]
         /\ r + 1 >= SectorsPerCluster /\ q + 1 >= Len(Chain[c]) =>
              /\ n + 1 = ChainSectors(c)
              /\ Fat[Chain[c][q + 1]] >= EndOfChain
<1> DEFINE s == SectorsPerCluster
           l == Len(Chain[c])
<1>1. s \in Nat \ {0} /\ l \in Nat \ {0}
  BY VolumeConstants, ChainFacts
<1>c. ChainSectors(c) = l * s
  BY DEF ChainSectors
<1>d. q = n \div s /\ r = n % s
  OBVIOUS
<1> HIDE DEF s, l
<1>2. 1 \in 1 .. (s - r) /\ r \in 0 .. s - 1 /\ q \in Nat
  BY <1>1, <1>d
<1>3. /\ 1 < s - r => (n + 1) \div s = q /\ (n + 1) % s = r + 1
      /\ 1 = s - r => /\ (n + 1) \div s = q + 1 /\ (n + 1) % s = 0
                      /\ n + 1 = (q + 1) * s
  <2>1. 1 \in 1 .. (s - (n % s))
    BY <1>2, <1>d
  <2>2. /\ 1 < s - (n % s) => /\ (n + 1) \div s = n \div s
                              /\ (n + 1) % s = (n % s) + 1
        /\ 1 = s - (n % s) => /\ (n + 1) \div s = (n \div s) + 1
                              /\ (n + 1) % s = 0
                              /\ n + 1 = ((n \div s) + 1) * s
    BY <1>1, <2>1, DivStep
  <2> QED BY <2>2, <1>d
<1>4. q < l /\ (n + 1 < ChainSectors(c) <=> (n + 1) \div s < l)
  <2>1. n < l * s <=> n \div s < l
    BY <1>1, DivBound
  <2>2. n + 1 < l * s <=> (n + 1) \div s < l
    BY <1>1, DivBound
  <2> QED BY <2>1, <2>2, <1>c, <1>d
<1>5. q + 1 \in 1 .. l
  BY <1>1, <1>2, <1>4
<1>6. q + 1 < l => Fat[Chain[c][q + 1]] = Chain[c][q + 2]
  <2>1. q + 1 \in 1 .. l /\ (q + 1) + 1 = q + 2
    BY <1>5, <1>2
  <2>2. \A i \in 1 .. l : i < l => Fat[Chain[c][i]] = Chain[c][i + 1]
    BY ChainFacts DEF l
  <2> QED BY <2>1, <2>2
<1>7. q + 1 = l => Fat[Chain[c][q + 1]] >= EndOfChain
  BY <1>5, ChainFacts DEF l
<1>8. q + 1 = l /\ 1 = s - r => n + 1 = ChainSectors(c)
  BY <1>3, <1>c
<1> QED BY <1>1, <1>2, <1>3, <1>4, <1>5, <1>6, <1>7, <1>8 DEF s, l

\* Positions and sector indices: inside the sector the index stays, at its end
\* it grows by one and the position is on a boundary.
LEMMA PositionStep ==
  ASSUME NEW f, f.Position \in Nat, NEW take \in 1 .. LeftInBuffer(f),
         NEW g, g.Position = f.Position + take
  PROVE  /\ SectorIndex(f) \in Nat /\ LeftInBuffer(f) \in 1 .. SECTOR_SIZE
         /\ take < LeftInBuffer(f) => SectorIndex(g) = SectorIndex(f)
         /\ take = LeftInBuffer(f) =>
              /\ SectorIndex(g) = SectorIndex(f) + 1
              /\ g.Position = SectorIndex(g) * SECTOR_SIZE
<1> DEFINE s == SECTOR_SIZE
           p == f.Position
<1>1. s \in Nat \ {0} /\ p \in Nat
  BY VolumeConstants
<1>2. LeftInBuffer(f) = s - (p % s)
  BY DEF LeftInBuffer
<1>3. SectorIndex(f) = p \div s /\ SectorIndex(g) = (p + take) \div s
  BY DEF SectorIndex
<1> HIDE DEF s, p
<1>4. take \in 1 .. (s - (p % s))
  BY <1>2
<1>5. /\ p \div s \in Nat /\ p % s \in 0 .. s - 1
      /\ take < s - (p % s) => (p + take) \div s = p \div s
      /\ take = s - (p % s) => /\ (p + take) \div s = (p \div s) + 1
                               /\ p + take = ((p \div s) + 1) * s
  BY <1>1, <1>4, DivStep
<1>6. g.Position = p + take
  BY DEF p
<1>7. LeftInBuffer(f) \in 1 .. s
  BY <1>1, <1>2, <1>5
<1> QED BY <1>2, <1>3, <1>5, <1>6, <1>7 DEF s
=============================================================================
