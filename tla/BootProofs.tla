------------------------------ MODULE BootProofs ------------------------------
(***************************************************************************)
(* Proofs about Boot, for every image, every geometry, every pattern of    *)
(* failing BIOS calls, every pace of the keyboard controller and every     *)
(* keystroke.                                                              *)
(***************************************************************************)
EXTENDS Boot, Image, TLAPS

-----------------------------------------------------------------------------
(* Numbers.                                                                *)

\* n below l * s has a quotient below l, and so has the last n of each block.
LEMMA DivBound ==
  ASSUME NEW s \in Nat \ {0}, NEW l \in Nat, NEW n \in Nat
  PROVE  n < l * s <=> n \div s < l
<1> DEFINE Q == n \div s
           R == n % s
<1>1. Q \in Nat /\ R \in 0 .. s - 1 /\ n = s * Q + R
  OBVIOUS
<1> HIDE DEF Q, R
<1>2. ASSUME Q < l PROVE n < l * s
  <2>1. s * (Q + 1) <= s * l
    BY <1>1, <1>2
  <2> QED BY <2>1, <1>1
<1>3. ASSUME Q >= l PROVE n >= l * s
  <2>1. s * l <= s * Q
    BY <1>1, <1>3
  <2> QED BY <2>1, <1>1
<1>4. l * s \in Int
  OBVIOUS
<1> QED BY <1>1, <1>2, <1>3, <1>4 DEF Q

\* The fields of cl are told apart again.
LEMMA FieldsOfCl ==
  ASSUME NEW b \in 0 .. 3, NEW z \in 0 .. 63
  PROVE  (64 * b + z) \div 64 = b /\ (64 * b + z) % 64 = z
BY SMTT(30)

\* A cylinder number is told from its low byte and two high bits.
LEMMA BytesOfCylinder ==
  ASSUME NEW x \in 0 .. 1023
  PROVE  /\ x \div 256 \in 0 .. 3 /\ x % 256 \in 0 .. 255
         /\ x = 256 * (x \div 256) + (x % 256)
<1>1. x = 256 * (x \div 256) + (x % 256)
  BY SMTT(30)
<1>2. x % 256 \in 0 .. 255
  BY SMTT(30)
<1>3. x \div 256 \in 0 .. 3
  BY SMTT(30)
<1> QED BY <1>1, <1>2, <1>3

\* An LBA the old interface reaches, divided into cylinder, head and sector
\* within 16 bits, addresses that very sector.
LEMMA ChsRoundTrip ==
  ASSUME NEW lba \in Nat, lba < Reach, lba < 65536
  PROVE  AddressedLba(lba_to_chs(lba)) = lba
<1> DEFINE S == SectorsPerTrack
           H == Heads
           t == lba \div S
           s == lba % S
           c == t \div H
           h == t % H
           b == c \div 256
           z == s + 1
           cl == s + 1 + 64 * (b % 4)
<1>1. S \in Nat \ {0} /\ S \in 1 .. 63 /\ H \in Nat \ {0} /\ H \in 1 .. 256
  BY Stage1Assumption
<1>2. t \in Nat /\ s \in 0 .. S - 1 /\ lba = t * S + s
  <2> HIDE DEF S
  <2>1. S \in Nat \ {0}
    BY <1>1
  <2>2. lba \div S \in Nat /\ lba % S \in 0 .. S - 1 /\ lba = (lba \div S) * S + (lba % S)
    BY <2>1
  <2> QED BY <2>2
<1>3. c \in Nat /\ h \in 0 .. H - 1 /\ t = c * H + h
  <2> HIDE DEF H, t
  <2>1. H \in Nat \ {0} /\ t \in Nat
    BY <1>1, <1>2
  <2>2. t \div H \in Nat /\ t % H \in 0 .. H - 1 /\ t = (t \div H) * H + (t % H)
    BY <2>1
  <2> QED BY <2>2
<1>4. c < 1024
  <2>1. lba < (1024 * H) * S /\ 1024 * H \in Nat
    <3>1. lba < (1024 * H) * S
      BY DEF Reach
    <3>2. 1024 * H \in Nat
      <4> HIDE DEF H
      <4> QED BY <1>1
    <3> QED BY <3>1, <3>2
  <2>2. t < 1024 * H
    <3> DEFINE l == 1024 * H
    <3> HIDE DEF l, S
    <3> QED BY <2>1, <1>1, DivBound DEF l
  <2> QED
    <3> HIDE DEF H, t
    <3> QED BY <2>2, <1>1, <1>2, DivBound
<1>5. lba % 65536 = lba
  BY SMTT(30)
<1>6. lba_to_chs(lba) = [ch |-> c % 256, cl |-> cl, dh |-> h]
  BY <1>5 DEF lba_to_chs
<1>7. c \in 0 .. 1023 /\ z \in 1 .. 63
  <2> HIDE DEF c, s, S
  <2> QED BY <1>1, <1>2, <1>3, <1>4
<1>8. (c % 256) + 256 * (cl \div 64) = c /\ cl % 64 = z
  <2>1. b \in 0 .. 3 /\ c % 256 \in 0 .. 255 /\ c = 256 * b + (c % 256)
    <3> HIDE DEF c
    <3> QED BY <1>7, BytesOfCylinder
  <2>2. cl = z + 64 * (b % 4)
    OBVIOUS
  <2>2a. b \in 0 .. 3
    BY <2>1
  <2> HIDE DEF b, z, cl
  <2>3. b % 4 = b
    BY <2>2a
  <2>4. cl = 64 * b + z
    BY <1>7, <2>1, <2>2, <2>3
  <2>5. cl \div 64 = b /\ cl % 64 = z
    BY <1>7, <2>1, <2>4, FieldsOfCl
  <2> HIDE DEF c
  <2> QED BY <2>1, <2>5
<1>9. AddressedLba(lba_to_chs(lba)) = (c * H + h) * S + z - 1
  <2> HIDE DEF c, h, z, cl
  <2> QED BY <1>6, <1>8 DEF AddressedLba
<1> HIDE DEF c, h, s, t, S, H, cl, b
<1> QED BY <1>1, <1>2, <1>3, <1>9 DEF z

-----------------------------------------------------------------------------
(* Stage 1.                                                                *)

LEMMA ImageFacts ==
  ASSUME NEW im \in Images
  PROVE  /\ im.table \in Seq(TableEntry) /\ im.first \in Seq(Nat)
         /\ im.stage2 \in Seq(Nat)
         /\ Len(im.table) \in Nat /\ Len(im.first) = Len(im.table) + 1
         /\ im.first[1] = 0
BY Stage1Assumption DEF ImageRecord

LEMMA EntryFacts ==
  ASSUME NEW im \in Images, NEW i \in 1 .. Len(im.table)
  PROVE  /\ im.table[i].lba \in Nat /\ im.table[i].count \in 0 .. 255
         /\ im.first[i] \in Nat
         /\ im.first[i + 1] = im.first[i] + im.table[i].count
         /\ AddressedLba(lba_to_chs(im.table[i].lba)) = im.table[i].lba
<1>1. im.table[i] \in TableEntry /\ im.first[i] \in Nat
  BY ImageFacts
<1>2. /\ im.first[i + 1] = im.first[i] + im.table[i].count
      /\ im.table[i].lba < Reach /\ im.table[i].lba < 65536
  BY Stage1Assumption
<1>3. im.table[i].lba \in Nat /\ im.table[i].count \in 0 .. 255
  BY <1>1 DEF TableEntry
<1> QED BY <1>1, <1>2, <1>3, ChsRoundTrip

LEMMA Stage1InitInv == Stage1Init => Stage1Inv
<1> SUFFICES ASSUME Stage1Init PROVE Stage1Inv
  OBVIOUS
<1>1. image \in Images /\ Len(image.table) \in Nat /\ image.first[1] = 0
  BY ImageFacts DEF Stage1Init
<1>2. Stage1TypeOK
  <2>1. request \in [lba : Nat, slot : Nat, count : 0 .. 255]
    BY DEF Stage1Init, NoRequest
  <2>2. mem \in [Slots -> Nat \cup {NOTHING}]
    BY DEF Stage1Init, Blank
  <2>3. entry \in 1 .. Len(image.table) + 1 /\ es \in Nat /\ di \in 0 .. 3
    BY <1>1 DEF Stage1Init
  <2> QED BY <1>1, <2>1, <2>2, <2>3 DEF Stage1Init, Stage1TypeOK
<1>3. Progress
  BY <1>1 DEF Stage1Init, Progress
<1> QED BY <1>2, <1>3 DEF Stage1Inv

\* A transfer of k sectors into the room there is puts sectors behind those
\* before its slot, and leaves those.
LEMMA FilledFacts ==
  ASSUME Stage1TypeOK, NEW k \in 0 .. request.count
  PROVE  /\ Filled(k) \in [Slots -> Nat \cup {NOTHING}]
         /\ \A s \in Slots :
              Filled(k)[s] = IF s \in request.slot .. request.slot + k - 1
                             THEN request.lba + (s - request.slot) ELSE mem[s]
<1>1. request.lba \in Nat /\ request.slot \in Nat /\ request.count \in 0 .. 255 /\ k \in Nat
  BY DEF Stage1TypeOK
<1>2. mem \in [Slots -> Nat \cup {NOTHING}] /\ Slots \subseteq Nat
  BY Stage1Assumption DEF Stage1TypeOK, Slots
<1>3. ASSUME NEW s \in Slots, s \in request.slot .. request.slot + k - 1
      PROVE  request.lba + (s - request.slot) \in Nat
  BY <1>1, <1>2, <1>3
<1> QED BY <1>2, <1>3 DEF Filled

LEMMA CheckExtensionsInv == Stage1Inv /\ CheckExtensions => Stage1Inv'
<1> SUFFICES ASSUME Stage1Inv, CheckExtensions PROVE Stage1Inv'
  OBVIOUS
<1> USE DEF Stage1Inv, CheckExtensions
<1>1. image \in Images /\ Len(image.table) \in Nat /\ image.first[1] = 0
  BY ImageFacts DEF Stage1TypeOK
<1>2. Stage1TypeOK'
  BY <1>1 DEF Stage1TypeOK
<1>3. Loaded(0)'
  BY Stage1Assumption DEF Loaded
<1>4. Progress'
  BY <1>1, <1>3 DEF Progress
<1> QED BY <1>2, <1>4

LEMMA DiskReadInv == Stage1Inv /\ DiskRead => Stage1Inv'
<1> SUFFICES ASSUME Stage1Inv, DiskRead PROVE Stage1Inv'
  OBVIOUS
<1> DEFINE e == image.table[entry]
<1>1. entry \in 1 .. Len(image.table) /\ image \in Images /\ es \in Nat
  BY ImageFacts DEF Stage1Inv, Stage1TypeOK, DiskRead
<1>2. /\ e.lba \in Nat /\ e.count \in 0 .. 255
      /\ AddressedLba(lba_to_chs(e.lba)) = e.lba
  BY <1>1, EntryFacts
<1> HIDE DEF e
<1>3. request' = [lba |-> e.lba, slot |-> es, count |-> e.count]
  BY <1>2 DEF DiskRead, e
<1>4. Stage1TypeOK'
  <2>1. request' \in [lba : Nat, slot : Nat, count : 0 .. 255]
    BY <1>1, <1>2, <1>3
  <2> QED BY <1>1, <2>1 DEF Stage1Inv, Stage1TypeOK, DiskRead
<1>5. RequestOfTable'
  <2>1. /\ request'.lba = e.lba /\ request'.slot = es /\ request'.count = e.count
        /\ e.count <= e.count
    BY <1>2, <1>3
  <2> QED BY <1>1, <2>1 DEF RequestOfTable, DiskRead, e
<1>6. Progress'
  BY <1>5 DEF Stage1Inv, Progress, DiskRead, Loaded, Describes
<1> QED BY <1>4, <1>6 DEF Stage1Inv

LEMMA JumpToStage2Inv == Stage1Inv /\ JumpToStage2 => Stage1Inv'
<1> SUFFICES ASSUME Stage1Inv, JumpToStage2 PROVE Stage1Inv'
  OBVIOUS
<1>1. entry = Len(image.table) + 1
  BY ImageFacts DEF Stage1Inv, Stage1TypeOK, JumpToStage2
<1>2. Stage1TypeOK'
  BY DEF Stage1Inv, Stage1TypeOK, JumpToStage2
<1>3. Progress'
  BY <1>1 DEF Stage1Inv, Progress, JumpToStage2, Loaded, Describes
<1> QED BY <1>2, <1>3 DEF Stage1Inv

\* The sectors before the entry in progress stay where they are, however many
\* of its own arrive.
LEMMA LoadedStays ==
  ASSUME Stage1Inv, pc = "int13", NEW k \in 0 .. request.count,
         Loaded(image.first[entry]), mem' = Filled(k), image' = image
  PROVE  \A n \in Nat : n = image.first[entry] => Loaded(n)'
<1> SUFFICES ASSUME NEW n \in Nat, n = image.first[entry] PROVE Loaded(n)'
  OBVIOUS
<1>1. request.slot = n /\ n \in Nat /\ LastSlot \in Nat
  BY Stage1Assumption DEF Stage1Inv, Progress, RequestOfTable
<1>2. n <= LastSlot + 1 /\ \A s \in 0 .. n - 1 : mem[s] = image.stage2[s + 1]
  BY DEF Loaded
<1>3. ASSUME NEW s \in 0 .. n - 1 PROVE mem'[s] = image.stage2[s + 1]
  <2>1. s \in Slots /\ s \notin request.slot .. request.slot + k - 1
    BY <1>1, <1>2 DEF Slots
  <2>2. Filled(k)[s] = mem[s]
    BY <2>1, FilledFacts DEF Stage1Inv
  <2> QED BY <1>2, <2>2
<1> QED BY <1>2, <1>3 DEF Loaded

LEMMA CountFacts ==
  ASSUME Stage1Inv PROVE request.count \in 0 .. request.count
<1> DEFINE c == request.count
<1>1. c \in 0 .. 255
  BY DEF Stage1Inv, Stage1TypeOK
<1> HIDE DEF c
<1>2. c \in 0 .. c
  BY <1>1
<1> QED BY <1>2 DEF c

LEMMA RunOverInv == Stage1Inv /\ RunOver => Stage1Inv'
<1> SUFFICES ASSUME Stage1Inv, RunOver PROVE Stage1Inv'
  OBVIOUS
<1>1. request.count \in 0 .. request.count
  BY CountFacts
<1>2. Filled(request.count) \in [Slots -> Nat \cup {NOTHING}]
  BY <1>1, FilledFacts DEF Stage1Inv
<1>3. Stage1TypeOK'
  BY <1>2 DEF Stage1Inv, Stage1TypeOK, RunOver
<1>4. Progress'
  BY DEF Stage1Inv, Progress, RunOver
<1> QED BY <1>3, <1>4 DEF Stage1Inv

LEMMA TransferredInv == Stage1Inv /\ Transferred => Stage1Inv'
<1> SUFFICES ASSUME Stage1Inv, Transferred PROVE Stage1Inv'
  OBVIOUS
<1>0. PICK e, n : e = image.table[entry] /\ n = image.first[entry]
  OBVIOUS
<1>1. /\ pc = "int13" /\ image \in Images /\ RequestOfTable /\ es = n
      /\ entry \in 1 .. Len(image.table) + 1 /\ Len(image.table) \in Nat
  BY <1>0, ImageFacts DEF Stage1Inv, Stage1TypeOK, Progress, Transferred
<1>2. entry \in 1 .. Len(image.table) /\ entry + 1 \in 1 .. Len(image.table) + 1
  BY <1>1 DEF RequestOfTable
<1>3. /\ e.lba \in Nat /\ e.count \in 0 .. 255 /\ n \in Nat
      /\ image.first[entry + 1] = n + e.count
  BY <1>0, <1>1, <1>2, EntryFacts
<1>4. request.lba = e.lba /\ request.slot = n /\ (request.count = e.count \/ shrunk)
  BY <1>0, <1>1 DEF RequestOfTable
<1>5. request.count \in 0 .. request.count
  BY CountFacts
<1>6. /\ Filled(request.count) \in [Slots -> Nat \cup {NOTHING}]
      /\ \A s \in Slots :
           Filled(request.count)[s] =
             IF s \in request.slot .. request.slot + request.count - 1
             THEN request.lba + (s - request.slot) ELSE mem[s]
  BY <1>5, FilledFacts DEF Stage1Inv
<1>7. es' = n + e.count /\ entry' = entry + 1 /\ mem' = Filled(request.count)
  BY <1>0, <1>1 DEF Transferred
<1>8. Stage1TypeOK'
  <2>1. es' \in Nat
    BY <1>3, <1>7
  <2>2. entry' \in 1 .. Len(image'.table) + 1
    BY <1>2, <1>7 DEF Transferred
  <2>3. mem' \in [Slots -> Nat \cup {NOTHING}]
    BY <1>6, <1>7
  <2> QED BY <2>1, <2>2, <2>3 DEF Stage1Inv, Stage1TypeOK, Transferred
<1>9. ASSUME Describes(image), ~shrunk PROVE Loaded(n + e.count)'
  <2>1. request.count = e.count /\ request.slot + request.count <= LastSlot + 1
    BY <1>4, <1>9 DEF Transferred, InRoom
  <2>2. Loaded(n)
    BY <1>0, <1>1, <1>9 DEF Stage1Inv, Progress, Transferred
  <2>3. Loaded(n)'
    BY <2>2, <1>0, <1>1, <1>3, <1>5, <1>7, LoadedStays DEF Transferred
  <2>4. \A j \in 0 .. e.count - 1 : image.stage2[n + j + 1] = e.lba + j
    BY <1>0, <1>2, <1>9 DEF Describes
  <2>5. ASSUME NEW s \in 0 .. (n + e.count) - 1 PROVE mem'[s] = image.stage2[s + 1]
    <3>1. CASE s < n
      <4>1. s \in 0 .. n - 1
        BY <1>3, <2>5, <3>1
      <4>2. mem'[s] = image'.stage2[s + 1]
        BY <4>1, <2>3 DEF Loaded
      <4> QED BY <4>2 DEF Transferred
    <3>2. CASE s >= n
      <4> DEFINE j == s - n
      <4>1. j \in 0 .. e.count - 1 /\ s = n + j
        BY <1>3, <2>5, <3>2
      <4>2. s \in Slots /\ s \in request.slot .. request.slot + request.count - 1
        <5>1. LastSlot \in Nat
          BY Stage1Assumption
        <5>2. request.slot = n /\ request.count = e.count /\ n + e.count <= LastSlot + 1
          BY <1>4, <2>1
        <5>3. s \in 0 .. LastSlot /\ s \in n .. n + e.count - 1
          BY <1>3, <2>5, <3>2, <5>1, <5>2
        <5> QED BY <5>2, <5>3 DEF Slots
      <4>3. mem'[s] = e.lba + j
        BY <1>4, <1>6, <1>7, <4>2
      <4>4. image.stage2[n + j + 1] = e.lba + j
        BY <2>4, <4>1
      <4> HIDE DEF j
      <4> QED BY <4>1, <4>3, <4>4
    <3> QED BY <1>3, <2>5, <3>1, <3>2
  <2>6. n + e.count <= LastSlot + 1
    BY <1>4, <2>1
  <2> QED BY <2>5, <2>6 DEF Loaded, Transferred
<1>10. Progress'
  <2>1. es' = image'.first[entry'] /\ image'.first[entry'] = n + e.count
    BY <1>3, <1>7 DEF Transferred
  <2> QED BY <2>1, <1>9 DEF Progress, Transferred, Describes, Loaded
<1> QED BY <1>8, <1>10 DEF Stage1Inv

LEMMA TransferFailsInv == Stage1Inv /\ TransferFails => Stage1Inv'
<1> SUFFICES ASSUME Stage1Inv, TransferFails PROVE Stage1Inv'
  OBVIOUS
<1>0. PICK e, n : e = image.table[entry] /\ n = image.first[entry]
  OBVIOUS
<1>1. /\ pc = "int13" /\ image \in Images /\ RequestOfTable /\ es = n /\ di > 0
      /\ entry \in 1 .. Len(image.table) + 1 /\ Len(image.table) \in Nat
  BY <1>0, ImageFacts
     DEF Stage1Inv, Stage1TypeOK, Progress, RequestOfTable, TransferFails
<1>2. entry \in 1 .. Len(image.table)
  BY <1>1 DEF RequestOfTable
<1>3. n \in Nat /\ e.count \in 0 .. 255
  BY <1>0, <1>1, <1>2, EntryFacts
<1>4. PICK k \in 0 .. request.count :
        /\ mem' = Filled(k)
        /\ \E count \in {request.count} \cup (IF have_extensions THEN {k} ELSE {}) :
             /\ request' = [request EXCEPT !.count = count]
             /\ shrunk' = (shrunk \/ count < request.count)
  BY DEF TransferFails
<1>5. PICK c \in {request.count, k} :
        /\ request' = [request EXCEPT !.count = c]
        /\ shrunk' = (shrunk \/ c < request.count)
  BY <1>4
<1>6. request \in [lba : Nat, slot : Nat, count : 0 .. 255]
  BY DEF Stage1Inv, Stage1TypeOK
<1>7. c \in 0 .. 255 /\ c <= request.count /\ request.count <= e.count
  <2>1. request.count \in 0 .. 255
    BY <1>6
  <2>2. request.count <= e.count
    BY <1>0, <1>1 DEF RequestOfTable
  <2>3. k \in 0 .. 255 /\ k <= request.count
    BY <1>4, <2>1
  <2> QED BY <1>5, <2>1, <2>2, <2>3
<1>8. /\ request'.lba = request.lba /\ request'.slot = request.slot /\ request'.count = c
      /\ request' \in [lba : Nat, slot : Nat, count : 0 .. 255]
  BY <1>5, <1>6, <1>7
<1>9. Stage1TypeOK'
  <2>1. mem' \in [Slots -> Nat \cup {NOTHING}]
    BY <1>4, FilledFacts DEF Stage1Inv
  <2>2. shrunk' \in BOOLEAN
    BY <1>5
  <2> QED BY <1>8, <2>1, <2>2 DEF Stage1Inv, Stage1TypeOK, TransferFails
<1>10. RequestOfTable'
  <2>1. c <= e.count /\ (c = e.count \/ shrunk')
    <3> DEFINE r == request.count
    <3>1. r \in 0 .. 255 /\ (r = e.count \/ shrunk) /\ shrunk' = (shrunk \/ c < r)
      BY <1>0, <1>1, <1>5, <1>6 DEF RequestOfTable
    <3>2. c <= r /\ r <= e.count /\ c \in 0 .. 255
      BY <1>7
    <3> HIDE DEF r
    <3>3. CASE c < r
      <4>1. shrunk'
        BY <3>1, <3>3
      <4> QED BY <1>3, <3>1, <3>2, <4>1
    <3>4. CASE c = r
      <4>1. shrunk => shrunk'
        BY <3>1
      <4> QED BY <3>1, <3>2, <3>4, <4>1
    <3> QED BY <3>1, <3>2, <3>3, <3>4
  <2> QED BY <1>0, <1>1, <1>8, <2>1 DEF RequestOfTable, TransferFails
<1>11. ASSUME Describes(image), ~shrunk' PROVE Loaded(n)'
  <2>1. ~shrunk
    BY <1>5, <1>11 DEF Stage1Inv, Stage1TypeOK
  <2>2. Loaded(n)
    BY <1>0, <1>1, <1>11, <2>1 DEF Stage1Inv, Progress
  <2> QED BY <1>0, <1>1, <1>3, <1>4, <2>2, LoadedStays DEF TransferFails
<1>12. Progress'
  BY <1>0, <1>1, <1>10, <1>11 DEF Progress, TransferFails, Describes
<1> QED BY <1>9, <1>12 DEF Stage1Inv

LEMMA ResetAndRetryInv == Stage1Inv /\ ResetAndRetry => Stage1Inv'
<1> SUFFICES ASSUME Stage1Inv, ResetAndRetry PROVE Stage1Inv'
  OBVIOUS
<1>1. RequestOfTable /\ di \in 1 .. 3
  BY DEF Stage1Inv, Stage1TypeOK, Progress, RequestOfTable, ResetAndRetry
<1>2. di' \in 0 .. 2 /\ (di' # 0 => di' > 0)
  BY <1>1 DEF ResetAndRetry
<1>3. Stage1TypeOK'
  BY <1>2 DEF Stage1Inv, Stage1TypeOK, ResetAndRetry
<1>4. pc' = "int13" => RequestOfTable'
  BY <1>1, <1>2 DEF RequestOfTable, ResetAndRetry
<1>5. Progress'
  BY <1>4 DEF Stage1Inv, Progress, ResetAndRetry, Loaded, Describes
<1> QED BY <1>3, <1>5 DEF Stage1Inv

LEMMA ResetFailsInv == Stage1Inv /\ ResetFails => Stage1Inv'
BY DEF Stage1Inv, Stage1TypeOK, Progress, ResetFails

LEMMA LoadingInv == Stage1Inv /\ Loading => Stage1Inv'
BY CheckExtensionsInv, DiskReadInv, JumpToStage2Inv, RunOverInv, TransferredInv,
   TransferFailsInv, ResetAndRetryInv, ResetFailsInv DEF Loading

LEMMA RestartInv == Stage1Inv /\ Restart => Stage1Inv'
<1> SUFFICES ASSUME Stage1Inv, Restart PROVE Stage1Inv'
  OBVIOUS
<1>1. image \in Images /\ Len(image.table) \in Nat
  BY ImageFacts DEF Stage1Inv, Stage1TypeOK
<1>2. Stage1TypeOK'
  <2>1. request' \in [lba : Nat, slot : Nat, count : 0 .. 255]
    BY DEF Restart, NoRequest
  <2>2. mem' \in [Slots -> Nat \cup {NOTHING}]
    BY DEF Restart, Blank, Stage1Inv, Stage1TypeOK
  <2>3. entry' \in 1 .. Len(image'.table) + 1 /\ es' \in Nat /\ di' \in 0 .. 3
    BY <1>1 DEF Restart
  <2> QED BY <1>1, <2>1, <2>2, <2>3 DEF Restart, Stage1TypeOK
<1>3. Progress'
  BY DEF Restart, Progress
<1> QED BY <1>2, <1>3 DEF Stage1Inv

LEMMA Stage1Unchanged == Stage1Inv /\ UNCHANGED stage1Vars => Stage1Inv'
BY DEF Stage1Inv, Stage1TypeOK, Progress, RequestOfTable, Describes, Loaded, stage1Vars

-----------------------------------------------------------------------------
(* The entry of the second stage.                                          *)

\* What BootInv says of the processor and the controller.
KbcInv == /\ KbcTypeOK /\ at \in Handshake \cup {"off", "start", "reset"} /\ popped \in Byte
          /\ InStep /\ PortBytes /\ EntersReady

LEMMA InvParts == BootInv /\ EntersReady <=> Stage1Inv /\ KbcInv
BY DEF BootInv, KbcInv, TypeOK, Stage1Inv

LEMMA ByteFacts ==
  /\ \A b \in Byte : /\ [b EXCEPT !.a20 = TRUE] \in Byte
                     /\ [b EXCEPT !.a20 = TRUE].a20
                     /\ [b EXCEPT !.a20 = TRUE].bit0 = b.bit0
                     /\ [b EXCEPT !.source = "port"] \in Byte
                     /\ [b EXCEPT !.source = "port"].source = "port"
                     /\ [b EXCEPT !.source = "port"].bit0 = b.bit0
                     /\ [b EXCEPT !.source = "port"].a20 = b.a20
                     /\ [b EXCEPT !.bit0 = TRUE] \in Byte
                     /\ [b EXCEPT !.bit0 = TRUE].source = b.source
                     /\ [b EXCEPT !.bit0 = TRUE].bit0
                     /\ b.source \in {"key", "port"}
BY DEF Byte

LEMMA BootInitInv == Init => Stage1Inv /\ KbcInv
<1> SUFFICES ASSUME Init PROVE Stage1Inv /\ KbcInv
  OBVIOUS
<1>1. Stage1Inv
  BY Stage1InitInv DEF Init
<1>2. port \in Byte /\ port.source = "port" /\ port.bit0
  <2>1. PICK a \in BOOLEAN : port = [source |-> "port", bit0 |-> TRUE, a20 |-> a]
    BY DEF Init, KbcInit
  <2> QED BY <2>1 DEF Byte
<1>3. KbcTypeOK /\ popped \in Byte
  BY <1>2 DEF Init, KbcInit, KbcTypeOK
<1>4. InStep /\ PortBytes /\ EntersReady
  BY <1>2 DEF Init, KbcInit, InStep, PortBytes, EntersReady
<1> QED BY <1>1, <1>3, <1>4 DEF KbcInv, Init

LEMMA EntryLoadedStays == UNCHANGED stage1Vars => (EntryLoaded' <=> EntryLoaded)
BY DEF EntryLoaded, Loaded, stage1Vars

\* Stage 1 at work: the handshake has not begun.
LEMMA Stage1StepKbc == KbcInv /\ Stage1Step => KbcInv'
<1> SUFFICES ASSUME KbcInv, Stage1Step PROVE KbcInv'
  OBVIOUS
<1>1. at = "off"
  BY DEF KbcInv, InStep, EntryLoaded, Stage1Step, Loading, CheckExtensions, DiskRead,
         JumpToStage2, Transferred, RunOver, TransferFails, ResetAndRetry, ResetFails
<1> QED BY <1>1 DEF KbcInv, KbcTypeOK, InStep, PortBytes, EntersReady, Stage1Step,
                    kbcVars, entryVars

LEMMA EntryKbc == KbcInv /\ Entry => KbcInv'
<1> SUFFICES ASSUME KbcInv, Entry PROVE KbcInv'
  OBVIOUS
<1>1. EntryLoaded'
  BY EntryLoadedStays DEF Entry
<1>2. KbcTypeOK' /\ input' = input /\ port' = port /\ data' = data
      /\ (output' = output \/ output'.source = "key")
  BY DEF KbcInv, KbcTypeOK, Entry, Key, kbcVars, Byte
<1> QED BY <1>1, <1>2 DEF KbcInv, InStep, PortBytes, EntersReady, Entry, Handshake

LEMMA EnableA20Kbc == KbcInv /\ EnableA20 => KbcInv'
<1> SUFFICES ASSUME KbcInv, EnableA20 PROVE KbcInv'
  OBVIOUS
<1>0. UNCHANGED stage1Vars /\ (EntryLoaded => EntryLoaded')
  BY EntryLoadedStays DEF EnableA20, Send, ReadCtrlOutputPort
<1> USE DEF KbcInv, KbcTypeOK, InStep, PortBytes, EntersReady, Handshake, A20WaitInput, Write
<1>1. CASE Send("disable", "readCommand", "DisableKeyboard", data)
  BY <1>0, <1>1 DEF Send, Commands
<1>2. CASE Send("readCommand", "read", "ReadCtrlOutputPort", data)
  BY <1>0, <1>2 DEF Send, Commands
<1>3. CASE ReadCtrlOutputPort
  BY <1>0, <1>3 DEF ReadCtrlOutputPort, A20WaitOutput, Read
<1>4. CASE Send("writeCommand", "write", "WriteCtrlOutputPort", data)
  BY <1>0, <1>4 DEF Send, Commands
<1>5. CASE Send("write", "enable", "data", [popped EXCEPT !.a20 = TRUE])
  BY <1>0, <1>5, ByteFacts DEF Send
<1>6. CASE Send("enable", "wait", "EnableKeyboard", data)
  BY <1>0, <1>6 DEF Send, Commands
<1> QED BY <1>1, <1>2, <1>3, <1>4, <1>5, <1>6 DEF EnableA20

LEMMA CallStartKbc == KbcInv /\ CallStart => KbcInv'
<1> SUFFICES ASSUME KbcInv, CallStart PROVE KbcInv'
  OBVIOUS
<1>1. EntryLoaded => EntryLoaded'
  BY EntryLoadedStays DEF CallStart
<1> QED BY <1>1 DEF KbcInv, KbcTypeOK, InStep, PortBytes, EntersReady, Handshake,
                    A20WaitInput, CallStart, kbcVars

LEMMA KeystrokeKbc == KbcInv /\ Keystroke => KbcInv'
<1> SUFFICES ASSUME KbcInv, Keystroke PROVE KbcInv'
  OBVIOUS
<1>1. EntryLoaded => EntryLoaded'
  BY EntryLoadedStays DEF Keystroke
<1>2. output' \in Byte /\ output'.source = "key"
  BY DEF Keystroke, Key, Byte
<1> QED BY <1>1, <1>2 DEF KbcInv, KbcTypeOK, InStep, PortBytes, EntersReady, Keystroke, Key,
                          entryVars

\* The controller takes what was written: only the byte for the port changes
\* the port, and that is written only on the way from "write" to "enable".
LEMMA ControllerKbc == KbcInv /\ Controller => KbcInv'
<1> SUFFICES ASSUME KbcInv, Controller PROVE KbcInv'
  OBVIOUS
<1>0. UNCHANGED stage1Vars /\ (EntryLoaded => EntryLoaded') /\ popped' = popped /\ data' = data
  BY EntryLoadedStays DEF Controller, Execute
<1>1. input # "none" /\ input' = "none" /\ at \notin {"off", "disable", "start"}
  BY DEF KbcInv, InStep, Controller, Execute
<1>2. CASE input = "data" /\ expecting
  <2>1. /\ port' = [data EXCEPT !.source = "port"] /\ data \in Byte
        /\ output' = output /\ keyboard' = keyboard /\ expecting' = FALSE
    BY <1>2 DEF KbcInv, KbcTypeOK, Controller, Execute
  <2>2. port' \in Byte /\ port'.source = "port" /\ port'.bit0 = data.bit0 /\ port'.a20 = data.a20
    BY <2>1, ByteFacts
  <2>3. at \in {"enable", "reset"}
    BY <1>1, <1>2 DEF KbcInv, InStep, Handshake
  <2>4. at' = IF port'.bit0 THEN at ELSE "reset"
    BY DEF Controller
  <2>5. at = "enable" => data.a20 /\ data.bit0 = popped.bit0
    BY <1>2 DEF KbcInv, InStep, PortBytes
  <2>6. popped \in Byte /\ popped.source \in {"key", "port"}
    BY ByteFacts DEF KbcInv
  <2>7. KbcTypeOK'
    BY <1>0, <1>1, <2>1, <2>2 DEF KbcInv, KbcTypeOK
  <2>8. InStep'
    BY <1>0, <1>1, <2>1, <2>2, <2>3, <2>4, <2>5 DEF KbcInv, InStep
  <2>9. PortBytes'
    BY <1>0, <1>1, <2>1, <2>2, <2>3, <2>4 DEF KbcInv, PortBytes
  <2>10. EntersReady'
    BY <1>0, <1>1, <2>2, <2>3, <2>4, <2>5, <2>6 DEF KbcInv, PortBytes, EntersReady
  <2> QED BY <1>0, <2>3, <2>4, <2>7, <2>8, <2>9, <2>10 DEF KbcInv, Handshake
<1>3. CASE ~(input = "data" /\ expecting)
  <2>1. port' = port /\ at' = at
    BY <1>3 DEF KbcInv, PortBytes, Controller, Execute
  <2>2. output' = output \/ output' = port
    BY DEF Controller, Execute
  <2>3. KbcTypeOK'
    BY <1>0, <1>1, <2>1, <2>2 DEF KbcInv, KbcTypeOK, Controller, Execute
  <2>4. InStep'
    <3>1. /\ input = "EnableKeyboard" => keyboard'
          /\ input = "ReadCtrlOutputPort" => output' # NONE
          /\ expecting' = (input = "WriteCtrlOutputPort")
      BY NoneAssumption DEF KbcInv, KbcTypeOK, Controller, Execute
    <3>2. at = "enable" => ~(input = "data")
      BY <1>3 DEF KbcInv, InStep
    <3> QED BY <1>0, <1>1, <2>1, <3>1, <3>2 DEF KbcInv, InStep
  <2>5. PortBytes'
    BY <1>0, <1>1, <2>1, <2>2 DEF KbcInv, PortBytes
  <2>6. EntersReady'
    BY <1>0, <1>1, <2>1 DEF KbcInv, EntersReady
  <2> QED BY <1>0, <2>1, <2>3, <2>4, <2>5, <2>6 DEF KbcInv
<1> QED BY <1>2, <1>3

LEMMA RebootKbc == KbcInv /\ Reboot => KbcInv'
<1> SUFFICES ASSUME KbcInv, Reboot PROVE KbcInv'
  OBVIOUS
<1>1. port \in Byte /\ port.source = "port"
  BY DEF KbcInv, KbcTypeOK, PortBytes
<1>2. port' \in Byte /\ port'.source = "port" /\ port'.bit0
  BY <1>1, ByteFacts DEF Reboot
<1> QED BY <1>2 DEF KbcInv, KbcTypeOK, InStep, PortBytes, EntersReady, Reboot

LEMMA KbcUnchanged == KbcInv /\ UNCHANGED vars => KbcInv'
<1> SUFFICES ASSUME KbcInv, UNCHANGED vars PROVE KbcInv'
  OBVIOUS
<1>1. EntryLoaded' <=> EntryLoaded
  BY EntryLoadedStays DEF vars
<1> QED BY <1>1 DEF KbcInv, KbcTypeOK, InStep, PortBytes, EntersReady, vars, kbcVars, entryVars

LEMMA BootStepInv == Stage1Inv /\ KbcInv /\ [Next]_vars => (Stage1Inv /\ KbcInv)'
<1> SUFFICES ASSUME Stage1Inv, KbcInv, [Next]_vars PROVE Stage1Inv' /\ KbcInv'
  OBVIOUS
<1>1. CASE Stage1Step
  BY <1>1, LoadingInv, Stage1StepKbc DEF Stage1Step
<1>2. CASE EntryStep
  <2>1. UNCHANGED stage1Vars
    BY <1>2 DEF EntryStep, Entry, EnableA20, Send, ReadCtrlOutputPort, CallStart
  <2> QED BY <1>2, <2>1, Stage1Unchanged, EntryKbc, EnableA20Kbc, CallStartKbc DEF EntryStep
<1>3. CASE Controller
  BY <1>3, Stage1Unchanged, ControllerKbc DEF Controller
<1>4. CASE Keystroke
  BY <1>4, Stage1Unchanged, KeystrokeKbc DEF Keystroke
<1>5. CASE Reboot
  BY <1>5, RestartInv, RebootKbc DEF Reboot, WaitKeyAndReboot
<1>6. CASE Stopped \/ UNCHANGED vars
  <2>1. UNCHANGED vars
    BY <1>6 DEF Stopped
  <2> QED BY <2>1, Stage1Unchanged, KbcUnchanged DEF vars
<1> QED BY <1>1, <1>2, <1>3, <1>4, <1>5, <1>6 DEF Next

\* The way to start() as a whole: types, how far stage 1 has filled memory, and
\* how far processor and keyboard controller are.
THEOREM BootInvariant == Spec => []BootInv
<1>1. Init => Stage1Inv /\ KbcInv
  BY BootInitInv
<1>2. (Stage1Inv /\ KbcInv) /\ [Next]_vars => (Stage1Inv /\ KbcInv)'
  BY BootStepInv
<1>3. Stage1Inv /\ KbcInv => BootInv
  BY InvParts
<1> QED BY <1>1, <1>2, <1>3, PTL DEF Spec

\* Stage 1 jumps only into a second stage that is whole and in place (or after
\* a retry with a lowered count), for every table that describes it.
THEOREM Stage2Loaded == Spec => []WholeStage2
<1>1. BootInv => WholeStage2
  <2> SUFFICES ASSUME BootInv, pc = "stage2", Describes(image), ~shrunk
               PROVE  Loaded(Len(image.stage2))
    BY DEF WholeStage2
  <2>1. Loaded(image.first[entry]) /\ entry = Len(image.table) + 1
    BY DEF BootInv, Progress
  <2>2. image.first[Len(image.table) + 1] = Len(image.stage2)
    BY DEF Describes
  <2> QED BY <2>1, <2>2
<1> QED BY <1>1, BootInvariant, PTL

\* start() finds the A20 gate open and the keyboard on, whatever keys came.
THEOREM StartEnteredReady == Spec => []EntersReady
<1>1. Init => Stage1Inv /\ KbcInv
  BY BootInitInv
<1>2. (Stage1Inv /\ KbcInv) /\ [Next]_vars => (Stage1Inv /\ KbcInv)'
  BY BootStepInv
<1>3. Stage1Inv /\ KbcInv => EntersReady
  BY DEF KbcInv
<1> QED BY <1>1, <1>2, <1>3, PTL DEF Spec

-----------------------------------------------------------------------------
(* The image scripts.                                                      *)

\* The table the scripts write describes the second stage exactly if its size
\* has two hexadecimal digits (and memory has room for it): the premise of
\* Stage2Loaded, in terms of what the build produces.
THEOREM ScriptTableDescribes ==
  ASSUME NEW n \in 1 .. 4095
  PROVE  Describes(ScriptImage(n)) <=> n \in 16 .. 255 /\ n <= LastSlot + 1
<1> DEFINE c == CountByte(n)
           im == ScriptImage(n)
<1>1. c \in Nat /\ (c = n <=> n \in 16 .. 255)
  <2>1. CASE n < 16
    <3>1. c = 0
      BY <2>1 DEF CountByte
    <3> HIDE DEF c
    <3>2. c \in Nat /\ c # n
      BY <3>1
    <3>3. n \notin 16 .. 255
      BY <2>1
    <3> QED BY <3>2, <3>3
  <2>2. CASE n >= 16 /\ n < 256
    <3>1. c = n
      BY <2>2 DEF CountByte
    <3> HIDE DEF c
    <3> QED BY <2>2, <3>1
  <2>3. CASE n >= 256
    <3>1. c = n \div 16
      BY <2>3 DEF CountByte
    <3>2. n \div 16 \in Nat /\ n \div 16 < n
      BY <2>3, SMTT(30)
    <3> HIDE DEF c
    <3> QED BY <2>3, <3>1, <3>2
  <2> QED BY <2>1, <2>2, <2>3
<1> HIDE DEF c
<1>2. /\ Len(im.table) = 1 /\ im.table[1] = [lba |-> 1, count |-> c]
      /\ im.first[1] = 0 /\ im.first[2] = c
      /\ Len(im.stage2) = n /\ \A i \in 1 .. n : im.stage2[i] = i
  BY DEF ScriptImage, c
<1> HIDE DEF im
<1>3. ASSUME Describes(im) PROVE c = n /\ n <= LastSlot + 1
  BY <1>2, <1>3 DEF Describes
<1>4. ASSUME c = n, n <= LastSlot + 1 PROVE Describes(im)
  <2>1. \A j \in 0 .. n - 1 : im.stage2[0 + j + 1] = 1 + j
    BY <1>2
  <2> QED BY <1>2, <1>4, <2>1 DEF Describes
<1> QED BY <1>1, <1>3, <1>4 DEF im
=============================================================================
