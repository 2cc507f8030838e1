------------------------------ MODULE DiskProofs ------------------------------
(***************************************************************************)
(* Proofs about Disk, for every set of drives, every geometry the BIOS can *)
(* report and every request within the boot drive.                         *)
(***************************************************************************)
EXTENDS Disk, TLAPS

-----------------------------------------------------------------------------
(* Numbers.                                                                *)

\* n below l * s has a quotient below l, and so has the last n of each block.
LEMMA DivBound ==
  ASSUME NEW s \in Nat \ {0}, NEW l \in Nat, NEW n \in Nat
  PROVE  n < l * s <=> n \div s < l
<1> DEFINE Q == n \div s
           R == n % s
<1>1. Q \in Nat /\ R \in 0 .. s - 1 /\ n = s * Q + R
  OBVIOUS
<1> HIDE DEF Q, R
<1>2. ASSUME Q < l PROVE n < l * s
  <2>1. s * (Q + 1) <= s * l
    BY <1>1, <1>2
  <2> QED BY <2>1, <1>1
<1>3. ASSUME Q >= l PROVE n >= l * s
  <2>1. s * l <= s * Q
    BY <1>1, <1>3
  <2> QED BY <2>1, <1>1
<1>4. l * s \in Int
  OBVIOUS
<1> QED BY <1>1, <1>2, <1>3, <1>4 DEF Q

\* Taking apart and putting together again.
LEMMA DivMod ==
  ASSUME NEW s \in Nat \ {0}, NEW n \in Nat
  PROVE  /\ n \div s \in Nat /\ n % s \in 0 .. s - 1
         /\ n = (n \div s) * s + (n % s)
OBVIOUS

\* The fields of cl are told apart again.
LEMMA FieldsOfCl ==
  ASSUME NEW b \in 0 .. 3, NEW z \in 0 .. 63
  PROVE  (64 * b + z) \div 64 = b /\ (64 * b + z) % 64 = z
BY SMTT(30)

\* A cylinder number is told from its low byte and two high bits.
LEMMA BytesOfCylinder ==
  ASSUME NEW x \in 0 .. 1023
  PROVE  /\ x \div 256 \in 0 .. 3 /\ x % 256 \in 0 .. 255
         /\ x = 256 * (x \div 256) + (x % 256)
<1>1. x = 256 * (x \div 256) + (x % 256)
  BY SMTT(30)
<1>2. x % 256 \in 0 .. 255
  BY SMTT(30)
<1>3. x \div 256 \in 0 .. 3
  BY SMTT(30)
<1> QED BY <1>1, <1>2, <1>3

LEMMA GeometryFacts ==
  ASSUME NEW g \in GeometryRecord
  PROVE  g.cylinders \in 1 .. 1024 /\ g.heads \in 1 .. 256 /\ g.sectors \in 1 .. 63
BY DEF GeometryRecord

LEMMA GeometryNumbers ==
  ASSUME NEW g \in GeometryRecord
  PROVE  g.cylinders \in Nat /\ g.heads \in Nat /\ g.sectors \in Nat
<1> DEFINE C == g.cylinders
           H == g.heads
           S == g.sectors
<1>1. C \in 1 .. 1024 /\ H \in 1 .. 256 /\ S \in 1 .. 63
  BY GeometryFacts
<1> HIDE DEF C, H, S
<1>2. C \in Nat /\ H \in Nat /\ S \in Nat
  BY <1>1
<1> QED BY <1>2 DEF C, H, S

\* The geometry survives the registers of int 13h/08h.
LEMMA ParametersRoundTrip ==
  ASSUME NEW g \in GeometryRecord
  PROVE  LET d == DecodedParameters(BiosParameters(g)) IN
         /\ d.cylinders = g.cylinders
         /\ d.heads = g.heads
         /\ d.sectors = g.sectors
<1> DEFINE C == g.cylinders
           S == g.sectors
           H == g.heads
           q == (C - 1) \div 256
           r == (C - 1) % 256
<1>1. C \in 1 .. 1024 /\ S \in 1 .. 63 /\ H \in 1 .. 256
  BY GeometryFacts
<1>2. BiosParameters(g) = [ch |-> r, cl |-> 64 * q + S, dh |-> H - 1]
  BY DEF BiosParameters
<1>3. DecodedParameters(BiosParameters(g)) =
        [cylinders |-> r + 256 * ((64 * q + S) \div 64) + 1,
         heads |-> (H - 1) + 1, sectors |-> (64 * q + S) % 64]
  BY <1>2 DEF DecodedParameters
<1> HIDE DEF C, S, H
<1>4. q \in 0 .. 3 /\ r \in 0 .. 255 /\ C = 256 * q + r + 1
  <2> DEFINE x == C - 1
  <2>1. x \in 0 .. 1023 /\ C = x + 1
    BY <1>1
  <2> HIDE DEF x
  <2>2. /\ x \div 256 \in 0 .. 3 /\ x % 256 \in 0 .. 255
        /\ x = 256 * (x \div 256) + (x % 256)
    BY <2>1, BytesOfCylinder
  <2>3. q \in 0 .. 3 /\ r \in 0 .. 255 /\ x = 256 * q + r
    BY <2>2 DEF x
  <2> QED BY <2>1, <2>3, SMTT(30)
<1>5. (64 * q + S) \div 64 = q /\ (64 * q + S) % 64 = S
  <2> HIDE DEF q
  <2> QED BY <1>1, <1>4, FieldsOfCl
<1> HIDE DEF q, r
<1>6. r + 256 * q + 1 = C /\ (H - 1) + 1 = H
  BY <1>1, <1>4
<1> QED BY <1>3, <1>5, <1>6 DEF C, S, H

\* An LBA within the drive, divided into cylinder, head and sector and packed
\* into registers, addresses that very sector.
THEOREM AddressesRequestedSector ==
  ASSUME NEW g \in GeometryRecord, NEW lba \in Nat, lba < Capacity(g)
  PROVE  AddressedLba(g, Packed(DISK_LBA2CHS(g, lba))) = lba
<1> DEFINE S == g.sectors
           H == g.heads
           C == g.cylinders
           t == lba \div S
           s == lba % S
           c == t \div H
           h == t % H
<1>1. S \in Nat \ {0} /\ S \in 1 .. 63 /\ H \in Nat \ {0} /\ H \in 1 .. 256 /\ C \in 1 .. 1024
  <2>1. g.cylinders \in 1 .. 1024 /\ g.heads \in 1 .. 256 /\ g.sectors \in 1 .. 63
    BY GeometryFacts
  <2> QED BY <2>1
<1>2. t \in Nat /\ s \in 0 .. S - 1 /\ lba = t * S + s
  <2> HIDE DEF S
  <2> QED BY <1>1, DivMod
<1>3. c \in Nat /\ h \in 0 .. H - 1 /\ t = c * H + h
  <2> HIDE DEF H, t
  <2> QED BY <1>1, <1>2, DivMod
<1>4. c < C
  <2>1. lba < (C * H) * S /\ C * H \in Nat
    <3>1. Capacity(g) = (C * H) * S
      BY DEF Capacity
    <3>2. lba < (C * H) * S
      BY <3>1
    <3>3. C * H \in Nat
      <4> HIDE DEF C, H
      <4> QED BY <1>1
    <3> QED BY <3>2, <3>3
  <2>2. t < C * H
    <3> DEFINE l == C * H
    <3> HIDE DEF l, S
    <3> QED BY <2>1, <1>1, DivBound DEF l
  <2> QED
    <3> HIDE DEF H, C, t
    <3> QED BY <2>2, <1>1, <1>2, DivBound
<1>5. DISK_LBA2CHS(g, lba) = [sector |-> s + 1, cylinder |-> c, head |-> h]
  <2>1. c % 65536 = c
    <3> HIDE DEF c, C
    <3> QED BY <1>1, <1>3, <1>4, SMTT(30)
  <2> QED BY <2>1 DEF DISK_LBA2CHS
<1>6. c \in 0 .. 1023 /\ h \in 0 .. 255 /\ s + 1 \in 1 .. 63
  <2> HIDE DEF c, h, s, S, H, C
  <2> QED BY <1>1, <1>2, <1>3, <1>4
<1> DEFINE z == s + 1
           cl == ((64 * (c \div 256)) % 256) + (z % 64)
<1>7. (c % 256) + 256 * (cl \div 64) = c /\ cl % 64 = z
  <2>1. c \in 0 .. 1023 /\ z \in 1 .. 63
    BY <1>6
  <2> DEFINE b == c \div 256
  <2>2. cl = ((64 * b) % 256) + (z % 64)
    OBVIOUS
  <2> HIDE DEF c, z, cl
  <2>3. b \in 0 .. 3 /\ (64 * b) % 256 = 64 * b
    BY <2>1, SMTT(30)
  <2>4. cl = 64 * b + z
    <3> HIDE DEF b
    <3> QED BY <2>1, <2>2, <2>3
  <2>5. cl \div 64 = b /\ cl % 64 = z
    <3> HIDE DEF b
    <3> QED BY <2>1, <2>3, <2>4, FieldsOfCl
  <2> QED BY <2>1, <2>5
<1>8. h % 256 = h
  <2> HIDE DEF h
  <2> QED BY <1>6
<1>9. Packed(DISK_LBA2CHS(g, lba)) = [ch |-> c % 256, cl |-> cl, dh |-> h]
  BY <1>5, <1>8 DEF Packed
<1>10. AddressedLba(g, Packed(DISK_LBA2CHS(g, lba))) = (c * H + h) * S + z - 1
  <2> HIDE DEF c, h, z, cl
  <2> QED BY <1>7, <1>9 DEF AddressedLba
<1> HIDE DEF c, h, s, t, S, H, C, cl
<1> QED BY <1>1, <1>2, <1>3, <1>10 DEF z

-----------------------------------------------------------------------------
(* The driver.                                                             *)

LEMMA DiskInitInv == Init => DiskInv
<1> SUFFICES ASSUME Init PROVE DiskInv
  OBVIOUS
<1>1. PICK id \in StaleIds :
        disk = [id |-> id, cylinders |-> 0, heads |-> 0, sectors |-> 0]
  BY DEF Init
<1>2. disk \in DiskRecord /\ disk.id \in StaleIds
  BY <1>1, DiskAssumption DEF DiskRecord
<1>3. /\ phase = "off" /\ call = "none" /\ cpu = "pm32" /\ data = NOTHING
      /\ served = FALSE /\ iflag = FALSE /\ ok = FALSE
      /\ eax = 0 /\ asked \in Requests /\ tries = 0 /\ failures = 0
  BY DEF Init
<1>4. DiskTypeOK
  <2>1. /\ phase \in {"off", "idle", "busy", "dead"}
        /\ call \in {"none", "params", "read", "reset"}
        /\ cpu \in {"pm32", "pm16", "real"}
    BY <1>3
  <2>2. served \in BOOLEAN /\ iflag \in BOOLEAN /\ ok \in BOOLEAN
    BY <1>3
  <2>3. eax \in {0, 1} /\ tries \in 0 .. 3 /\ failures \in 0 .. 3
    BY <1>3
  <2> QED BY <1>2, <1>3, <2>1, <2>2, <2>3 DEF DiskTypeOK
<1>5. ModeInStep /\ TriesInStep
  BY <1>3 DEF ModeInStep, TriesInStep
<1>6. CallInStep
  BY <1>2, <1>3 DEF CallInStep
<1> QED BY <1>4, <1>5, <1>6 DEF DiskInv

\* What DISK_Initialize stores is the geometry of the drive it asked about.
LEMMA InitializedGeometry ==
  ASSUME DiskInv, Initialized, eax = 1
  PROVE  /\ disk' \in DiskRecord /\ disk'.id = BootDrive
         /\ disk.id \in Drives
         /\ GeometryOf(disk') = GeometryOf(Geometry[disk.id])
<1> DEFINE g == Geometry[disk.id]
           d == DecodedParameters(BiosParameters(g))
<1>1. disk.id \in Drives /\ g \in GeometryRecord
  <2>1. call = "params" /\ served
    BY DEF Initialized
  <2>2. disk.id \in Drives
    BY <2>1 DEF DiskInv, CallInStep
  <2> QED BY <2>2, DiskAssumption
<1>2. d.cylinders = g.cylinders /\ d.heads = g.heads /\ d.sectors = g.sectors
  BY <1>1, ParametersRoundTrip
<1>3. g.cylinders \in Nat /\ g.heads \in Nat /\ g.sectors \in Nat
  BY <1>1, GeometryNumbers
<1>4. disk' = [id |-> BootDrive, cylinders |-> d.cylinders,
               heads |-> d.heads, sectors |-> d.sectors]
  BY DEF Initialized
<1> HIDE DEF d, g
<1>5. disk' \in DiskRecord /\ disk'.id = BootDrive
  BY <1>2, <1>3, <1>4, DiskAssumption DEF DiskRecord
<1>6. GeometryOf(disk') = GeometryOf(g)
  BY <1>2, <1>4 DEF GeometryOf
<1> QED BY <1>1, <1>5, <1>6 DEF g

LEMMA DiskStepInv == DiskInv /\ [Next]_vars => DiskInv'
<1> SUFFICES ASSUME DiskInv, [Next]_vars PROVE DiskInv'
  OBVIOUS
<1>0. DiskTypeOK /\ ModeInStep /\ CallInStep /\ TriesInStep
  BY DEF DiskInv
<1> USE DEF callVars, modeVars, readVars
<1>1. CASE DISK_Initialize
  BY <1>0, <1>1 DEF DISK_Initialize, DiskInv, DiskTypeOK, ModeInStep, CallInStep, TriesInStep
<1>2. CASE JumpTo16 \/ JumpToReal \/ EnableInterrupts \/ DisableInterrupts \/ JumpToProtected
  <2>1. UNCHANGED <<disk, phase, call, served, eax, asked, tries, data, ok, failures>>
    BY <1>2 DEF JumpTo16, JumpToReal, EnableInterrupts, DisableInterrupts, JumpToProtected
  <2>2. CallInStep' /\ TriesInStep'
    BY <1>0, <2>1 DEF CallInStep, TriesInStep
  <2>3. cpu' \in {"pm32", "pm16", "real"} /\ iflag' \in BOOLEAN /\ ModeInStep'
    <3>1. CASE JumpTo16
      BY <1>0, <3>1 DEF JumpTo16, ModeInStep, DiskTypeOK
    <3>2. CASE JumpToReal
      BY <1>0, <3>2 DEF JumpToReal, ModeInStep, DiskTypeOK
    <3>3. CASE EnableInterrupts
      BY <1>0, <3>3 DEF EnableInterrupts, ModeInStep, DiskTypeOK
    <3>4. CASE DisableInterrupts
      BY <1>0, <3>4 DEF DisableInterrupts, ModeInStep, DiskTypeOK
    <3>5. CASE JumpToProtected
      BY <1>0, <3>5 DEF JumpToProtected, ModeInStep, DiskTypeOK
    <3> QED BY <1>2, <3>1, <3>2, <3>3, <3>4, <3>5
  <2>4. DiskTypeOK'
    BY <1>0, <2>1, <2>3 DEF DiskTypeOK
  <2> QED BY <2>2, <2>3, <2>4 DEF DiskInv
<1>3. CASE GetDriveParams
  BY <1>0, <1>3 DEF GetDriveParams, InBios,
                    DiskInv, DiskTypeOK, ModeInStep, CallInStep, TriesInStep
<1>4. CASE Read
  <2>1. /\ call = "read" /\ served = FALSE /\ cpu = "real" /\ served' = TRUE
        /\ UNCHANGED <<disk, phase, call, cpu, iflag, asked, tries, ok>>
    BY <1>0, <1>4 DEF Read, InBios, DiskTypeOK
  <2>2. phase = "busy" /\ failures = tries /\ tries < 3
    BY <1>0, <2>1 DEF CallInStep, TriesInStep
  <2>3. (eax' = 1 /\ failures' = failures) \/ (eax' = 0 /\ failures' = failures + 1)
    BY <1>4 DEF Read
  <2>4. DiskTypeOK'
    BY <1>0, <2>1, <2>2, <2>3 DEF DiskTypeOK
  <2>5. ModeInStep' /\ CallInStep'
    BY <1>0, <2>1, <2>2 DEF ModeInStep, CallInStep
  <2>6. TriesInStep'
    BY <2>1, <2>2, <2>3 DEF TriesInStep
  <2> QED BY <2>4, <2>5, <2>6 DEF DiskInv
<1>5. CASE Reset
  BY <1>0, <1>5 DEF Reset, InBios,
                    DiskInv, DiskTypeOK, ModeInStep, CallInStep, TriesInStep
<1>6. CASE Initialized
  <2>1. /\ call = "params" /\ call' = "none" /\ served' = FALSE /\ served = TRUE
        /\ cpu = "pm32" /\ iflag = FALSE
        /\ UNCHANGED <<eax, cpu, iflag, asked, tries, data, ok, failures>>
    BY <1>0, <1>6 DEF Initialized, DiskTypeOK, ModeInStep
  <2>2. /\ disk' \in DiskRecord /\ phase' \in {"dead", "idle"}
        /\ phase' = "idle" => disk'.id = BootDrive
    <3>1. CASE eax = 0
      BY <1>0, <1>6, <3>1 DEF Initialized, DiskTypeOK
    <3>2. CASE eax = 1
      BY <1>6, <3>2, InitializedGeometry DEF Initialized
    <3> QED BY <1>0, <3>1, <3>2 DEF DiskTypeOK
  <2>3. DiskTypeOK'
    BY <1>0, <2>1, <2>2 DEF DiskTypeOK
  <2>4. ModeInStep' /\ CallInStep' /\ TriesInStep'
    BY <2>1, <2>2 DEF ModeInStep, CallInStep, TriesInStep
  <2> QED BY <2>3, <2>4 DEF DiskInv
<1>7. CASE \E r \in Requests : DISK_ReadSectors(r)
  <2>1. /\ phase = "idle" /\ phase' = "busy" /\ call' = "read" /\ asked' \in Requests
        /\ tries' = 0 /\ ok' = FALSE /\ failures' = 0
        /\ UNCHANGED <<disk, served, eax, cpu, iflag, data>>
    BY <1>7 DEF DISK_ReadSectors
  <2>2. call = "none" /\ served = FALSE /\ iflag = FALSE /\ cpu = "pm32" /\ disk.id = BootDrive
    BY <1>0, <2>1 DEF DiskTypeOK, ModeInStep, CallInStep
  <2>3. DiskTypeOK'
    <3>1. tries' \in 0 .. 3 /\ failures' \in 0 .. 3
      BY <2>1
    <3>2. ok' \in BOOLEAN
      BY <2>1
    <3>3. phase' \in {"off", "idle", "busy", "dead"} /\ call' \in {"none", "params", "read", "reset"}
      BY <2>1
    <3> QED BY <1>0, <2>1, <3>1, <3>2, <3>3 DEF DiskTypeOK
  <2>4. ModeInStep' /\ CallInStep'
    BY <2>1, <2>2 DEF ModeInStep, CallInStep
  <2>5. TriesInStep'
    BY <2>1, <2>2 DEF TriesInStep
  <2> QED BY <2>3, <2>4, <2>5 DEF DiskInv
<1>8. CASE ReadReturns
  <2>1. /\ call = "read" /\ served = TRUE /\ cpu = "pm32" /\ served' = FALSE
        /\ UNCHANGED <<disk, eax, cpu, iflag, asked, tries, data, failures>>
    BY <1>0, <1>8 DEF ReadReturns, DiskTypeOK
  <2>2. phase = "busy" /\ iflag = FALSE /\ disk.id = BootDrive
    BY <1>0, <2>1 DEF ModeInStep, CallInStep, DiskTypeOK
  <2>3. \/ eax = 1 /\ ok' = TRUE /\ phase' = "idle" /\ call' = "none"
        \/ eax = 0 /\ ok' = ok /\ phase' = "busy" /\ call' = "reset"
    BY <1>8, <2>2 DEF ReadReturns
  <2>4. DiskTypeOK'
    BY <1>0, <2>1, <2>3 DEF DiskTypeOK
  <2>5. ModeInStep' /\ CallInStep'
    BY <2>1, <2>2, <2>3 DEF ModeInStep, CallInStep
  <2>6. TriesInStep'
    BY <1>0, <2>1, <2>2, <2>3 DEF TriesInStep
  <2> QED BY <2>4, <2>5, <2>6 DEF DiskInv
<1>9. CASE ResetReturns
  <2>1. /\ call = "reset" /\ served = TRUE /\ cpu = "pm32" /\ served' = FALSE
        /\ tries' = tries + 1
        /\ UNCHANGED <<disk, eax, cpu, iflag, asked, data, ok, failures>>
    BY <1>0, <1>9 DEF ResetReturns, DiskTypeOK
  <2>2. phase = "busy" /\ iflag = FALSE /\ disk.id = BootDrive
    BY <1>0, <2>1 DEF ModeInStep, CallInStep, DiskTypeOK
  <2>3. failures = tries + 1 /\ tries < 3
    BY <1>0, <2>1, <2>2 DEF TriesInStep
  <2>4. \/ tries + 1 < 3 /\ call' = "read" /\ phase' = "busy"
        \/ ~(tries + 1 < 3) /\ call' = "none" /\ phase' = "idle"
    BY <1>9, <2>2 DEF ResetReturns
  <2>5. DiskTypeOK'
    BY <1>0, <2>1, <2>3, <2>4 DEF DiskTypeOK
  <2>6. ModeInStep' /\ CallInStep'
    BY <2>1, <2>2, <2>4 DEF ModeInStep, CallInStep
  <2>7. TriesInStep'
    BY <2>1, <2>3, <2>4 DEF TriesInStep
  <2> QED BY <2>5, <2>6, <2>7 DEF DiskInv
<1>10. CASE UNCHANGED vars
  BY <1>0, <1>10 DEF vars, DiskInv, DiskTypeOK, ModeInStep, CallInStep, TriesInStep
<1> QED BY <1>1, <1>2, <1>3, <1>4, <1>5, <1>6, <1>7, <1>8, <1>9, <1>10
        DEF Next, Working, Stopped

\* The processor, the BIOS call and the retry loop are always in step.
THEOREM DiskInvariant == Spec => []DiskInv
BY DiskInitInv, DiskStepInv, PTL DEF Spec

\* FALSE means three failed transfers.
THEOREM RetriesUsedUp == Spec => []TransientFaultsAbsorbed
<1>1. Init => TransientFaultsAbsorbed
  BY DEF Init, TransientFaultsAbsorbed
<1>2. DiskInv /\ TransientFaultsAbsorbed /\ [Next]_vars => TransientFaultsAbsorbed'
  <2> SUFFICES ASSUME DiskInv, TransientFaultsAbsorbed, [Next]_vars,
                      phase' = "idle" /\ ~ok' /\ data' # NOTHING
               PROVE  failures' = 3
    BY DEF TransientFaultsAbsorbed
  <2> USE DEF TransientFaultsAbsorbed, DiskInv, DiskTypeOK, CallInStep, TriesInStep, callVars, modeVars, readVars
  <2>1. CASE DISK_Initialize \/ JumpTo16 \/ JumpToReal \/ EnableInterrupts
             \/ DisableInterrupts \/ JumpToProtected
    BY <2>1 DEF DISK_Initialize, JumpTo16, JumpToReal, EnableInterrupts, DisableInterrupts,
                JumpToProtected
  <2>2. CASE GetDriveParams \/ Read \/ Reset
    BY <2>2 DEF GetDriveParams, Read, Reset
  <2>3. CASE Initialized \/ (\E r \in Requests : DISK_ReadSectors(r)) \/ ReadReturns
    BY <2>3 DEF Initialized, DISK_ReadSectors, ReadReturns
  <2>4. CASE ResetReturns
    BY <2>4 DEF ResetReturns
  <2>5. CASE UNCHANGED vars
    BY <2>5 DEF vars
  <2> QED BY <2>1, <2>2, <2>3, <2>4, <2>5 DEF Next, Working, Stopped
<1> QED BY <1>1, <1>2, DiskInvariant, PTL DEF Spec

-----------------------------------------------------------------------------
(* The driver implements SectorDevice.                                     *)

\* The geometry in use is one the BIOS reported, of whatever drive.
GeometryReported ==
  phase \in {"idle", "busy"} =>
    \E d \in Drives : GeometryOf(disk) = GeometryOf(Geometry[d])

\* What the buffer may hold when a read of r was answered with success.
Right(r, d) ==
  \/ d = r
  \/ ~GeometryFits /\ r.lba # 0 /\ d \in [lba : Nat, count : {r.count}]

ReadAnswered ==
  /\ call = "read" /\ served /\ eax = 1 => Right(asked, data)
  /\ phase = "busy" => ok = FALSE

ReadInv == DiskInv /\ GeometryReported /\ ReadAnswered

\* Under every geometry the first sector of the disk is sector 1 of cylinder
\* 0, head 0.
LEMMA FirstSectorAddressed ==
  ASSUME NEW d \in DiskRecord, d.heads # 0, d.sectors # 0, NEW g \in GeometryRecord
  PROVE  AddressedLba(g, Packed(DISK_LBA2CHS(d, 0))) = 0
<1> DEFINE H == d.heads
           S == d.sectors
<1>1. H \in Nat \ {0} /\ S \in Nat \ {0}
  BY DEF DiskRecord
<1>2. 0 % S = 0 /\ 0 \div S = 0 /\ 0 % H = 0 /\ 0 \div H = 0
  <2> HIDE DEF H, S
  <2> QED BY <1>1
<1>3. DISK_LBA2CHS(d, 0) = [sector |-> 1, cylinder |-> 0, head |-> 0]
  BY <1>2 DEF DISK_LBA2CHS
<1>4. Packed(DISK_LBA2CHS(d, 0)) = [ch |-> 0, cl |-> 1, dh |-> 0]
  BY <1>3 DEF Packed
<1>5. AddressedLba(g, Packed(DISK_LBA2CHS(d, 0))) = (0 * g.heads + 0) * g.sectors + 1 - 1
  BY <1>4 DEF AddressedLba
<1>6. g.heads \in Nat /\ g.sectors \in Nat
  BY GeometryNumbers
<1> QED BY <1>5, <1>6

\* Whatever geometry the address was computed with, the registers hold natural
\* numbers, and what a drive reads for them, if it has it, is one of its sectors.
LEMMA RegistersAreNumbers ==
  ASSUME NEW d \in DiskRecord, d.heads # 0, d.sectors # 0, NEW n \in Nat,
         NEW g \in GeometryRecord, Addressable(g, Packed(DISK_LBA2CHS(d, n)))
  PROVE  AddressedLba(g, Packed(DISK_LBA2CHS(d, n))) \in Nat
<1> DEFINE H == d.heads
           S == d.sectors
           regs == Packed(DISK_LBA2CHS(d, n))
           c == ((n \div S) \div H) % 65536
           h == (n \div S) % H
           z == (n % S) + 1
           cl == ((64 * (c \div 256)) % 256) + (z % 64)
           q == cl \div 64
           w == cl % 64
           x == c % 256
           y == h % 256
           GH == g.heads
           GS == g.sectors
<1>1. H \in Nat \ {0} /\ S \in Nat \ {0}
  BY DEF DiskRecord
<1>2. c \in Nat /\ h \in Nat /\ z \in Nat
  <2> DEFINE t == n \div S
             u == t \div H
  <2> HIDE DEF H, S
  <2>1. t \in Nat /\ n % S \in Nat
    <3>1. n \div S \in Nat /\ n % S \in 0 .. S - 1
      BY ONLY <1>1, n \in Nat, DivMod
    <3> QED BY <3>1, <1>1
  <2> HIDE DEF t
  <2>2. u \in Nat /\ t % H \in Nat
    <3>1. t \div H \in Nat /\ t % H \in 0 .. H - 1
      BY ONLY <1>1, <2>1, DivMod
    <3> QED BY <3>1, <1>1
  <2> HIDE DEF u
  <2>3. u % 65536 \in Nat
    BY <2>2
  <2> QED BY <2>1, <2>2, <2>3 DEF t, u
<1>3. regs = [ch |-> x, cl |-> cl, dh |-> y]
  BY DEF Packed, DISK_LBA2CHS
<1>4. x \in Nat /\ y \in Nat /\ cl \in Nat
  <2> HIDE DEF c, h, z
  <2> QED BY <1>2
<1>5. q \in Nat /\ w \in Nat
  <2> HIDE DEF cl
  <2> QED BY <1>4
<1>6. w \in 1 .. GS
  BY <1>3 DEF Addressable
<1>7. GH \in Nat /\ GS \in Nat
  BY GeometryNumbers
<1>8. AddressedLba(g, regs) = ((x + 256 * q) * GH + y) * GS + w - 1
  BY <1>3 DEF AddressedLba
<1> HIDE DEF x, y, q, w, GH, GS, regs
<1>9. (x + 256 * q) * GH + y \in Nat
  BY <1>4, <1>5, <1>7
<1>10. ((x + 256 * q) * GH + y) * GS \in Nat
  <2> DEFINE k == (x + 256 * q) * GH + y
  <2> HIDE DEF k
  <2>1. k \in Nat
    BY <1>9 DEF k
  <2>2. k * GS \in Nat
    BY <2>1, <1>7
  <2> QED BY <2>2 DEF k
<1>11. AddressedLba(g, regs) \in Nat
  <2> DEFINE k == ((x + 256 * q) * GH + y) * GS
  <2> HIDE DEF k
  <2>1. k \in Nat /\ AddressedLba(g, regs) = k + w - 1
    BY <1>8, <1>10 DEF k
  <2> QED BY <2>1, <1>5, <1>6, <1>7
<1> QED BY <1>11 DEF regs

\* What a successful transfer puts into the buffer is what was asked for, if
\* the geometry fits or at LBA 0, and sectors of the disk otherwise.
LEMMA TransfersWhatWasAsked ==
  ASSUME ReadInv, Read
  PROVE  /\ phase = "busy" /\ call' = "read" /\ phase' = "busy"
         /\ eax' = 1 => Right(asked, data')
         /\ eax' = 0 => data' \in {data, TORN}
         /\ eax' \in {0, 1}
         /\ UNCHANGED <<disk, asked, ok>>
<1> DEFINE g == Geometry[BootDrive]
           n == asked.lba
           regs == Packed(DISK_LBA2CHS(disk, n))
           lba == AddressedLba(g, regs)
<1>1. /\ call = "read" /\ call' = "read" /\ phase' = phase
      /\ UNCHANGED <<disk, asked, ok>>
  BY DEF Read
<1>2. phase = "busy" /\ disk.id = BootDrive /\ asked \in Requests /\ disk \in DiskRecord
  BY <1>1 DEF ReadInv, DiskInv, CallInStep, DiskTypeOK
<1>3. \/ eax' = 1 /\ Addressable(g, regs) /\ data' = [asked EXCEPT !.lba = lba]
      \/ eax' = 0 /\ data' \in {data, TORN}
  BY <1>2 DEF Read
<1>4. g \in GeometryRecord /\ n \in Nat /\ n < Capacity(g)
  BY <1>2, DiskAssumption
<1>5. asked \in [lba : Nat, count : 1 .. 255]
  BY <1>2, DiskAssumption
<1>6. [asked EXCEPT !.lba = n] = asked
  BY <1>5
<1>7. disk.heads # 0 /\ disk.sectors # 0
  <2>1. PICK d \in Drives : GeometryOf(disk) = GeometryOf(Geometry[d])
    BY <1>2 DEF ReadInv, GeometryReported
  <2>2. disk.heads = Geometry[d].heads /\ disk.sectors = Geometry[d].sectors
    BY <2>1 DEF GeometryOf
  <2>3. Geometry[d].heads \in 1 .. 256 /\ Geometry[d].sectors \in 1 .. 63
    BY DiskAssumption, GeometryFacts
  <2> QED BY <2>2, <2>3
<1>8. ASSUME eax' = 1 PROVE Right(asked, data')
  <2>1. Addressable(g, regs) /\ data' = [asked EXCEPT !.lba = lba]
    BY <1>3, <1>8
  <2>2. CASE GeometryFits
    <3>1. disk.heads = g.heads /\ disk.sectors = g.sectors
      BY <1>2, <2>2 DEF GeometryFits
    <3>2. DISK_LBA2CHS(disk, n) = DISK_LBA2CHS(g, n)
      BY <3>1 DEF DISK_LBA2CHS
    <3>3. AddressedLba(g, Packed(DISK_LBA2CHS(g, n))) = n
      <4> HIDE DEF g, n
      <4> QED BY <1>4, AddressesRequestedSector
    <3>4. lba = n
      BY <3>2, <3>3
    <3> HIDE DEF lba
    <3> QED BY <3>4, <2>1, <1>6 DEF Right
  <2>3. CASE n = 0
    <3>1. AddressedLba(g, Packed(DISK_LBA2CHS(disk, 0))) = 0
      <4> HIDE DEF g
      <4> QED BY <1>2, <1>4, <1>7, FirstSectorAddressed
    <3>2. lba = n
      BY <3>1, <2>3
    <3> HIDE DEF lba
    <3> QED BY <3>2, <2>1, <1>6 DEF Right
  <2>4. CASE ~GeometryFits /\ n # 0
    <3>1. lba \in Nat
      <4> HIDE DEF g, n
      <4> QED BY <1>2, <1>4, <1>7, <2>1, RegistersAreNumbers
    <3> HIDE DEF lba
    <3>2. data' \in [lba : Nat, count : {asked.count}]
      BY <3>1, <2>1, <1>5
    <3> QED BY <3>2, <2>4 DEF Right
  <2> QED BY <2>2, <2>3, <2>4
<1> HIDE DEF lba, regs, n
<1> QED BY <1>1, <1>2, <1>3, <1>8

LEMMA ReadInitInv == Init => ReadInv
BY DiskInitInv DEF Init, ReadInv, GeometryReported, ReadAnswered

LEMMA ReadStepInv == ReadInv /\ [Next]_vars => ReadInv'
<1> SUFFICES ASSUME ReadInv, [Next]_vars PROVE GeometryReported' /\ ReadAnswered'
  BY DiskStepInv DEF ReadInv
<1>0. GeometryReported /\ ReadAnswered /\ DiskTypeOK /\ CallInStep
  BY DEF ReadInv, DiskInv
<1> USE DEF callVars, modeVars, readVars
<1>1. CASE DISK_Initialize \/ GetDriveParams \/ Reset
  BY <1>0, <1>1 DEF DISK_Initialize, GetDriveParams, Reset, GeometryReported, ReadAnswered
<1>2. CASE JumpTo16 \/ JumpToReal \/ EnableInterrupts \/ DisableInterrupts \/ JumpToProtected
  BY <1>0, <1>2 DEF JumpTo16, JumpToReal, EnableInterrupts, DisableInterrupts,
                    JumpToProtected, GeometryReported, ReadAnswered, Right, GeometryFits
<1>3. CASE Read
  <2>1. /\ disk' = disk /\ phase = "busy" /\ phase' = "busy" /\ asked' = asked /\ ok' = ok
        /\ eax' = 1 => Right(asked, data')
    BY <1>3, TransfersWhatWasAsked DEF ReadInv
  <2>2. GeometryFits' = GeometryFits
    BY <2>1 DEF GeometryFits
  <2> QED BY <1>0, <2>1, <2>2 DEF GeometryReported, ReadAnswered, Right
<1>4. CASE Initialized
  <2>1. call' = "none" /\ phase' # "busy"
    BY <1>0, <1>4 DEF Initialized, DiskTypeOK
  <2>2. CASE eax = 0
    <3>1. phase' = "dead"
      BY <1>4, <2>2 DEF Initialized
    <3> QED BY <2>1, <3>1 DEF GeometryReported, ReadAnswered
  <2>3. CASE eax = 1
    <3>1. /\ disk.id \in Drives
          /\ GeometryOf(disk') = GeometryOf(Geometry[disk.id])
      BY <1>4, <2>3, InitializedGeometry DEF ReadInv
    <3>2. GeometryReported'
      BY <3>1 DEF GeometryReported
    <3> QED BY <2>1, <3>2 DEF ReadAnswered
  <2> QED BY <1>0, <2>2, <2>3 DEF DiskTypeOK
<1>5. CASE \E r \in Requests : DISK_ReadSectors(r)
  <2>1. phase = "idle" /\ disk' = disk /\ served' = served /\ ok' = FALSE
    BY <1>5 DEF DISK_ReadSectors
  <2>2. ~served
    BY <2>1 DEF ReadInv, DiskInv, ModeInStep, CallInStep, DiskTypeOK
  <2> QED BY <1>0, <2>1, <2>2 DEF GeometryReported, ReadAnswered
<1>6. CASE ReadReturns \/ ResetReturns
  <2>1. /\ phase = "busy" /\ disk' = disk /\ served' = FALSE
        /\ phase' = "idle" \/ ok' = ok
    BY <1>0, <1>6 DEF ReadReturns, ResetReturns, CallInStep
  <2>2. phase' = "idle" \/ phase' = "busy"
    BY <1>6, <2>1 DEF ReadReturns, ResetReturns
  <2> QED BY <1>0, <2>1, <2>2 DEF GeometryReported, ReadAnswered
<1>7. CASE UNCHANGED vars
  BY <1>0, <1>7 DEF vars, GeometryReported, ReadAnswered, Right, GeometryFits
<1> QED BY <1>1, <1>2, <1>3, <1>4, <1>5, <1>6, <1>7 DEF Next, Working, Stopped

\* Whether the geometry fits is settled when DISK_Initialize returns.
LEMMA GeometryStays ==
  ASSUME DiskInv, [Next]_vars, ~Initialized
  PROVE  GeometryFits' = GeometryFits
<1>0. CallInStep /\ DiskTypeOK
  BY DEF DiskInv
<1> USE DEF callVars, modeVars, readVars
<1>1. CASE DISK_Initialize \/ GetDriveParams \/ Read \/ Reset
  BY <1>1 DEF DISK_Initialize, GetDriveParams, Read, Reset, GeometryFits
<1>2. CASE JumpTo16 \/ JumpToReal \/ EnableInterrupts \/ DisableInterrupts \/ JumpToProtected
  BY <1>2 DEF JumpTo16, JumpToReal, EnableInterrupts, DisableInterrupts, JumpToProtected,
              GeometryFits
<1>3. CASE \E r \in Requests : DISK_ReadSectors(r)
  BY <1>3 DEF DISK_ReadSectors, GeometryFits
<1>4. CASE ReadReturns \/ ResetReturns
  <2>1. phase = "busy" /\ disk' = disk
    BY <1>0, <1>4 DEF ReadReturns, ResetReturns, CallInStep
  <2>2. phase' = "idle" \/ phase' = "busy"
    BY <1>4, <2>1 DEF ReadReturns, ResetReturns
  <2> QED BY <2>1, <2>2 DEF GeometryFits
<1>5. CASE UNCHANGED vars
  BY <1>5 DEF vars, GeometryFits
<1> QED BY <1>1, <1>2, <1>3, <1>4, <1>5 DEF Next, Working, Stopped

\* Every step of the driver is a step of the device or nothing to it.
LEMMA StepImplements ==
  ReadInv /\ [Next]_vars => [Device!DeviceNext]_<<phase, GeometryFits, asked, data, ok>>
<1> SUFFICES ASSUME ReadInv, [Next]_vars
             PROVE  \/ Device!DeviceNext
                    \/ UNCHANGED <<phase, GeometryFits, asked, data, ok>>
  OBVIOUS
<1>0. ReadAnswered /\ DiskTypeOK /\ CallInStep
  BY DEF ReadInv, DiskInv
<1>00. ~Initialized => GeometryFits' = GeometryFits
  BY GeometryStays DEF ReadInv
<1> USE DEF callVars, modeVars, readVars
<1>1. CASE Initialized
  <2>1. phase = "off" /\ phase' \in {"idle", "dead"} /\ UNCHANGED <<asked, data, ok>>
    BY <1>0, <1>1 DEF Initialized, CallInStep
  <2>2. GeometryFits' \in BOOLEAN
    BY DEF GeometryFits
  <2> QED BY <2>1, <2>2 DEF Device!DeviceNext, Device!PowerOn
<1>2. CASE ~Initialized /\ (DISK_Initialize \/ GetDriveParams \/ Reset)
  BY <1>2, <1>00 DEF DISK_Initialize, GetDriveParams, Reset
<1>3. CASE /\ ~Initialized
           /\ JumpTo16 \/ JumpToReal \/ EnableInterrupts \/ DisableInterrupts \/ JumpToProtected
  BY <1>3, <1>00 DEF JumpTo16, JumpToReal, EnableInterrupts, DisableInterrupts, JumpToProtected
<1>4. CASE ~Initialized /\ Read
  <2>1. /\ phase = "busy" /\ phase' = "busy"
        /\ eax' = 1 => Right(asked, data')
        /\ eax' = 0 => data' \in {data, TORN}
        /\ eax' \in {0, 1}
        /\ UNCHANGED <<asked, ok>>
    BY <1>4, TransfersWhatWasAsked
  <2>2. \/ data' \in {asked, TORN}
        \/ data' = data
        \/ ~GeometryFits /\ data' \in Device!Elsewhere
    BY <2>1 DEF Right, Device!Elsewhere
  <2> QED BY <1>4, <1>00, <2>1, <2>2 DEF Device!DeviceNext, Device!Transfer
<1>5. CASE ~Initialized /\ (\E r \in Requests : DISK_ReadSectors(r))
  <2>1. /\ phase = "idle" /\ phase' = "busy" /\ asked' \in Requests /\ ok' = FALSE
        /\ data' = data
    BY <1>5 DEF DISK_ReadSectors
  <2> QED BY <1>5, <1>00, <2>1 DEF Device!DeviceNext, Device!Request
<1>6. CASE ~Initialized /\ ReadReturns
  <2>1. phase = "busy" /\ asked' = asked /\ data' = data /\ GeometryFits' = GeometryFits
    BY <1>0, <1>00, <1>6 DEF ReadReturns, CallInStep
  <2>2. CASE eax = 1
    <3>1. phase' = "idle" /\ ok' = TRUE /\ Right(asked, data)
      BY <1>0, <1>6, <2>2 DEF ReadReturns, ReadAnswered
    <3> QED BY <2>1, <3>1 DEF Device!DeviceNext, Device!Answer, Device!Elsewhere, Right
  <2>3. CASE eax = 0
    BY <1>6, <2>1, <2>3 DEF ReadReturns
  <2> QED BY <1>0, <2>2, <2>3 DEF DiskTypeOK
<1>7. CASE ~Initialized /\ ResetReturns
  <2>1. /\ phase = "busy" /\ asked' = asked /\ data' = data /\ ok' = ok
        /\ GeometryFits' = GeometryFits
    BY <1>0, <1>00, <1>7 DEF ResetReturns, CallInStep
  <2>2. phase' = phase \/ phase' = "idle"
    BY <1>7 DEF ResetReturns
  <2> QED BY <1>0, <2>1, <2>2 DEF ReadAnswered, Device!DeviceNext, Device!Answer
<1>8. CASE UNCHANGED vars
  BY <1>8 DEF vars, GeometryFits
<1> QED BY <1>1, <1>2, <1>3, <1>4, <1>5, <1>6, <1>7, <1>8 DEF Next, Working, Stopped

\* disk.c keeps the promise of disk.h as far as it can: whatever number
\* disk->id held when the geometry was asked for, a positive answer means the
\* buffer holds the sectors asked for, if the geometry is the boot drive's or
\* the request is for the first sector, and never a sector half read.
THEOREM ImplementsSectorDevice == Spec => ImplementsDevice
<1>1. Init => Device!DeviceInit
  BY DEF Init, Device!DeviceInit, GeometryFits
<1>2. Init => ReadInv
  BY ReadInitInv
<1>3. ReadInv /\ [Next]_vars => ReadInv'
  BY ReadStepInv
<1>4. ReadInv /\ [Next]_vars => [Device!DeviceNext]_<<phase, GeometryFits, asked, data, ok>>
  BY StepImplements
<1> QED BY <1>1, <1>2, <1>3, <1>4, PTL
        DEF Spec, ImplementsDevice, Device!DeviceSpec, Device!deviceVars

\* The geometry is the boot drive's if every number disk->id may have held
\* names a drive like it, or none.
THEOREM LikeDrivesFit ==
  ASSUME \A id \in StaleIds \cap Drives :
           GeometryOf(Geometry[id]) = GeometryOf(Geometry[BootDrive])
  PROVE  Spec => []GeometryFits
<1>1. Init => GeometryFits
  BY DEF Init, GeometryFits
<1>2. DiskInv /\ GeometryFits /\ [Next]_vars => GeometryFits'
  <2> SUFFICES ASSUME DiskInv, GeometryFits, [Next]_vars, Initialized PROVE GeometryFits'
    BY GeometryStays
  <2>1. CASE eax = 1
    <3>1. disk.id \in Drives /\ GeometryOf(disk') = GeometryOf(Geometry[disk.id])
      BY <2>1, InitializedGeometry
    <3>2. disk.id \in StaleIds
      BY DEF Initialized, DiskInv, CallInStep
    <3>3. GeometryOf(disk') = GeometryOf(Geometry[BootDrive])
      BY <3>1, <3>2
    <3> QED BY <3>3 DEF GeometryFits, GeometryOf
  <2>2. CASE eax = 0
    BY <2>2 DEF Initialized, GeometryFits
  <2> QED BY <2>1, <2>2 DEF DiskInv, DiskTypeOK
<1> QED BY <1>1, <1>2, DiskInvariant, PTL DEF Spec
=============================================================================
