--------------------------------- MODULE Disk ---------------------------------
(***************************************************************************)
(* The disk driver of the second-stage loader (stage2/disk.c) over the     *)
(* BIOS calls of stage2/x86.asm: the geometry read once, an LBA turned     *)
(* into cylinder, head and sector and packed into registers, three tries   *)
(* with a reset after each failure; and, around every BIOS call, the way   *)
(* from 32-bit protected mode to real mode, where alone interrupts may be  *)
(* enabled, and back.                                                      *)
(***************************************************************************)
EXTENDS Integers

CONSTANTS
  Drives,     \* the BIOS drive numbers
  BootDrive,  \* the one stage 1 booted from
  StaleIds,   \* what disk->id may hold before it is assigned: any byte
  Geometry,   \* drive -> its cylinders, heads and sectors per track
  Requests,   \* [lba, count] the FAT driver may ask for
  NOTHING, TORN

GeometryRecord ==
  [cylinders : 1 .. 1024, heads : 1 .. 256, sectors : 1 .. 63]

Capacity(g) == g.cylinders * g.heads * g.sectors

\* int 13h reaches 1024 cylinders of 256 heads of 63 sectors; the volume is
\* within reach.
ASSUME DiskAssumption ==
  /\ BootDrive \in Drives /\ StaleIds # {}
  /\ Geometry \in [Drives -> GeometryRecord]
  /\ Requests \subseteq [lba : Nat, count : 1 .. 255]
  /\ \A r \in Requests : r.lba < Capacity(Geometry[BootDrive])
  /\ NOTHING # TORN

-----------------------------------------------------------------------------
(* Numbers.                                                                *)

\* What int 13h/08h returns for a drive: the largest cylinder, head, sector.
BiosParameters(g) ==
  [ch |-> (g.cylinders - 1) % 256,
   cl |-> 64 * ((g.cylinders - 1) \div 256) + g.sectors,
   dh |-> g.heads - 1]

\* bx = cl[7:6]:ch + 1, cx = cl[5:0], cx = dh + 1.
DecodedParameters(r) ==
  [cylinders |-> r.ch + 256 * (r.cl \div 64) + 1,
   heads |-> r.dh + 1,
   sectors |-> r.cl % 64]

\* Deviation: sectors counted from zero.
LBA2CHSFromZero(g, lba) ==
  [sector |-> (lba % g.sectors),
   cylinder |-> ((lba \div g.sectors) \div g.heads) % 65536,
   head |-> ((lba \div g.sectors) % g.heads)]

\* The three results are uint16_t.
DISK_LBA2CHS(g, lba) ==
  [sector |-> (lba % g.sectors) + 1,
   cylinder |-> ((lba \div g.sectors) \div g.heads) % 65536,
   head |-> (lba \div g.sectors) % g.heads]

\* Registers of int 13h/02h: the cylinder's low byte in ch, its next two bits
\* on top of the six bits of the sector in cl, the head's low byte in dh.
Packed(chs) ==
  [ch |-> chs.cylinder % 256,
   cl |-> ((64 * (chs.cylinder \div 256)) % 256) + (chs.sector % 64),
   dh |-> chs.head % 256]

\* The sector a drive of geometry g reads for these registers.
AddressedLba(g, r) ==
  ((r.ch + 256 * (r.cl \div 64)) * g.heads + r.dh) * g.sectors + (r.cl % 64) - 1

\* It has one: no drive seeks beyond its cylinders, heads and sectors.
Addressable(g, r) ==
  /\ r.ch + 256 * (r.cl \div 64) < g.cylinders
  /\ r.dh < g.heads
  /\ r.cl % 64 \in 1 .. g.sectors

-----------------------------------------------------------------------------

VARIABLES
  disk,     \* the DISK structure
  phase,    \* "off", "idle", "busy" (in DISK_ReadSectors) or "dead"
  call,     \* the x86_ function in progress, or "none"
  served,   \* has the BIOS answered it?
  cpu,      \* "pm32", "pm16" or "real"
  iflag,     \* the interrupt flag
  eax,      \* the return value of the x86_ function
  asked,    \* the request of the call to DISK_ReadSectors
  tries,    \* i of its loop
  data,     \* the caller's buffer: the request whose sectors it holds
  ok,       \* its return value
  failures  \* ghost: transfers that failed in this call

modeVars == <<cpu, iflag>>
callVars == <<call, served, eax>>
readVars == <<asked, tries, data, ok, failures>>
vars == <<disk, phase, callVars, modeVars, readVars>>

\* disk is a local of start() nobody has written to.
Init ==
  /\ \E id \in StaleIds :
       disk = [id |-> id, cylinders |-> 0, heads |-> 0, sectors |-> 0]
  /\ phase = "off"
  /\ call = "none" /\ served = FALSE /\ eax = 0
  /\ cpu = "pm32" /\ iflag = FALSE
  /\ asked \in Requests /\ tries = 0 /\ data = NOTHING /\ ok = FALSE
  /\ failures = 0

-----------------------------------------------------------------------------
(* x86_EnterRealMode and x86_EnterProtectedMode.                           *)

\* 1 - jump to 16-bit protected mode segment.
JumpTo16 ==
  /\ call # "none" /\ ~served /\ cpu = "pm32"
  /\ cpu' = "pm16"
  /\ UNCHANGED <<disk, phase, callVars, iflag, readVars>>

\* 2, 3 - disable protected mode, jump to real mode.
JumpToReal ==
  /\ ~served /\ cpu = "pm16"
  /\ cpu' = "real"
  /\ UNCHANGED <<disk, phase, callVars, iflag, readVars>>

\* 4, 5 - set up segments, enable interrupts.
EnableInterrupts ==
  /\ ~served /\ cpu = "real" /\ ~iflag
  /\ iflag' = TRUE
  /\ UNCHANGED <<disk, phase, callVars, cpu, readVars>>

DisableInterrupts ==
  /\ served /\ iflag
  /\ iflag' = FALSE
  /\ UNCHANGED <<disk, phase, callVars, cpu, readVars>>

JumpToProtected ==
  /\ served /\ cpu = "real" /\ ~iflag
  /\ cpu' = "pm32"
  /\ UNCHANGED <<disk, phase, callVars, iflag, readVars>>

InBios == ~served /\ cpu = "real" /\ iflag

-----------------------------------------------------------------------------
(* DISK_Initialize.                                                        *)

\* x86_Disk_GetDriveParams is called with disk->id, which is assigned later.
DISK_Initialize ==
  /\ phase = "off" /\ call = "none"
  /\ call' = "params"
  /\ UNCHANGED <<disk, phase, served, eax, modeVars, readVars>>

GetDriveParams ==
  /\ call = "params" /\ InBios
  /\ served' = TRUE
  /\ eax' = 0 \/ (disk.id \in Drives /\ eax' = 1)
  /\ UNCHANGED <<disk, phase, call, modeVars, readVars>>

Initialized ==
  /\ call = "params" /\ served /\ cpu = "pm32"
  /\ call' = "none" /\ served' = FALSE
  /\ \/ /\ eax = 0
        /\ phase' = "dead"
        /\ UNCHANGED disk
     \/ /\ eax = 1
        /\ phase' = "idle"
        /\ LET g == DecodedParameters(BiosParameters(Geometry[disk.id])) IN
           disk' = [id |-> BootDrive, cylinders |-> g.cylinders,
                    heads |-> g.heads, sectors |-> g.sectors]
  /\ UNCHANGED <<eax, modeVars, readVars>>

-----------------------------------------------------------------------------
(* DISK_ReadSectors.                                                       *)

DISK_ReadSectors(r) ==
  /\ phase = "idle"
  /\ phase' = "busy" /\ call' = "read"
  /\ asked' = r /\ tries' = 0 /\ ok' = FALSE /\ failures' = 0
  /\ UNCHANGED <<disk, served, eax, modeVars, data>>

\* int 13h/02h: the sectors the registers address on the drive, or an error,
\* as it always is when the drive has no such sector.
Read ==
  /\ call = "read" /\ InBios
  /\ served' = TRUE
  /\ LET g == Geometry[disk.id]
         regs == Packed(DISK_LBA2CHS(disk, asked.lba)) IN
     \/ /\ Addressable(g, regs)
        /\ eax' = 1 /\ data' = [asked EXCEPT !.lba = AddressedLba(g, regs)]
        /\ UNCHANGED failures
     \/ eax' = 0 /\ data' \in {data, TORN} /\ failures' = failures + 1
  /\ UNCHANGED <<disk, phase, call, modeVars, asked, tries, ok>>

\* Deviation: a success does not end the loop.
ReadReturnsNever ==
  /\ call = "read" /\ served /\ cpu = "pm32"
  /\ served' = FALSE
  /\ call' = IF eax = 0 THEN "reset" ELSE "read"
  /\ UNCHANGED <<disk, phase, eax, modeVars, readVars>>

ReadReturns ==
  /\ call = "read" /\ served /\ cpu = "pm32"
  /\ served' = FALSE
  /\ \/ /\ eax = 1
        /\ ok' = TRUE /\ phase' = "idle" /\ call' = "none"
     \/ /\ eax = 0
        /\ call' = "reset"
        /\ UNCHANGED <<ok, phase>>
  /\ UNCHANGED <<disk, eax, modeVars, asked, tries, data, failures>>

\* int 13h/00h.
Reset ==
  /\ call = "reset" /\ InBios
  /\ served' = TRUE /\ eax' \in {0, 1}
  /\ UNCHANGED <<disk, phase, call, modeVars, readVars>>

\* Deviation: one try less.
ResetReturnsEarly ==
  /\ call = "reset" /\ served /\ cpu = "pm32"
  /\ served' = FALSE /\ tries' = tries + 1
  /\ IF tries + 1 < 2
     THEN call' = "read" /\ UNCHANGED phase
     ELSE call' = "none" /\ phase' = "idle"
  /\ UNCHANGED <<disk, eax, modeVars, asked, data, ok, failures>>

\* Deviation: failures of the read not counted.
ResetReturnsUncounted ==
  /\ call = "reset" /\ served /\ cpu = "pm32"
  /\ served' = FALSE /\ call' = "read"
  /\ UNCHANGED <<disk, phase, eax, modeVars, readVars>>

\* The result of the reset is ignored.
ResetReturns ==
  /\ call = "reset" /\ served /\ cpu = "pm32"
  /\ served' = FALSE /\ tries' = tries + 1
  /\ IF tries + 1 < 3
     THEN call' = "read" /\ UNCHANGED phase
     ELSE call' = "none" /\ phase' = "idle"
  /\ UNCHANGED <<disk, eax, modeVars, asked, data, ok, failures>>

-----------------------------------------------------------------------------

\* DISK_Initialize failed: start() stops.
Stopped == phase = "dead" /\ UNCHANGED vars

Working ==
  \/ DISK_Initialize
  \/ JumpTo16 \/ JumpToReal \/ EnableInterrupts
  \/ GetDriveParams \/ Read \/ Reset
  \/ DisableInterrupts \/ JumpToProtected
  \/ Initialized \/ ReadReturns \/ ResetReturns

Next == Working \/ (\E r \in Requests : DISK_ReadSectors(r)) \/ Stopped

Spec == Init /\ [][Next]_vars

\* The processor executes, and the BIOS answers its calls.
FairSpec == Spec /\ WF_vars(Working)

-----------------------------------------------------------------------------

DiskRecord == [id : Drives \cup StaleIds, cylinders : Nat, heads : Nat, sectors : Nat]

GeometryOf(d) == [cylinders |-> d.cylinders, heads |-> d.heads, sectors |-> d.sectors]

\* Every variable has its type.
DiskTypeOK ==
  /\ disk \in DiskRecord
  /\ phase \in {"off", "idle", "busy", "dead"}
  /\ call \in {"none", "params", "read", "reset"}
  /\ served \in BOOLEAN /\ iflag \in BOOLEAN /\ ok \in BOOLEAN
  /\ cpu \in {"pm32", "pm16", "real"} /\ eax \in {0, 1}
  /\ asked \in Requests /\ tries \in 0 .. 3 /\ failures \in 0 .. 3

\* The mode of the processor is the one its place in the call requires.
ModeInStep ==
  /\ call = "none" => cpu = "pm32" /\ ~served /\ ~iflag
  /\ iflag => cpu = "real"
  /\ cpu = "pm16" => ~served

\* The BIOS call in progress is one of the function in progress, and the drive
\* is known from the end of DISK_Initialize on.
CallInStep ==
  /\ phase = "busy" <=> call \in {"read", "reset"}
  /\ call = "params" => phase = "off" /\ (served /\ eax = 1 => disk.id \in Drives)
  /\ phase = "off" => disk.id \in StaleIds /\ data = NOTHING
  /\ phase \in {"idle", "busy"} => disk.id = BootDrive

\* Every try but the one in progress has failed.
TriesInStep ==
  phase = "busy" =>
    /\ tries < 3
    /\ IF call = "reset" \/ (served /\ eax = 0) THEN failures = tries + 1
                                              ELSE failures = tries

\* The inductive invariant of the driver.
DiskInv == DiskTypeOK /\ ModeInStep /\ CallInStep /\ TriesInStep

\* DISK_ReadSectors says FALSE only after three transfers failed: a drive that
\* answers after one or two resets is read.
TransientFaultsAbsorbed ==
  phase = "idle" /\ ~ok /\ data # NOTHING => failures = 3

\* A call to the driver comes back.
CallsReturn == (phase = "busy") ~> (phase = "idle")

\* The tracks and cylinders the driver divides by are the boot drive's.  They
\* may be another drive's, whose number disk->id happened to hold.
GeometryFits ==
  phase \in {"idle", "busy"} =>
    /\ disk.heads = Geometry[BootDrive].heads
    /\ disk.sectors = Geometry[BootDrive].sectors

\* disk.h's promise.
Device == INSTANCE SectorDevice WITH Ask <- Requests, fits <- GeometryFits

\* The driver implements SectorDevice, whatever disk->id held: through the
\* division into cylinders, heads and sectors, the packing into registers and
\* the retries, a positive answer means the buffer holds the sectors asked
\* for, if the geometry fits or for the first sector of the disk, and else
\* sectors of the disk all the same, none of them half read.
ImplementsDevice == Device!DeviceSpec
=============================================================================
