-------------------------------- MODULE Stage1 --------------------------------
(***************************************************************************)
(* The boot sector (stage1/boot.asm): a table of <LBA, count> entries in   *)
(* its last bytes says where the second stage lies on the disk; each entry *)
(* is read with one int 13h call, with or without the BIOS extensions,     *)
(* tried three times with a controller reset after each failure, to        *)
(* consecutive memory from 0:0x500 on; then control passes there.          *)
(*                                                                         *)
(* Memory is counted in slots of one sector from 0x500; what a slot holds  *)
(* is the LBA it was read from.  The BIOS is external: any call may fail,  *)
(* and a failed transfer may have moved some of its sectors.               *)
(***************************************************************************)
EXTENDS Integers, Sequences

CONSTANTS
  Images,           \* disk images: see ImageRecord
  SectorsPerTrack,  \* bdb_sectors_per_track, the geometry of the drive too
  Heads,            \* bdb_heads
  LastSlot,         \* the last slot below stage 1 and its stack
  NOTHING           \* a slot stage 1 has not written

TableEntry == [lba : Nat \ {0}, count : 0 .. 255]

\* stage2 lists the LBAs of the second stage in order, table is
\* stage2_location up to its zero entry; first[i] says how many slots the
\* entries before the i-th fill (the reference for es).
ImageRecord ==
  [stage2 : Seq(Nat), table : Seq(TableEntry), first : Seq(Nat)]

\* A drive of the old interface: 1024 cylinders, six bits for the sector; LBAs
\* beyond it are not reached without extensions.
Reach == 1024 * Heads * SectorsPerTrack

ASSUME Stage1Assumption ==
  /\ SectorsPerTrack \in 1 .. 63 /\ Heads \in 1 .. 256
  /\ LastSlot \in Nat
  /\ NOTHING \notin Nat
  /\ Images \subseteq ImageRecord
  /\ \A im \in Images :
       /\ Len(im.first) = Len(im.table) + 1
       /\ im.first[1] = 0
       /\ \A i \in 1 .. Len(im.table) :
            /\ im.first[i + 1] = im.first[i] + im.table[i].count
            /\ im.table[i].lba < Reach /\ im.table[i].lba < 65536

Slots == 0 .. LastSlot

-----------------------------------------------------------------------------
(* Numbers.                                                                *)

\* Deviation: sectors counted from zero.
ChsFromZero(lba) ==
  LET track == (lba % 65536) \div SectorsPerTrack
      cylinder == track \div Heads
  IN [ch |-> cylinder % 256,
      cl |-> ((lba % 65536) % SectorsPerTrack) + 64 * ((cylinder \div 256) % 4),
      dh |-> track % Heads]

\* ax is 16 bits wide; the cylinder's upper bits are shifted within ah.
lba_to_chs(lba) ==
  LET track == (lba % 65536) \div SectorsPerTrack
      cylinder == track \div Heads
  IN [ch |-> cylinder % 256,
      cl |-> ((lba % 65536) % SectorsPerTrack) + 1 + 64 * ((cylinder \div 256) % 4),
      dh |-> track % Heads]

\* The sector the BIOS reads first for these registers.
AddressedLba(r) ==
  ((r.ch + 256 * (r.cl \div 64)) * Heads + r.dh) * SectorsPerTrack
    + (r.cl % 64) - 1

-----------------------------------------------------------------------------

VARIABLES
  image,           \* the disk booted from
  pc,              \* "probe", "loop", "int13", "reset", "error",
                   \* "stage2" (jumped there) or "overwritten"
  have_extensions,
  entry,           \* si: the table entry looked at
  es,              \* the destination, in slots
  di,              \* tries left
  request,         \* what int 13h is asked: extensions_dap, or the registers
  mem,             \* slot -> LBA
  shrunk           \* ghost: a failed call has lowered extensions_dap.count

stage1Vars ==
  <<image, pc, have_extensions, entry, es, di, request, mem, shrunk>>

Blank == [s \in Slots |-> NOTHING]
NoRequest == [lba |-> 0, slot |-> 0, count |-> 0]

Stage1Init ==
  /\ image \in Images
  /\ pc = "probe"
  /\ have_extensions = FALSE
  /\ entry = 1 /\ es = 0 /\ di = 0 /\ request = NoRequest
  /\ mem = Blank /\ shrunk = FALSE

\* start: the answer to int 13h/41h decides which interface is used.
CheckExtensions ==
  /\ pc = "probe"
  /\ have_extensions' \in BOOLEAN
  /\ pc' = "loop" /\ entry' = 1 /\ es' = 0
  /\ UNCHANGED <<image, di, request, mem, shrunk>>

\* disk_read up to .retry.
DiskRead ==
  /\ pc = "loop" /\ entry <= Len(image.table)
  /\ LET e == image.table[entry] IN
       request' = [lba |-> IF have_extensions THEN e.lba
                           ELSE AddressedLba(lba_to_chs(e.lba)),
                   slot |-> es, count |-> e.count]
  /\ di' = 3 /\ pc' = "int13"
  /\ UNCHANGED <<image, have_extensions, entry, es, mem, shrunk>>

\* The zero entry: jmp STAGE2_LOAD_SEGMENT:STAGE2_LOAD_OFFSET.
JumpToStage2 ==
  /\ pc = "loop" /\ entry > Len(image.table)
  /\ pc' = "stage2"
  /\ UNCHANGED <<image, have_extensions, entry, es, di, request, mem, shrunk>>

\* Memory after k sectors of the request have been moved.
Filled(k) ==
  [s \in Slots |->
     IF s \in request.slot .. request.slot + k - 1
     THEN request.lba + (s - request.slot) ELSE mem[s]]

\* A transfer that goes past the last slot runs over the stack and the code
\* that asked for it.
InRoom(k) == request.slot + k <= LastSlot + 1

RunOver ==
  /\ pc = "int13" /\ ~InRoom(request.count)
  /\ pc' = "overwritten" /\ mem' = Filled(request.count)
  /\ UNCHANGED <<image, have_extensions, entry, es, di, request, shrunk>>

\* Deviation: the destination does not move on between entries.
TransferredInPlace ==
  /\ pc = "int13" /\ InRoom(request.count)
  /\ mem' = Filled(request.count)
  /\ pc' = "loop" /\ entry' = entry + 1 /\ es' = es
  /\ UNCHANGED <<image, have_extensions, di, request, shrunk>>

\* Carry clear: .done restores cl, the loop advances es by 32 paragraphs for
\* each sector the table asked for.
Transferred ==
  /\ pc = "int13" /\ InRoom(request.count)
  /\ mem' = Filled(request.count)
  /\ pc' = "loop" /\ entry' = entry + 1
  /\ es' = es + image.table[entry].count
  /\ UNCHANGED <<image, have_extensions, di, request, shrunk>>

\* Carry set after k sectors.  The extensions store k in the packet's count,
\* and nothing sets it again before the retry.
TransferFails ==
  /\ pc = "int13"
  /\ \E k \in 0 .. request.count :
       /\ InRoom(k)
       /\ mem' = Filled(k)
       /\ \E count \in {request.count} \cup (IF have_extensions THEN {k} ELSE {}) :
            /\ request' = [request EXCEPT !.count = count]
            /\ shrunk' = (shrunk \/ count < request.count)
  /\ pc' = "reset"
  /\ UNCHANGED <<image, have_extensions, entry, es, di>>

\* Deviation: the tries are not counted.
ResetEndlessly ==
  /\ pc = "reset"
  /\ pc' = "int13" /\ di' = di
  /\ UNCHANGED <<image, have_extensions, entry, es, request, mem, shrunk>>

\* disk_reset, dec di, and back to .retry or on to .fail.
ResetAndRetry ==
  /\ pc = "reset"
  /\ di' = di - 1
  /\ pc' = IF di' = 0 THEN "error" ELSE "int13"
  /\ UNCHANGED <<image, have_extensions, entry, es, request, mem, shrunk>>

\* A reset that fails jumps to floppy_error out of the retry.
ResetFails ==
  /\ pc = "reset"
  /\ pc' = "error"
  /\ UNCHANGED <<image, have_extensions, entry, es, di, request, mem, shrunk>>

\* The machine starts again (wait_key_and_reboot, or its reset line): the
\* boot sector is read anew, memory may or may not be cleared.
Restart ==
  /\ pc' = "probe"
  /\ have_extensions' = FALSE
  /\ entry' = 1 /\ es' = 0 /\ di' = 0 /\ request' = NoRequest
  /\ mem' \in {mem, Blank} /\ shrunk' = FALSE
  /\ UNCHANGED image

WaitKeyAndReboot == pc = "error" /\ Restart

Loading ==
  \/ CheckExtensions \/ DiskRead \/ JumpToStage2
  \/ Transferred \/ RunOver \/ TransferFails
  \/ ResetAndRetry \/ ResetFails

-----------------------------------------------------------------------------
(* What makes stage 1 correct.                                             *)

\* The table tells where all of the second stage is.
Describes(im) ==
  LET n == Len(im.table) IN
  /\ im.first[n + 1] = Len(im.stage2) /\ Len(im.stage2) <= LastSlot + 1
  /\ \A i \in 1 .. n : \A j \in 0 .. im.table[i].count - 1 :
       im.stage2[im.first[i] + j + 1] = im.table[i].lba + j

Stage1TypeOK ==
  /\ image \in Images
  /\ pc \in {"probe", "loop", "int13", "reset", "error", "stage2", "overwritten"}
  /\ have_extensions \in BOOLEAN
  /\ entry \in 1 .. Len(image.table) + 1 /\ es \in Nat /\ di \in 0 .. 3
  /\ request \in [lba : Nat, slot : Nat, count : 0 .. 255]
  /\ mem \in [Slots -> Nat \cup {NOTHING}]
  /\ shrunk \in BOOLEAN

\* The first n sectors of the second stage are in their places.
Loaded(n) ==
  n <= LastSlot + 1 /\ \A s \in 0 .. n - 1 : mem[s] = image.stage2[s + 1]

\* The request in progress is the table's, unless its count was lowered.
RequestOfTable ==
  LET e == image.table[entry] IN
  /\ entry <= Len(image.table) /\ di > 0
  /\ request.lba = e.lba /\ request.slot = es
  /\ request.count <= e.count
  /\ request.count = e.count \/ shrunk

\* Every entry read so far is in memory, and es is behind the last one.
Progress ==
  /\ pc \in {"int13", "reset"} => RequestOfTable
  /\ pc # "probe" => es = image.first[entry]
  /\ pc = "stage2" => entry = Len(image.table) + 1
  /\ pc \in {"loop", "int13", "reset", "stage2"} /\ Describes(image) /\ ~shrunk =>
       Loaded(image.first[entry])

Stage1Inv == Stage1TypeOK /\ Progress

\* Control is handed over only with all of the second stage in memory, each
\* sector in its place, whichever calls failed on the way and however much of
\* its sectors each of them moved, if the table describes the second stage
\* (boot.asm:264, "carry flag cleared = success").  The exception is the
\* defect of the retry: a packet whose count a failed call has lowered.
WholeStage2 ==
  pc = "stage2" /\ Describes(image) => Loaded(Len(image.stage2)) \/ shrunk
=============================================================================
