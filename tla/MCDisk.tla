-------------------------------- MODULE MCDisk --------------------------------
(***************************************************************************)
(* Three drives: the floppy booted from, a second one like it, and a hard  *)
(* disk, whose geometry the driver also uses for the floppy if disk->id    *)
(* happened to hold its number.  The floppy has the 1024 cylinders a BIOS  *)
(* can address, so that the requests reach every bit of the packed         *)
(* cylinder.                                                               *)
(***************************************************************************)
EXTENDS Disk

MCDrives == {0, 1, 128}
Floppy == [cylinders |-> 1024, heads |-> 2, sectors |-> 3]
MCGeometry ==
  [d \in MCDrives |-> IF d = 128 THEN [cylinders |-> 20, heads |-> 4, sectors |-> 17]
                                 ELSE Floppy]

\* The first and last sectors of a track, of a cylinder, of the cylinders
\* where a byte and where the register fields end; two that divided by the
\* hard disk's tracks are other sectors of the floppy, 3 and 7.
MCLbas == {0, 2, 3, 5, 6, 17, 69, 1535, 1536, 4607, 4608, 6143}
MCRequests == [lba : MCLbas, count : {1}] \cup {[lba |-> 1, count |-> 9]}

\* A byte of the stack: the boot drive's number or that of the one like it,
\* the hard disk's, or none that the BIOS knows.
MCStaleIds == {0, 1, 128, 7}
=============================================================================
