----------------------------- MODULE SectorDevice -----------------------------
(***************************************************************************)
(* What disk.h gives the FAT driver: DISK_ReadSectors either fills the     *)
(* caller's buffer with the sectors asked for and says so, or says that it *)
(* did not, in which case the buffer may be half written.  No cylinders,   *)
(* no retries, no processor modes.  What a caller would not expect is in   *)
(* fits: when power is turned on the device may come up with another       *)
(* drive's geometry, and from then on sectors come from elsewhere, all but *)
(* the first of the disk, which has the same address under every geometry. *)
(***************************************************************************)
EXTENDS Naturals

CONSTANTS
  Ask,     \* the requests there are, [lba, count]
  NOTHING, \* the buffer before the first request
  TORN     \* a buffer a failed transfer left half written

VARIABLES
  phase,   \* "off", "idle", "busy" or "dead"
  fits,    \* is the geometry in use the drive's?
  asked,   \* the last request
  data,    \* what the caller's buffer holds: the request that would read it
  ok       \* the last answer

deviceVars == <<phase, fits, asked, data, ok>>

DeviceInit ==
  /\ phase = "off" /\ fits = TRUE
  /\ asked \in Ask /\ data = NOTHING /\ ok = FALSE

PowerOn ==
  /\ phase = "off" /\ phase' \in {"idle", "dead"}
  /\ fits' \in BOOLEAN
  /\ UNCHANGED <<asked, data, ok>>

Request ==
  /\ phase = "idle" /\ phase' = "busy"
  /\ asked' \in Ask /\ ok' = FALSE
  /\ UNCHANGED <<fits, data>>

\* As many sectors, from anywhere on the disk.
Elsewhere == [lba : Nat, count : {asked.count}]

Transfer ==
  /\ phase = "busy"
  /\ \/ data' \in {asked, TORN}
     \/ ~fits /\ data' \in Elsewhere
  /\ UNCHANGED <<phase, fits, asked, ok>>

\* A positive answer is given only over the right data, or, with a geometry
\* that does not fit, over other sectors of the disk.
Answer ==
  /\ phase = "busy" /\ phase' = "idle"
  /\ ok' \in BOOLEAN
  /\ ok' => \/ data = asked
            \/ ~fits /\ asked.lba # 0 /\ data \in Elsewhere
  /\ UNCHANGED <<fits, asked, data>>

DeviceNext == PowerOn \/ Request \/ Transfer \/ Answer

DeviceSpec == DeviceInit /\ [][DeviceNext]_deviceVars
=============================================================================
