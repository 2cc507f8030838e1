-------------------------------- MODULE Image --------------------------------
(***************************************************************************)
(* What the image scripts (make_floppy_image.sh, make_disk_image.sh) write *)
(* for stage 1: the second stage in the sectors from LBA 1 on, and one     *)
(* table entry in the last bytes of the boot sector.                       *)
(***************************************************************************)
EXTENDS Integers, Sequences

\* printf "%x" n | xxd -r -p: pairs of hexadecimal digits make bytes, a single
\* last digit makes none.  The first byte lands on the entry's count, which is
\* 0 before.  (Sizes of three digits at most; a floppy has 2880 sectors.)
CountByte(n) ==
  IF n < 16 THEN 0 ELSE IF n < 256 THEN n ELSE n \div 16

\* The image of a second stage of n sectors, in the form of Stage1.
ScriptImage(n) ==
  [stage2 |-> [i \in 1 .. n |-> i],
   table |-> <<[lba |-> 1, count |-> CountByte(n)]>>,
   first |-> <<0, CountByte(n)>>]
=============================================================================
