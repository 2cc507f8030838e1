-------------------------------- MODULE MCBoot --------------------------------
(***************************************************************************)
(* Boot with the geometry of a 1.44 MB floppy and room for 17 sectors      *)
(* between 0x500 and the stack of stage 1 (the program has 59).  Images as *)
(* the scripts make them, for second stages too small for the count byte,  *)
(* of the least size that works, and too large; and one with a second      *)
(* stage in two pieces, the second across the end of the first cylinder,   *)
(* which the table's format allows.                                        *)
(***************************************************************************)
EXTENDS Boot, Image

TwoPieces ==
  [stage2 |-> <<7, 8, 35, 36, 37>>,
   table |-> <<[lba |-> 7, count |-> 2], [lba |-> 35, count |-> 3]>>,
   first |-> <<0, 2, 5>>]

MCImages == {ScriptImage(n) : n \in {5, 16, 18}} \cup {TwoPieces}
=============================================================================
