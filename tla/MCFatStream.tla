----------------------------- MODULE MCFatStream -----------------------------
(***************************************************************************)
(* The volume of MCFat, for the refinement of FatStream.                   *)
(***************************************************************************)
EXTENDS MCFat, FatStream
=============================================================================
