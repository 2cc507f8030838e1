-------------------------------- MODULE MCHost --------------------------------
(***************************************************************************)
(* A small image for HostFat: sectors of three entries, clusters of two    *)
(* sectors, a root directory of two sectors behind a sector of the second  *)
(* stage.  The file h.bin of the root's second sector has a namesake in dd.*)
(*                                                                         *)
(*   LBA 0    boot sector        LBA 5,6    cluster 2   directory dd       *)
(*   LBA 1    second stage       LBA 7,8    cluster 3   file f.bin         *)
(*   LBA 2    table              LBA 9,10   cluster 4   file f.bin         *)
(*   LBA 3,4  root directory     LBA 11,12  cluster 5   the files of dd    *)
(*                               LBA 13,14  cluster 6   file h.bin         *)
(***************************************************************************)
EXTENDS HostFat, TLC

\* The components "dd", "f.bin", "h.bin", "z.bin", "q.bin", "g" and "gd".
dd == <<100, 100>>
f_bin == <<102, 46, 98, 105, 110>>
h_bin == <<104, 46, 98, 105, 110>>
z_bin == <<122, 46, 98, 105, 110>>
q_bin == <<113, 46, 98, 105, 110>>
g == <<103>>
gd == <<103, 100>>

MCFatTable ==
  (0 :> 4080) @@ (1 :> 4095) @@ (2 :> 4095) @@ (3 :> 4) @@ (4 :> 4095) @@
  (5 :> 4095) @@ (6 :> 4095) @@ (7 :> 0)

MCChain == (2 :> <<2>>) @@ (3 :> <<3, 4>>) @@ (5 :> <<5>>) @@ (6 :> <<6>>)

\* A stack of zeros, and one of other bytes.
MCGarbage == {[k \in 0 .. NAME_SIZE - 1 |-> x] : x \in {NUL, 120}}

File(c, first, size) ==
  [Name |-> EightDotThree(c), IsDirectory |-> FALSE, FirstCluster |-> first, Size |-> size]

MCEntry ==
  (<<3, 0>> :> File(f_bin, 3, 8)) @@ (<<3, 2>> :> File(z_bin, 0, 0)) @@
  (<<4, 1>> :> [Name |-> EightDotThree(dd), IsDirectory |-> TRUE,
                FirstCluster |-> 2, Size |-> 0]) @@
  (<<4, 2>> :> File(h_bin, 6, 6)) @@
  (<<5, 0>> :> File(h_bin, 5, 1)) @@ (<<6, 0>> :> File(gd, 5, 4)) @@
  (<<6, 2>> :> File(g, 5, 2))

\* Files and directories that are there, in each sector; a name that is not, in
\* the root or below; one that is only below; a file taken for a directory; and
\* one, g behind dd, that is taken for gd.
MCArguments ==
  {<<>>, <<f_bin>>, <<z_bin>>, <<h_bin>>, <<dd>>, <<dd, gd>>, <<dd, g>>,
   <<dd, h_bin>>, <<q_bin>>, <<dd, f_bin>>, <<gd>>, <<f_bin, gd>>}
=============================================================================
