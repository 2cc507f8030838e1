-------------------------------- MODULE MCFat --------------------------------
(***************************************************************************)
(* A small volume for FatDriver: sectors of two entries, clusters of two   *)
(* sectors, a root directory of two sectors, a fragmented file f, a        *)
(* subdirectory d with a file g in its second sector, an empty file z.     *)
(*                                                                         *)
(*   LBA 0      boot sector        LBA 4,5    cluster 2  directory d       *)
(*   LBA 1      table              LBA 6,7    cluster 3  file f            *)
(*   LBA 2,3    root directory     LBA 8,9    cluster 4  file f            *)
(*                                 LBA 10,11  cluster 5  file g            *)
(***************************************************************************)
EXTENDS FatDriver, TLC

MCName == {"d", "f", "g", "z", "q"}

\* Entries 0 and 1 are the media descriptor and an end mark.
MCFatTable ==
  (0 :> 4080) @@ (1 :> 4095) @@ (2 :> 4095) @@ (3 :> 4) @@ (4 :> 4095) @@ (5 :> 4095)

MCChain == (2 :> <<2>>) @@ (3 :> <<3, 4>>) @@ (5 :> <<5>>)

\* The component q is one without a full extension (FatName): with the byte left
\* behind it in the buffer it may be looked up as z instead.
MCSpellings == [n \in MCName |-> IF n = "q" THEN {"q", "z"} ELSE {n}]

File(name, first, size) ==
  [Name |-> name, IsDirectory |-> FALSE, FirstCluster |-> first, Size |-> size]

Directory(name, first) ==
  [Name |-> name, IsDirectory |-> TRUE, FirstCluster |-> first, Size |-> 0]

MCEntry ==
  (<<2, 0>> :> File("f", 3, 5)) @@ (<<2, 1>> :> File("z", 0, 0)) @@
  (<<3, 0>> :> Directory("d", 2)) @@
  (<<4, 1>> :> File("q", 5, 1)) @@ (<<5, 0>> :> File("g", 5, 1))

MCPaths == {<<"f">>, <<"d", "g">>}

\* The paths of the stream run: also a directory as a file, a missing
\* name and one that may be misspelt.
MCStreamPaths == MCPaths \cup {<<"d">>, <<"d", "q">>, <<"d", "f">>}

\* One missing name, one that is in the first sector of the root directory.
MCRootPaths == {<<"q">>, <<"f">>}
MCCleanSpellings == [n \in MCName |-> {n}]

\* Every sector of the volume, and one in the middle of f and that of g.
MCSectors == 0 .. 11
MCBadSectors == {7, 10}

MCReadSizes == {3}
MCStreamReadSizes == {1, 3, 8}
=============================================================================
