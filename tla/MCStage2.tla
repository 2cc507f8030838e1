------------------------------- MODULE MCStage2 -------------------------------
(***************************************************************************)
(* A volume with a kernel for Stage2: sectors of two units, clusters of    *)
(* two sectors.  The kernel has two clusters, not adjacent, and another    *)
(* file sits between them.                                                 *)
(*                                                                         *)
(*   LBA 0      boot sector        LBA 4,5    cluster 2  kernel            *)
(*   LBA 1      table              LBA 6,7    cluster 3  another file      *)
(*   LBA 2,3    root directory     LBA 8,9    cluster 4  kernel            *)
(***************************************************************************)
EXTENDS Stage2, TLC

\* kernel.bin has a full extension and so one spelling (HostProofs): names and
\* components need not be told apart.
MCName == {"other", "kernel"}
MCSpellings == [n \in MCName |-> {n}]
MCFatTable ==
  (0 :> 4080) @@ (1 :> 4095) @@ (2 :> 4) @@ (3 :> 4095) @@ (4 :> 4095) @@ (5 :> 0)
MCChain == (2 :> <<2, 4>>) @@ (3 :> <<3>>)

File(name, first, size) ==
  [Name |-> name, IsDirectory |-> FALSE, FirstCluster |-> first, Size |-> size]

\* A kernel whose last sector is half full, behind the other file, in the
\* second sector of the root directory.
MCEntry == (<<2, 1>> :> File("other", 3, 4)) @@ (<<3, 1>> :> File("kernel", 2, 7))

\* Every sector of the volume.
MCSectors == 0 .. 9

MCKernelPath == <<"kernel">>
MCPaths == {MCKernelPath}
MCReadSizes == {MEMORY_LOAD_SIZE}
=============================================================================
