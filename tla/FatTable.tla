------------------------------- MODULE FatTable -------------------------------
(***************************************************************************)
(* The file allocation table of FAT12 as it lies in memory: entries of 12  *)
(* bits, two of them in three bytes, read through 16-bit words             *)
(* (FAT_NextCluster in stage2/fat.c and, unchanged, in tools/fat/fat.c).   *)
(***************************************************************************)
EXTENDS Integers

Entry12 == 0 .. 4095

\* Entries come in pairs: with a cluster its neighbour is in the table.
Paired(table) ==
  \A c \in DOMAIN table :
    2 * (c \div 2) \in DOMAIN table /\ 2 * (c \div 2) + 1 \in DOMAIN table

\* The reference: the three bytes of entries 2k and 2k + 1.
Packed(table) ==
  [i \in UNION {{3 * (c \div 2) + b : b \in 0 .. 2} : c \in DOMAIN table} |->
     LET even == table[2 * (i \div 3)]
         odd == table[2 * (i \div 3) + 1]
     IN IF i % 3 = 0 THEN even % 256
        ELSE IF i % 3 = 1 THEN (even \div 256) + 16 * (odd % 16)
        ELSE odd \div 16]

\* The little-endian word at byte i.
Word(bytes, i) == bytes[i] + 256 * bytes[i + 1]

FatIndex(cluster) == (cluster * 3) \div 2

\* Deviation: the lower bits of the word for odd clusters too.
LowBits(bytes, cluster) == Word(bytes, FatIndex(cluster)) % 4096

Link(bytes, cluster) ==
  IF cluster % 2 = 0 THEN Word(bytes, FatIndex(cluster)) % 4096
                     ELSE Word(bytes, FatIndex(cluster)) \div 16
=============================================================================
