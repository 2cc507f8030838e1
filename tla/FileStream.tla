------------------------------ MODULE FileStream ------------------------------
(***************************************************************************)
(* What fat.h promises its caller: a handle returned by FAT_Open is a      *)
(* stream of its own, FAT_Read delivers the next units of it, in order,    *)
(* none twice and none left out, as many as asked for or all that are      *)
(* left, and FAT_Close gives the handle back.                              *)
(*                                                                         *)
(* A stream is copied block by block.  If it has a part that may not be    *)
(* readable, a read can break off at the end of a block.  What was         *)
(* delivered up to there is right; the next read goes on at the right      *)
(* position, and delivers whatever is there in place of the next block,    *)
(* but of no other.                                                        *)
(*                                                                         *)
(* Nothing here knows of sectors, clusters, buffers or directory walks.    *)
(***************************************************************************)
EXTENDS Integers, Sequences

CONSTANTS
  Handle,     \* the handles there are
  Streams,    \* contents of the files a caller can open
  Sizes,      \* numbers of units a caller may ask for
  Block,      \* units of one block
  Fragile     \* the streams with a part that may not be readable

VARIABLES
  stream,  \* open handle -> its contents
  pos,     \* open handle -> units delivered so far
  reading, \* the handle a read is in progress on, as a set of at most one
  todo,    \* units the read in progress has still to deliver
  got,     \* units it has delivered
  broken   \* open handles the next block of which could not be read

streamVars == <<stream, pos, reading, todo, got, broken>>

Opened == DOMAIN stream

StreamInit ==
  /\ stream = [h \in {} |-> <<>>] /\ pos = [h \in {} |-> 0]
  /\ reading = {} /\ todo = 0 /\ got = <<>> /\ broken = {}

Extend(f, h, v) == [i \in DOMAIN f \cup {h} |-> IF i = h THEN v ELSE f[i]]
Remove(f, h) == [i \in DOMAIN f \ {h} |-> f[i]]

\* Some handle not in use becomes the stream of some file, at its start.
OpenStream ==
  /\ reading = {}
  /\ \E h \in Handle \ Opened, s \in Streams :
       /\ stream' = Extend(stream, h, s)
       /\ pos' = Extend(pos, h, 0)
  /\ UNCHANGED <<reading, todo, got, broken>>

CloseStream ==
  /\ reading = {}
  /\ \E h \in Opened :
       /\ stream' = Remove(stream, h)
       /\ pos' = Remove(pos, h)
       /\ broken' = broken \ {h}
  /\ UNCHANGED <<reading, todo, got>>

\* What a read that asks for n units of h has to deliver.
Granted(h, n) ==
  LET left == Len(stream[h]) - pos[h] IN IF n < left THEN n ELSE left

BeginRead ==
  /\ reading = {}
  /\ \E h \in Opened, n \in Sizes :
       /\ reading' = {h}
       /\ todo' = Granted(h, n)
  /\ UNCHANGED <<stream, pos, got, broken>>

\* The next k units of h, or whatever is there in their place.
Copies(h, k) ==
  IF h \notin broken
  THEN got' = got \o SubSeq(stream[h], pos[h] + 1, pos[h] + k)
  ELSE /\ Len(got') = Len(got) + k
       /\ \A i \in 1 .. Len(got) : got'[i] = got[i]

\* Part of what is still to do is copied in order, up to the end of the block at
\* most.  If the block behind it cannot be read, it is the last part of this read.
Deliver ==
  /\ todo > 0
  /\ \E h \in reading, k \in 1 .. todo :
       /\ (pos[h] % Block) + k <= Block
       /\ Copies(h, k)
       /\ pos' = [pos EXCEPT ![h] = @ + k]
       /\ LET atEnd == (pos[h] + k) % Block = 0 IN
          \/ /\ todo' = todo - k
             /\ broken' = IF atEnd THEN broken \ {h} ELSE broken
          \/ /\ atEnd /\ stream[h] \in Fragile
             /\ todo' = 0 /\ broken' = broken \cup {h}
  /\ UNCHANGED <<stream, reading>>

EndRead ==
  /\ reading # {} /\ todo = 0
  /\ reading' = {} /\ got' = <<>>
  /\ UNCHANGED <<stream, pos, todo, broken>>

StreamNext == OpenStream \/ CloseStream \/ BeginRead \/ Deliver \/ EndRead

StreamSpec == StreamInit /\ [][StreamNext]_streamVars
=============================================================================
