------------------------------- MODULE FatName -------------------------------
(***************************************************************************)
(* From a path component to the 8.3 name its directory entry has: FAT_Open *)
(* copies the component into a buffer on its stack and terminates it one   *)
(* byte too far, FAT_FindFile converts what it finds in the buffer.  Two   *)
(* versions, of the loader (stage2/fat.c) and of the host (tools/fat).     *)
(*                                                                         *)
(* A character is its code; buffer and name are functions from 0 on, as    *)
(* arrays are in C, a component is the sequence of its characters.         *)
(***************************************************************************)
EXTENDS Integers, Sequences

CONSTANT NAME_SIZE   \* MAX_PATH_SIZE

ASSUME NameSizeAssumption == NAME_SIZE \in Nat /\ NAME_SIZE >= 15

NUL == 0
SPACE == 32
DOT == 46
SLASH == 47
Char == 0 .. 255

Buffer == [0 .. NAME_SIZE - 1 -> Char]
FatNames == [0 .. 10 -> Char]

\* A component the buffer has room for (a longer path is not checked for).
Component == {c \in Seq(Char \ {NUL, SLASH}) : Len(c) \in 0 .. NAME_SIZE - 3}

islower(chr) == chr \in 97 .. 122
toupper(chr) == IF islower(chr) THEN chr - 32 ELSE chr

\* memcpy of the component over the buffer, then name[len + 1] = '\0'.
Extracted(name, c) ==
  [k \in DOMAIN name |-> IF k < Len(c) THEN c[k + 1]
                         ELSE IF k = Len(c) + 1 THEN NUL ELSE name[k]]

\* Where FAT_FindFile takes the extension to begin: strchr(name, '.'), or 11
\* bytes behind the start of a name without a dot.
FirstDot(name) ==
  {k \in DOMAIN name : name[k] = DOT /\ \A j \in 0 .. k - 1 : name[j] \notin {NUL, DOT}}

DotAt(name) ==
  IF FirstDot(name) = {} THEN 11 ELSE CHOOSE k \in FirstDot(name) : TRUE

\* Deviation: the extension copied from the dot on.
FilledFromDot(name, dot, hasExtension) ==
  [k \in 0 .. 10 |->
     IF k < 8
     THEN IF k < dot /\ \A j \in 0 .. k : name[j] # NUL
          THEN toupper(name[k]) ELSE SPACE
     ELSE IF hasExtension /\ \A j \in 0 .. k - 8 : name[dot + j] # NUL
          THEN toupper(name[dot + k - 8]) ELSE SPACE]

\* Up to eight characters before the dot, up to three behind it; the loops stop
\* at a NUL.
Filled(name, dot, hasExtension) ==
  [k \in 0 .. 10 |->
     IF k < 8
     THEN IF k < dot /\ \A j \in 0 .. k : name[j] # NUL
          THEN toupper(name[k]) ELSE SPACE
     ELSE IF hasExtension /\ \A j \in 1 .. k - 7 : name[dot + j] # NUL
          THEN toupper(name[dot + k - 7]) ELSE SPACE]

\* The loader takes no extension from a name without a dot ...
Converted(name) == Filled(name, DotAt(name), DotAt(name) # 11)

\* ... the host takes the bytes 12 to 14 of the buffer, whatever they are.
HostConverted(name) == Filled(name, DotAt(name), TRUE)

-----------------------------------------------------------------------------
(* The reference: what an 8.3 name is.                                     *)

\* The characters before the first dot, or all of them.
IsStem(c, n) ==
  /\ n < Len(c) => c[n + 1] = DOT
  /\ \A k \in 1 .. n : c[k] # DOT

Stem(c) == CHOOSE n \in 0 .. Len(c) : IsStem(c, n)

EightDotThree(c) ==
  [k \in 0 .. 10 |->
     IF k < 8 THEN IF k < Stem(c) THEN toupper(c[k + 1]) ELSE SPACE
     ELSE IF Stem(c) + k - 6 <= Len(c) THEN toupper(c[Stem(c) + k - 6]) ELSE SPACE]

\* A stem of at most eight characters.
Proper(c) == \E n \in 0 .. Len(c) : IsStem(c, n) /\ n <= 8

\* An extension that leaves no room for a byte left over in the buffer.
FullExtension(c) == Len(c) >= Stem(c) + 4
=============================================================================
