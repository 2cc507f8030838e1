------------------------------ MODULE HostProofs ------------------------------
(***************************************************************************)
(* Proofs about 8.3 names (FatName), for every component and every content *)
(* of the buffer it is copied to, and about the host's FAT reader.         *)
(***************************************************************************)
EXTENDS HostFat, FatVolumeProofs, SequenceTheorems

-----------------------------------------------------------------------------
(* 8.3 names.                                                              *)

\* A component has one stem.
LEMMA StemUnique ==
  ASSUME NEW c \in Seq(Char), NEW n \in 0 .. Len(c), IsStem(c, n)
  PROVE  Stem(c) = n
<1>1. ASSUME NEW m \in 0 .. Len(c), IsStem(c, m), m # n PROVE FALSE
  <2>1. CASE m < n
    <3>1. m + 1 \in 1 .. n /\ m < Len(c)
      BY <2>1
    <3> QED BY <3>1, <1>1 DEF IsStem
  <2>2. CASE n < m
    <3>1. n + 1 \in 1 .. m /\ n < Len(c)
      BY <2>2
    <3> QED BY <3>1, <1>1 DEF IsStem
  <2> QED BY <2>1, <2>2, <1>1
<1> QED BY <1>1 DEF Stem

\* The buffer holds the string d.
Holds(b, d) ==
  /\ Len(d) \in DOMAIN b /\ b[Len(d)] = NUL
  /\ \A k \in 0 .. Len(d) - 1 : b[k] = d[k + 1] /\ d[k + 1] # NUL

\* strchr finds the dot behind the stem, or none.
LEMMA DotBehindStem ==
  ASSUME NEW b \in Buffer, NEW d \in Seq(Char), Holds(b, d),
         NEW n \in 0 .. Len(d), IsStem(d, n)
  PROVE  DotAt(b) = IF n < Len(d) THEN n ELSE 11
<1>1. Len(d) \in Nat /\ Len(d) \in 0 .. NAME_SIZE - 1 /\ DOMAIN b = 0 .. NAME_SIZE - 1
  BY DEF Holds, Buffer
<1>2. NAME_SIZE \in Nat
  BY NameSizeAssumption
<1>3. \A k \in DOMAIN b : k < n => b[k] # DOT
  <2>1. ASSUME NEW k \in DOMAIN b, k < n PROVE b[k] # DOT
    <3>1. k + 1 \in 1 .. n /\ k \in 0 .. Len(d) - 1
      BY <1>1, <1>2, <2>1
    <3> QED BY <3>1 DEF Holds, IsStem
  <2> QED BY <2>1
<1>4. CASE n < Len(d)
  <2>1. n \in DOMAIN b /\ n \in 0 .. Len(d) - 1
    BY <1>1, <1>2, <1>4
  <2>2. b[n] = DOT
    BY <2>1, <1>4 DEF Holds, IsStem
  <2>3. \A j \in 0 .. n - 1 : b[j] \notin {NUL, DOT}
    <3>1. ASSUME NEW j \in 0 .. n - 1 PROVE b[j] # NUL /\ b[j] # DOT
      <4>1. j \in 0 .. Len(d) - 1 /\ j \in DOMAIN b /\ j < n
        BY <1>1, <1>2, <1>4
      <4> QED BY <1>3, <4>1 DEF Holds
    <3> QED BY <3>1
  <2>4. n \in FirstDot(b)
    BY <2>1, <2>2, <2>3 DEF FirstDot
  <2>5. ASSUME NEW k \in FirstDot(b) PROVE k = n
    <3>1. k \in DOMAIN b /\ b[k] = DOT /\ ~(n \in 0 .. k - 1)
      BY <2>2, <2>5 DEF FirstDot
    <3> QED BY <1>1, <1>2, <1>3, <3>1
  <2>6. \A k \in FirstDot(b) : k = n
    BY <2>5
  <2> QED BY <1>4, <2>4, <2>5, <2>6 DEF DotAt
<1>5. CASE n = Len(d)
  <2>1. ASSUME NEW k \in FirstDot(b) PROVE FALSE
    <3>1. k \in DOMAIN b /\ b[k] = DOT /\ \A j \in 0 .. k - 1 : b[j] # NUL
      BY DEF FirstDot
    <3>2. k >= n
      BY <1>1, <1>2, <1>3, <3>1
    <3>3. k # n
      BY <1>5, <3>1 DEF Holds, NUL, DOT
    <3>4. n \in 0 .. k - 1
      BY <1>1, <1>2, <3>1, <3>2, <3>3
    <3> QED BY <1>5, <3>1, <3>4 DEF Holds
  <2> QED BY <1>5, <2>1 DEF DotAt
<1> QED BY <1>1, <1>4, <1>5

\* A buffer that holds a string with a stem short enough converts to its 8.3
\* name: in the loader, and on the host if there is a dot.
LEMMA HeldConverts ==
  ASSUME NEW b \in Buffer, NEW d \in Seq(Char), Holds(b, d),
         NEW n \in 0 .. Len(d), IsStem(d, n), n <= 9
  PROVE  /\ Converted(b) = EightDotThree(d)
         /\ n < Len(d) => HostConverted(b) = EightDotThree(d)
<1> DEFINE dot == DotAt(b)
<1>1. dot = IF n < Len(d) THEN n ELSE 11
  BY DotBehindStem
<1>2. Stem(d) = n
  BY StemUnique
<1>3. Len(d) \in Nat /\ \A k \in 0 .. Len(d) - 1 : b[k] = d[k + 1] /\ b[k] # NUL
  BY DEF Holds
<1>4. b[Len(d)] = NUL
  BY DEF Holds
<1> HIDE DEF dot
<1>5. ASSUME NEW k \in 0 .. 7
      PROVE  (k < dot /\ \A j \in 0 .. k : b[j] # NUL) <=> k < n
  <2>1. CASE k < n
    <3>1. \A j \in 0 .. k : j \in 0 .. Len(d) - 1
      BY <2>1, <1>3
    <3> QED BY <1>1, <1>3, <2>1, <3>1
  <2>2. CASE k >= n /\ n < Len(d)
    BY <1>1, <2>2
  <2>3. CASE k >= n /\ n = Len(d)
    <3>1. n \in 0 .. k
      BY <2>3
    <3> QED BY <3>1, <2>3, <1>4
  <2> QED BY <2>1, <2>2, <2>3, <1>3
<1>6. ASSUME n < Len(d), NEW k \in 8 .. 10
      PROVE  /\ (\A j \in 1 .. k - 7 : b[dot + j] # NUL) <=> n + k - 6 <= Len(d)
             /\ n + k - 6 <= Len(d) => b[dot + k - 7] = d[n + k - 6]
  <2> DEFINE P == \A j \in 1 .. k - 7 : b[n + j] # NUL
  <2>1. dot = n
    BY <1>1, <1>6
  <2>2. ASSUME n + k - 6 <= Len(d) PROVE P
    <3>1. ASSUME NEW j \in 1 .. k - 7 PROVE b[n + j] # NUL
      <4>1. n + j \in 0 .. Len(d) - 1
        BY <1>3, <2>2
      <4> HIDE DEF NUL
      <4> QED BY <1>3, <4>1
    <3> QED BY <3>1
  <2>3. ASSUME n + k - 6 > Len(d) PROVE ~P
    <3>1. Len(d) - n \in 1 .. k - 7 /\ n + (Len(d) - n) = Len(d)
      BY <1>3, <1>6, <2>3
    <3> QED BY <1>4, <3>1
  <2>4. ASSUME n + k - 6 <= Len(d) PROVE b[n + k - 7] = d[n + k - 6]
    <3>1. n + k - 7 \in 0 .. Len(d) - 1 /\ (n + k - 7) + 1 = n + k - 6
      BY <1>3, <2>4
    <3> QED BY <1>3, <3>1
  <2>5. P <=> n + k - 6 <= Len(d)
    <3> HIDE DEF P
    <3> QED BY <1>3, <2>2, <2>3
  <2>6. (\A j \in 1 .. k - 7 : b[dot + j] # NUL) <=> P
    BY <2>1
  <2>7. n + k - 6 <= Len(d) => b[dot + k - 7] = d[n + k - 6]
    BY <2>1, <2>4
  <2> HIDE DEF P
  <2> QED BY <2>5, <2>6, <2>7
<1>7. \A k \in 0 .. 7 : k < n => b[k] = d[k + 1]
  BY <1>3
<1> DEFINE L(k) ==
             IF k < 8
             THEN IF k < dot /\ \A j \in 0 .. k : b[j] # NUL
                  THEN toupper(b[k]) ELSE SPACE
             ELSE IF n < Len(d) /\ \A j \in 1 .. k - 7 : b[dot + j] # NUL
                  THEN toupper(b[dot + k - 7]) ELSE SPACE
           R(k) ==
             IF k < 8 THEN IF k < n THEN toupper(d[k + 1]) ELSE SPACE
             ELSE IF n + k - 6 <= Len(d) THEN toupper(d[n + k - 6]) ELSE SPACE
<1>8. (dot # 11) <=> n < Len(d)
  BY <1>1
<1>9. /\ Filled(b, dot, dot # 11) = [k \in 0 .. 10 |-> L(k)]
      /\ n < Len(d) => Filled(b, dot, TRUE) = [k \in 0 .. 10 |-> L(k)]
      /\ EightDotThree(d) = [k \in 0 .. 10 |-> R(k)]
  BY <1>2, <1>8 DEF Filled, EightDotThree
<1>10. ASSUME NEW k \in 0 .. 10 PROVE L(k) = R(k)
  <2>1. CASE k \in 0 .. 7 /\ k < n
    <3>1. k < 8 /\ k < dot /\ \A j \in 0 .. k : b[j] # NUL
      BY <1>5, <2>1
    <3>2. L(k) = toupper(b[k])
      BY <3>1
    <3>3. R(k) = toupper(d[k + 1])
      BY <2>1, <3>1
    <3>4. b[k] = d[k + 1]
      BY <1>7, <2>1
    <3> HIDE DEF L, R
    <3> QED BY <3>2, <3>3, <3>4
  <2>2. CASE k \in 0 .. 7 /\ ~(k < n)
    <3>1. k < 8 /\ ~(k < dot /\ \A j \in 0 .. k : b[j] # NUL)
      BY <1>5, <2>2
    <3>2. L(k) = SPACE
      BY <3>1
    <3>3. R(k) = SPACE
      BY <2>2, <3>1
    <3> HIDE DEF L, R
    <3> QED BY <3>2, <3>3
  <2>3. CASE k \in 8 .. 10 /\ n < Len(d) /\ n + k - 6 <= Len(d)
    <3>1. /\ ~(k < 8) /\ \A j \in 1 .. k - 7 : b[dot + j] # NUL
          /\ b[dot + k - 7] = d[n + k - 6]
      BY <1>6, <2>3
    <3>2. L(k) = toupper(b[dot + k - 7])
      BY <2>3, <3>1
    <3>3. R(k) = toupper(d[n + k - 6])
      BY <2>3, <3>1
    <3> HIDE DEF L, R
    <3> QED BY <3>1, <3>2, <3>3
  <2>4. CASE k \in 8 .. 10 /\ n < Len(d) /\ ~(n + k - 6 <= Len(d))
    <3>1. ~(k < 8) /\ ~(\A j \in 1 .. k - 7 : b[dot + j] # NUL)
      BY <1>6, <2>4
    <3>2. L(k) = SPACE
      BY <3>1
    <3>3. R(k) = SPACE
      BY <2>4, <3>1
    <3> HIDE DEF L, R
    <3> QED BY <3>2, <3>3
  <2>5. CASE k \in 8 .. 10 /\ n = Len(d)
    <3>1. ~(n + k - 6 <= Len(d)) /\ ~(k < 8) /\ ~(n < Len(d))
      BY <1>3, <2>5
    <3> QED BY <3>1
  <2>6. k \in 0 .. 7 \/ k \in 8 .. 10
    OBVIOUS
  <2>7. n < Len(d) \/ n = Len(d)
    BY <1>3
  <2> QED BY <2>1, <2>2, <2>3, <2>4, <2>5, <2>6, <2>7
<1> HIDE DEF L, R
<1>11. [k \in 0 .. 10 |-> L(k)] = [k \in 0 .. 10 |-> R(k)]
  BY <1>10
<1>12. Converted(b) = Filled(b, dot, dot # 11) /\ HostConverted(b) = Filled(b, dot, TRUE)
  BY DEF Converted, HostConverted, dot
<1> QED BY <1>9, <1>11, <1>12

\* What FAT_Open leaves in its buffer: the component, or the component and the
\* byte that was left there behind it.
LEMMA ExtractedHolds ==
  ASSUME NEW b \in Buffer, NEW c \in Component
  PROVE  LET x == b[Len(c)] IN
         /\ x \in Char /\ Extracted(b, c) \in Buffer
         /\ x = NUL => Holds(Extracted(b, c), c)
         /\ x # NUL => Holds(Extracted(b, c), Append(c, x))
<1> DEFINE x == b[Len(c)]
           e == Extracted(b, c)
<1>1. /\ c \in Seq(Char \ {NUL, SLASH}) /\ Len(c) \in 0 .. NAME_SIZE - 3
      /\ NAME_SIZE \in Nat /\ NAME_SIZE >= 15
  BY NameSizeAssumption DEF Component
<1>2. /\ b \in [0 .. NAME_SIZE - 1 -> Char]
      /\ Len(c) \in DOMAIN b /\ Len(c) + 1 \in DOMAIN b /\ DOMAIN b = 0 .. NAME_SIZE - 1
  BY <1>1 DEF Buffer
<1>3. x \in Char /\ NUL \in Char
  <2>1. x \in Char
    BY <1>2
  <2>2. NUL \in Char
    BY DEF Char, NUL
  <2> QED BY <2>1, <2>2
<1>4. \A k \in 1 .. Len(c) : c[k] \in Char /\ c[k] # NUL
  BY <1>1
<1>5. /\ DOMAIN e = DOMAIN b /\ e[Len(c)] = x /\ e[Len(c) + 1] = NUL
      /\ \A k \in 0 .. Len(c) - 1 : e[k] = c[k + 1]
  BY <1>1, <1>2 DEF Extracted
<1>6. e \in Buffer
  <2>1. ASSUME NEW k \in DOMAIN b
        PROVE (IF k < Len(c) THEN c[k + 1]
               ELSE IF k = Len(c) + 1 THEN NUL ELSE b[k]) \in Char
    <3>1. k < Len(c) => k + 1 \in 1 .. Len(c)
      BY <1>1, <1>2
    <3>2. b[k] \in Char
      BY <1>2
    <3> QED BY <1>3, <1>4, <3>1, <3>2
  <2> QED BY <1>2, <2>1 DEF Extracted, Buffer
<1>7. ASSUME x = NUL PROVE Holds(e, c)
  BY <1>1, <1>2, <1>4, <1>5, <1>7 DEF Holds
<1>8. ASSUME x # NUL PROVE Holds(e, Append(c, x))
  <2> DEFINE d == Append(c, x)
  <2>1. /\ Len(d) = Len(c) + 1 /\ d[Len(c) + 1] = x
        /\ \A k \in 1 .. Len(c) : d[k] = c[k]
    BY <1>1, <1>3
  <2> HIDE DEF d
  <2>2. ASSUME NEW k \in 0 .. Len(c) PROVE e[k] = d[k + 1] /\ d[k + 1] # NUL
    <3>1. CASE k = Len(c)
      BY <1>5, <1>8, <2>1, <3>1
    <3>2. CASE k # Len(c)
      <4>1. k \in 0 .. Len(c) - 1 /\ k + 1 \in 1 .. Len(c)
        BY <1>1, <3>2
      <4> QED BY <1>4, <1>5, <2>1, <4>1
    <3> QED BY <3>1, <3>2
  <2>3. Len(d) - 1 = Len(c)
    BY <1>1, <2>1
  <2> QED BY <1>2, <1>5, <2>1, <2>2, <2>3 DEF Holds, d
<1> HIDE DEF e
<1> QED BY <1>3, <1>6, <1>7, <1>8 DEF e

\* A byte behind a component with a full extension does not show in its name.
LEMMA FullExtensionHides ==
  ASSUME NEW c \in Seq(Char), NEW n \in 0 .. Len(c), IsStem(c, n), n + 4 <= Len(c),
         NEW x \in Char
  PROVE  /\ EightDotThree(Append(c, x)) = EightDotThree(c)
         /\ IsStem(Append(c, x), n) /\ n \in 0 .. Len(Append(c, x))
<1> DEFINE d == Append(c, x)
<1>1. /\ d \in Seq(Char) /\ Len(c) \in Nat /\ Len(d) = Len(c) + 1
      /\ \A k \in 1 .. Len(c) : d[k] = c[k]
  OBVIOUS
<1> HIDE DEF d
<1>2. IsStem(d, n) /\ n \in 0 .. Len(d)
  <2>1. n + 1 \in 1 .. Len(c) /\ \A k \in 1 .. n : k \in 1 .. Len(c)
    BY <1>1
  <2>2. d[n + 1] = DOT
    BY <1>1, <2>1 DEF IsStem
  <2> QED BY <1>1, <2>1, <2>2 DEF IsStem
<1>3. Stem(d) = n /\ Stem(c) = n
  BY <1>1, <1>2, StemUnique
<1> DEFINE R(s, k) ==
             IF k < 8 THEN IF k < n THEN toupper(s[k + 1]) ELSE SPACE
             ELSE IF n + k - 6 <= Len(s) THEN toupper(s[n + k - 6]) ELSE SPACE
<1>4. ASSUME NEW k \in 0 .. 10 PROVE R(d, k) = R(c, k)
  <2>1. CASE k < 8 /\ k < n
    <3>1. k + 1 \in 1 .. Len(c)
      BY <1>1, <2>1
    <3> QED BY <1>1, <2>1, <3>1
  <2>2. CASE k < 8 /\ ~(k < n)
    BY <2>2
  <2>3. CASE ~(k < 8)
    <3>1. n + k - 6 \in 1 .. Len(c) /\ n + k - 6 <= Len(d)
      BY <1>1, <2>3
    <3> QED BY <1>1, <2>3, <3>1
  <2> QED BY <2>1, <2>2, <2>3
<1>5. /\ EightDotThree(d) = [k \in 0 .. 10 |-> R(d, k)]
      /\ EightDotThree(c) = [k \in 0 .. 10 |-> R(c, k)]
  BY <1>3 DEF EightDotThree
<1> HIDE DEF R
<1>6. [k \in 0 .. 10 |-> R(d, k)] = [k \in 0 .. 10 |-> R(c, k)]
  BY <1>4
<1> QED BY <1>2, <1>5, <1>6 DEF d

\* One more byte makes a stem longer by at most one.
LEMMA StemOfAppended ==
  ASSUME NEW c \in Seq(Char), NEW n \in 0 .. Len(c), IsStem(c, n), n <= 8,
         NEW x \in Char
  PROVE  \E m \in 0 .. Len(Append(c, x)) : IsStem(Append(c, x), m) /\ m <= 9
<1> DEFINE d == Append(c, x)
<1>1. /\ Len(c) \in Nat /\ Len(d) = Len(c) + 1 /\ d[Len(c) + 1] = x
      /\ \A k \in 1 .. Len(c) : d[k] = c[k]
  OBVIOUS
<1> HIDE DEF d
<1>2. CASE n < Len(c) \/ x = DOT
  <2>1. n \in 0 .. Len(d) /\ \A k \in 1 .. n : k \in 1 .. Len(c)
    BY <1>1
  <2>2. d[n + 1] = DOT
    <3>1. CASE n < Len(c)
      <4>1. n + 1 \in 1 .. Len(c)
        BY <1>1, <3>1
      <4> QED BY <1>1, <3>1, <4>1 DEF IsStem
    <3>2. CASE n = Len(c)
      BY <1>1, <1>2, <3>2
    <3> QED BY <1>1, <3>1, <3>2
  <2>3. IsStem(d, n)
    BY <1>1, <2>1, <2>2 DEF IsStem
  <2> QED BY <2>1, <2>3 DEF d
<1>3. CASE n = Len(c) /\ x # DOT
  <2>1. n + 1 \in 0 .. Len(d) /\ n + 1 <= 9 /\ ~(n + 1 < Len(d))
    BY <1>1, <1>3
  <2>2. ASSUME NEW k \in 1 .. n + 1 PROVE d[k] # DOT
    <3>1. CASE k = n + 1
      BY <1>1, <1>3, <3>1
    <3>2. CASE k # n + 1
      <4>1. k \in 1 .. n /\ k \in 1 .. Len(c)
        BY <3>2
      <4> QED BY <1>1, <4>1 DEF IsStem
    <3> QED BY <3>1, <3>2
  <2>3. IsStem(d, n + 1)
    BY <2>1, <2>2 DEF IsStem
  <2> QED BY <2>1, <2>3 DEF d
<1> QED BY <1>1, <1>2, <1>3

\* What the loader looks up is the 8.3 name of the component, or of the component
\* with the byte behind it that an earlier one left; with a full extension it
\* is the component's own, in the loader and on the host.
THEOREM ComponentSpelled ==
  ASSUME NEW b \in Buffer, NEW c \in Component, Proper(c)
  PROVE  /\ Converted(Extracted(b, c)) =
              EightDotThree(IF b[Len(c)] = NUL THEN c ELSE Append(c, b[Len(c)]))
         /\ FullExtension(c) =>
              /\ Converted(Extracted(b, c)) = EightDotThree(c)
              /\ HostConverted(Extracted(b, c)) = EightDotThree(c)
<1> DEFINE x == b[Len(c)]
           e == Extracted(b, c)
<1>1. /\ x \in Char /\ e \in Buffer
      /\ x = NUL => Holds(e, c)
      /\ x # NUL => Holds(e, Append(c, x))
  BY ExtractedHolds
<1>2. c \in Seq(Char) /\ Append(c, x) \in Seq(Char)
  <2>1. c \in Seq(Char)
    BY DEF Component
  <2> QED BY <1>1, <2>1
<1>3. PICK n \in 0 .. Len(c) : IsStem(c, n) /\ n <= 8
  BY DEF Proper
<1>4. FullExtension(c) => n + 4 <= Len(c)
  BY <1>2, <1>3, StemUnique DEF FullExtension
<1> HIDE DEF x, e
<1>5. CASE x = NUL
  <2>1. /\ Converted(e) = EightDotThree(c)
        /\ n < Len(c) => HostConverted(e) = EightDotThree(c)
    BY <1>1, <1>2, <1>3, <1>5, HeldConverts
  <2>2. FullExtension(c) => n < Len(c)
    BY <1>2, <1>4
  <2> QED BY <1>5, <2>1, <2>2 DEF x, e
<1>6. CASE x # NUL
  <2> DEFINE d == Append(c, x)
  <2>1. Holds(e, d) /\ d \in Seq(Char)
    BY <1>1, <1>2, <1>6
  <2>2. PICK m \in 0 .. Len(d) : IsStem(d, m) /\ m <= 9
    BY <1>1, <1>2, <1>3, StemOfAppended
  <2>3. Converted(e) = EightDotThree(d)
    BY <1>1, <2>1, <2>2, HeldConverts
  <2>4. ASSUME FullExtension(c)
        PROVE  Converted(e) = EightDotThree(c) /\ HostConverted(e) = EightDotThree(c)
    <3>1. /\ EightDotThree(d) = EightDotThree(c)
          /\ IsStem(d, n) /\ n \in 0 .. Len(d)
      BY <1>1, <1>2, <1>3, <1>4, <2>4, FullExtensionHides
    <3>2. n < Len(d)
      <4>1. Len(d) = Len(c) + 1 /\ Len(c) \in Nat
        BY <1>1, <1>2
      <4> HIDE DEF d
      <4> QED BY <1>4, <2>4, <4>1
    <3>3. HostConverted(e) = EightDotThree(d)
      <4>1. n <= 9
        BY <1>3
      <4> HIDE DEF d
      <4> QED BY <1>1, <2>1, <3>1, <3>2, <4>1, HeldConverts
    <3> QED BY <2>3, <3>1, <3>3
  <2> QED BY <1>6, <2>3, <2>4 DEF x, e
<1> QED BY <1>5, <1>6

-----------------------------------------------------------------------------
(* One iteration of the copy loop.                                         *)

LEMMA HostConstants ==
  /\ LBA_RANGE \in Nat \ {0} /\ VolumeSectors \in 1 .. LBA_RANGE
  /\ POSITION_RANGE \in Nat \ {0} /\ ReadSize \in Nat \ {0} /\ ListMax \in Nat
  /\ RootDirLba \in 0 .. LBA_RANGE - 1
  /\ Name = FatNames
BY HostAssumption, VolumeConstants

LEMMA InRange == \A x \in Int : x % LBA_RANGE \in 0 .. LBA_RANGE - 1
BY HostConstants

\* The wrap of LBAs and positions does not show inside the volume.
LEMMA NoWrap ==
  /\ \A x \in 0 .. LBA_RANGE - 1 : x % LBA_RANGE = x
  /\ \A p \in Nat : p < POSITION_RANGE => p % POSITION_RANGE = p
<1>1. ASSUME NEW s \in Nat \ {0}, NEW x \in 0 .. s - 1 PROVE x % s = x
  <2>1. 0 \in Nat /\ x \in Nat /\ x = s * 0 + x
    OBVIOUS
  <2> QED BY <2>1, DivUnique
<1>2. ASSUME NEW p \in Nat, p < POSITION_RANGE PROVE p % POSITION_RANGE = p
  BY <1>1, <1>2, HostConstants
<1> QED BY <1>1, <1>2, HostConstants

LEMMA LeftFacts ==
  ASSUME NEW f \in FileData
  PROVE  /\ f.Position \in Nat /\ SectorIndex(f) \in Nat
         /\ LeftInBuffer(f) \in 1 .. SECTOR_SIZE
         /\ f.Position % SECTOR_SIZE \in 0 .. SECTOR_SIZE - 1
         /\ LeftInBuffer(f) = SECTOR_SIZE - (f.Position % SECTOR_SIZE)
<1>1. f.Position \in Nat /\ SECTOR_SIZE \in Nat \ {0}
  BY VolumeConstants DEF FileData
<1> QED BY <1>1 DEF SectorIndex, LeftInBuffer

\* A link that is in the table is a cluster number, or an end mark.
LEMMA NextSectorType ==
  ASSUME NEW f \in FileData, NEW take, take = LeftInBuffer(f), ~LeavesTable(f, take)
  PROVE  /\ NextSector(f.Handle, f) \in FileData
         /\ NextSector(f.Handle, f).Handle = f.Handle
         /\ NextSector(f.Handle, f).IsDirectory = f.IsDirectory
         /\ NextSector(f.Handle, f).Size = f.Size
         /\ NextSector(f.Handle, f).Position = f.Position
<1> DEFINE g == NextSector(f.Handle, f)
<1>1. /\ f.CurrentCluster \in Nat /\ f.CurrentSectorInCluster \in Nat
      /\ SectorsPerCluster \in Nat
  BY VolumeConstants DEF FileData
<1>2. CASE f.Handle = ROOT
  <2>1. g = [f EXCEPT !.CurrentCluster = @ + 1]
    BY <1>2 DEF NextSector
  <2> QED BY <1>1, <2>1 DEF FileData
<1>3. CASE f.Handle # ROOT /\ f.CurrentSectorInCluster + 1 < SectorsPerCluster
  <2>1. g = [f EXCEPT !.CurrentSectorInCluster = @ + 1]
    BY <1>3 DEF NextSector
  <2> QED BY <1>1, <2>1 DEF FileData
<1>4. CASE f.Handle # ROOT /\ ~(f.CurrentSectorInCluster + 1 < SectorsPerCluster)
  <2>1. f.CurrentCluster \in DOMAIN Fat
    BY <1>1, <1>4 DEF LeavesTable
  <2> DEFINE x == FAT_NextCluster(f.CurrentCluster)
  <2>2. x \in Nat
    <3>1. x = Fat[f.CurrentCluster]
      BY <2>1, NextClusterIsLink
    <3>2. Fat \in [DOMAIN Fat -> Entry12]
      BY ChainAssumption
    <3>3. Entry12 \subseteq Nat
      BY DEF Entry12
    <3> QED BY <2>1, <3>1, <3>2, <3>3
  <2> DEFINE d == [f EXCEPT !.CurrentSectorInCluster = 0, !.CurrentCluster = x]
  <2>3. g = d
    BY <1>4 DEF NextSector
  <2> HIDE DEF x
  <2>4. /\ d \in FileData /\ d.Handle = f.Handle /\ d.IsDirectory = f.IsDirectory
        /\ d.Size = f.Size /\ d.Position = f.Position
    BY <2>2 DEF FileData
  <2> HIDE DEF d
  <2> QED BY <2>3, <2>4
<1> QED BY <1>2, <1>3, <1>4

LEMMA AdvancedType ==
  ASSUME NEW f \in FileData, NEW take \in 1 .. LeftInBuffer(f), ~LeavesTable(f, take)
  PROVE  /\ Advanced(f, take) \in FileData
         /\ Advanced(f, take).Handle = f.Handle
<1> DEFINE p == (f.Position + take) % POSITION_RANGE
           e == [f EXCEPT !.Position = p]
           g == NextSector(e.Handle, e)
           h == Next1(e)
           lba == SectorUnderCursor(f.Handle, h) % LBA_RANGE
<1>1. p \in Nat
  <2>1. f.Position + take \in Nat /\ POSITION_RANGE \in Nat \ {0}
    BY LeftFacts, HostConstants
  <2> QED BY <2>1
<1>2. /\ e \in FileData /\ e.Handle = f.Handle
      /\ e.CurrentCluster = f.CurrentCluster
      /\ e.CurrentSectorInCluster = f.CurrentSectorInCluster
  <2> HIDE DEF p
  <2> QED BY <1>1 DEF FileData
<1>3. CASE take < LeftInBuffer(f)
  BY <1>2, <1>3 DEF Advanced
<1>4. CASE take = LeftInBuffer(f)
  <2> HIDE DEF e
  <2>1. g \in FileData /\ g.Handle = f.Handle
    <3>1. ~LeavesTable(e, LeftInBuffer(e))
      BY <1>2, <1>4 DEF LeavesTable
    <3> QED BY <1>2, <3>1, NextSectorType
  <2>2. h \in FileData /\ h.Handle = f.Handle
    <3> DEFINE x == IF e.Handle = ROOT THEN g.CurrentCluster % LBA_RANGE
                    ELSE g.CurrentCluster
    <3>1. x \in Nat
      <4>1. g.CurrentCluster \in Nat
        BY <2>1 DEF FileData
      <4> QED BY <4>1, InRange, HostConstants
    <3>2. h = [g EXCEPT !.CurrentCluster = x]
      BY DEF Next1
    <3> HIDE DEF x, g
    <3> QED BY <2>1, <3>1, <3>2 DEF FileData
  <2> HIDE DEF h, g
  <2>3. lba \in 0 .. LBA_RANGE - 1
    <3>1. h.CurrentCluster \in Nat /\ h.CurrentSectorInCluster \in Nat
      BY <2>2 DEF FileData
    <3>2. SectorsPerCluster \in Nat /\ DataSectionLba \in Nat
      BY VolumeConstants
    <3>3. FAT_ClusterToLba(h.CurrentCluster) \in Int
      BY <3>1, <3>2 DEF FAT_ClusterToLba
    <3>4. SectorUnderCursor(f.Handle, h) \in Int
      BY <3>1, <3>3 DEF SectorUnderCursor
    <3> QED BY <3>4, InRange
  <2> HIDE DEF lba
  <2>4. ~(take < LeftInBuffer(f))
    BY <1>4, LeftFacts
  <2>5. Advanced(f, take) =
          IF f.Handle # ROOT /\ h.CurrentCluster >= EndOfChain
          THEN [h EXCEPT !.Size = h.Position]
          ELSE IF InImage(lba) THEN [h EXCEPT !.Buffer = lba] ELSE h
    BY <2>4 DEF Advanced, h, e, lba
  <2>6. h.Position \in Nat
    BY <2>2 DEF FileData
  <2>7. /\ [h EXCEPT !.Size = h.Position] \in FileData
        /\ [h EXCEPT !.Size = h.Position].Handle = f.Handle
    BY <2>2, <2>6 DEF FileData
  <2>8. /\ [h EXCEPT !.Buffer = lba] \in FileData
        /\ [h EXCEPT !.Buffer = lba].Handle = f.Handle
    BY <2>2, <2>3 DEF FileData
  <2> QED BY <2>2, <2>5, <2>7, <2>8
<1> QED BY <1>3, <1>4, LeftFacts

\* The cursor of a file on its chain, moved on: to the next sector, or to the end
\* mark behind the last one.
LEMMA NextOnChain ==
  ASSUME NEW f \in FileData, f.Handle = 0, FollowsChain(f),
         SectorIndex(f) < ChainSectors(f.FirstCluster),
         NEW e \in FileData, e.Handle = 0,
         e.CurrentCluster = f.CurrentCluster,
         e.CurrentSectorInCluster = f.CurrentSectorInCluster
  PROVE  LET c == f.FirstCluster
             n == SectorIndex(f) + 1
             h == Next1(e)
         IN /\ f.CurrentCluster \in DOMAIN Fat
            /\ h \in FileData /\ h.Handle = 0 /\ h.IsDirectory = e.IsDirectory
            /\ h.Position = e.Position /\ h.Size = e.Size /\ h.Buffer = e.Buffer
            /\ h.FirstCluster = e.FirstCluster
            /\ \/ /\ n < ChainSectors(c) /\ h.CurrentCluster < EndOfChain
                  /\ h.CurrentCluster = Chain[c][n \div SectorsPerCluster + 1]
                  /\ h.CurrentSectorInCluster = n % SectorsPerCluster
                  /\ SectorUnderCursor(0, h) = SectorOfChain(c, n)
               \/ /\ n = ChainSectors(c) /\ h.CurrentCluster >= EndOfChain
                  /\ h.CurrentSectorInCluster = 0
<1> DEFINE c == f.FirstCluster
           n == SectorIndex(f)
           q == n \div SectorsPerCluster
           r == n % SectorsPerCluster
           x == IF r + 1 < SectorsPerCluster THEN Chain[c][q + 1] ELSE Fat[Chain[c][q + 1]]
           y == IF r + 1 < SectorsPerCluster THEN r + 1 ELSE 0
           d == NextSector(0, e)
           h == Next1(e)
<1>1. c \in DOMAIN Chain /\ n \in Nat /\ n < ChainSectors(c)
  BY LeftFacts DEF FollowsChain
<1>2. f.CurrentCluster = Chain[c][q + 1] /\ f.CurrentSectorInCluster = r
  BY <1>1 DEF FollowsChain
<1>3. /\ q \in 0 .. Len(Chain[c]) - 1 /\ r \in 0 .. SectorsPerCluster - 1
      /\ r + 1 < SectorsPerCluster =>
           /\ (n + 1) \div SectorsPerCluster = q
           /\ (n + 1) % SectorsPerCluster = r + 1
           /\ n + 1 < ChainSectors(c)
      /\ r + 1 >= SectorsPerCluster /\ q + 1 < Len(Chain[c]) =>
           /\ (n + 1) \div SectorsPerCluster = q + 1
           /\ (n + 1) % SectorsPerCluster = 0
           /\ n + 1 < ChainSectors(c)
           /\ Fat[Chain[c][q + 1]] = Chain[c][q + 2]
      /\ r + 1 >= SectorsPerCluster /\ q + 1 >= Len(Chain[c]) =>
           /\ n + 1 = ChainSectors(c)
           /\ Fat[Chain[c][q + 1]] >= EndOfChain
  BY <1>1, ChainStep
<1>4. Len(Chain[c]) \in Nat /\ \A k \in 1 .. Len(Chain[c]) :
        /\ Chain[c][k] \in DOMAIN Fat
        /\ Chain[c][k] \in Nat /\ Chain[c][k] < EndOfChain
        /\ Fat[Chain[c][k]] \in Nat
  BY <1>1, ChainFacts
<1> HIDE DEF c, n, q, r
<1>5. q + 1 \in 1 .. Len(Chain[c]) /\ SectorsPerCluster \in Nat /\ r \in Nat
  BY <1>3, <1>4, VolumeConstants
<1>6. /\ Chain[c][q + 1] \in DOMAIN Fat /\ Chain[c][q + 1] \in Nat
      /\ Fat[Chain[c][q + 1]] \in Nat /\ Chain[c][q + 1] < EndOfChain
  BY <1>4, <1>5
<1>7. FAT_NextCluster(Chain[c][q + 1]) = Fat[Chain[c][q + 1]]
  BY <1>6, NextClusterIsLink
<1>8. x \in Nat /\ y \in Nat
  BY <1>5, <1>6
<1>9. /\ d \in FileData /\ d.Handle = 0 /\ d.IsDirectory = e.IsDirectory
      /\ d.Position = e.Position /\ d.Size = e.Size /\ d.Buffer = e.Buffer
      /\ d.FirstCluster = e.FirstCluster /\ d.CurrentSectorInCluster = y
      /\ d.CurrentCluster = x
  <2>1. CASE r + 1 < SectorsPerCluster
    <3>1. y = r + 1 /\ x = e.CurrentCluster
      BY <1>2, <2>1
    <3>2. d = [e EXCEPT !.CurrentSectorInCluster = @ + 1]
      BY <1>2, <2>1 DEF NextSector, ROOT
    <3> HIDE DEF x, y, d
    <3> QED BY <1>2, <1>8, <3>1, <3>2 DEF FileData
  <2>2. CASE ~(r + 1 < SectorsPerCluster)
    <3>1. y = 0 /\ x = FAT_NextCluster(e.CurrentCluster)
      BY <1>2, <1>7, <2>2
    <3>2. d = [e EXCEPT !.CurrentSectorInCluster = 0,
                        !.CurrentCluster = FAT_NextCluster(@)]
      BY <1>2, <2>2 DEF NextSector, ROOT
    <3>3. d = [e EXCEPT !.CurrentSectorInCluster = 0, !.CurrentCluster = x]
      <4> HIDE DEF x, y, d
      <4> QED BY <3>1, <3>2
    <3> HIDE DEF x, y, d
    <3> QED BY <1>8, <3>1, <3>3 DEF FileData
  <2> QED BY <2>1, <2>2
<1> HIDE DEF x, y
<1>10. h = [d EXCEPT !.CurrentCluster = x]
  <2> HIDE DEF d
  <2> QED BY <1>9 DEF Next1, ROOT, h, d
<1> HIDE DEF d, h
<1>11. /\ h \in FileData /\ h.Handle = 0 /\ h.IsDirectory = e.IsDirectory
       /\ h.Position = e.Position /\ h.Size = e.Size /\ h.Buffer = e.Buffer
       /\ h.FirstCluster = e.FirstCluster /\ h.CurrentSectorInCluster = y
       /\ h.CurrentCluster = x
  BY <1>8, <1>9, <1>10 DEF FileData
<1>12. SectorUnderCursor(0, h) = FAT_ClusterToLba(x) + y
  BY <1>11 DEF SectorUnderCursor, ROOT
<1>13. CASE r + 1 < SectorsPerCluster
  <2>1. x = Chain[c][q + 1] /\ y = r + 1
    BY <1>13 DEF x, y
  <2>2. SectorUnderCursor(0, h) = SectorOfChain(c, n + 1)
    BY <1>3, <1>12, <1>13, <2>1 DEF SectorOfChain, FAT_ClusterToLba
  <2> QED BY <1>2, <1>3, <1>6, <1>11, <1>13, <2>1, <2>2 DEF c, n, h
<1>14. CASE ~(r + 1 < SectorsPerCluster) /\ q + 1 < Len(Chain[c])
  <2>1. x = Chain[c][q + 2] /\ y = 0 /\ r + 1 >= SectorsPerCluster
    BY <1>3, <1>5, <1>14 DEF x, y
  <2>2. x < EndOfChain
    <3>1. q + 2 \in 1 .. Len(Chain[c])
      BY <1>3, <1>4, <1>14
    <3> QED BY <1>4, <2>1, <3>1
  <2>3. (q + 1) + 1 = q + 2
    BY <1>3, <1>4
  <2>4. SectorUnderCursor(0, h) = SectorOfChain(c, n + 1)
    BY <1>3, <1>12, <1>14, <2>1, <2>3 DEF SectorOfChain, FAT_ClusterToLba
  <2>5. /\ n + 1 < ChainSectors(c)
        /\ x = Chain[c][(n + 1) \div SectorsPerCluster + 1]
        /\ y = (n + 1) % SectorsPerCluster
    BY <1>3, <1>14, <2>1, <2>3
  <2> QED BY <1>2, <1>6, <1>11, <2>2, <2>4, <2>5 DEF c, n, h
<1>15. CASE ~(r + 1 < SectorsPerCluster) /\ ~(q + 1 < Len(Chain[c]))
  <2>1. /\ x = Fat[Chain[c][q + 1]] /\ y = 0
        /\ r + 1 >= SectorsPerCluster /\ q + 1 >= Len(Chain[c])
    BY <1>3, <1>4, <1>5, <1>15 DEF x, y
  <2>2. n + 1 = ChainSectors(c) /\ x >= EndOfChain
    BY <1>3, <2>1
  <2> QED BY <1>2, <1>6, <1>11, <2>1, <2>2 DEF c, n, h
<1> QED BY <1>13, <1>14, <1>15

\* An iteration of the copy loop leaves the cursor at the position it has come to.
LEMMA AdvancedOnChain ==
  ASSUME NEW f \in FileData, f.Handle = 0, ~f.IsDirectory, FollowsChain(f),
         SectorIndex(f) < ChainSectors(f.FirstCluster), Buffers(f),
         f.Size < POSITION_RANGE,
         NEW take \in 1 .. LeftInBuffer(f), f.Position + take <= f.Size
  PROVE  LET a == Advanced(f, take) IN
         /\ a \in FileData /\ a.Handle = 0 /\ ~a.IsDirectory
         /\ FollowsChain(a) /\ Buffers(a) /\ a.Size < POSITION_RANGE
         /\ a.Position = f.Position + take /\ a.Position <= a.Size
         /\ a.FirstCluster = f.FirstCluster
         /\ \/ a.Size = f.Size
            \/ /\ a.Size = a.Position
               /\ a.Position = ChainSectors(f.FirstCluster) * SECTOR_SIZE
         /\ ~Broken(f, take) => a.Size = f.Size
<1> DEFINE c == f.FirstCluster
           n == SectorIndex(f)
           p == f.Position + take
           e == [f EXCEPT !.Position = (@ + take) % POSITION_RANGE]
           h == Next1(e)
           lba == SectorUnderCursor(f.Handle, h) % LBA_RANGE
           a == Advanced(f, take)
<1>1. /\ p \in Nat /\ f.Size \in Nat /\ f.Position \in Nat
      /\ (f.Position + take) % POSITION_RANGE = p /\ p <= f.Size
      /\ n \in Nat /\ n < ChainSectors(c) /\ c \in DOMAIN Chain
      /\ take <= LeftInBuffer(f) /\ LeftInBuffer(f) \in Nat /\ take \in Nat
  <2>1. f.Size \in Nat
    BY DEF FileData
  <2>2. f.Position \in Nat /\ LeftInBuffer(f) \in 1 .. SECTOR_SIZE
        /\ SECTOR_SIZE \in Nat /\ n \in Nat
    BY LeftFacts, VolumeConstants
  <2>3. p \in Nat /\ p < POSITION_RANGE /\ POSITION_RANGE \in Nat
    BY <2>1, <2>2, HostConstants
  <2> QED BY <2>1, <2>2, <2>3, NoWrap DEF FollowsChain
<1> HIDE DEF p
<1>2. /\ e \in FileData /\ e.Handle = 0 /\ ~e.IsDirectory /\ e.Position = p
      /\ e.Size = f.Size /\ e.FirstCluster = c /\ e.Buffer = f.Buffer
      /\ e.CurrentCluster = f.CurrentCluster
      /\ e.CurrentSectorInCluster = f.CurrentSectorInCluster
  <2>1. e = [f EXCEPT !.Position = p]
    BY <1>1
  <2> HIDE DEF e
  <2> QED BY <1>1, <2>1 DEF FileData
<1>3. e.Position = f.Position + take
  BY <1>2 DEF p
<1> HIDE DEF e
<1>4. CASE take < LeftInBuffer(f)
  <2>1. a = e
    BY <1>4 DEF Advanced, e
  <2>2. SectorIndex(e) = n
    BY <1>1, <1>3, <1>4, PositionStep
  <2>3. FollowsChain(e)
    BY <1>1, <1>2, <2>2 DEF FollowsChain
  <2>4. Buffers(e)
    BY <1>2, <2>2 DEF Buffers
  <2> QED BY <1>1, <1>2, <2>1, <2>3, <2>4 DEF p
<1>5. CASE take = LeftInBuffer(f)
  <2>1. SectorIndex(e) = n + 1 /\ p = (n + 1) * SECTOR_SIZE
    BY <1>1, <1>2, <1>3, <1>5, PositionStep
  <2>2. /\ h \in FileData /\ h.Handle = 0 /\ h.IsDirectory = e.IsDirectory
        /\ h.Position = e.Position /\ h.Size = e.Size
        /\ h.FirstCluster = e.FirstCluster
        /\ \/ /\ n + 1 < ChainSectors(c) /\ h.CurrentCluster < EndOfChain
              /\ h.CurrentCluster = Chain[c][(n + 1) \div SectorsPerCluster + 1]
              /\ h.CurrentSectorInCluster = (n + 1) % SectorsPerCluster
              /\ SectorUnderCursor(0, h) = SectorOfChain(c, n + 1)
           \/ /\ n + 1 = ChainSectors(c) /\ h.CurrentCluster >= EndOfChain
              /\ h.CurrentSectorInCluster = 0
    BY <1>2, NextOnChain
  <2>3. n + 1 = ChainSectors(c) <=> Next1(f).CurrentCluster >= EndOfChain
    <3>1. \/ n + 1 < ChainSectors(c) /\ Next1(f).CurrentCluster < EndOfChain
          \/ n + 1 = ChainSectors(c) /\ Next1(f).CurrentCluster >= EndOfChain
      BY NextOnChain
    <3>2. /\ ChainSectors(c) \in Nat /\ EndOfChain \in Nat
          /\ Next1(f).CurrentCluster \in Nat
      <4>1. Next1(f) \in FileData
        BY NextOnChain
      <4> QED BY <1>1, <4>1, ChainFacts, VolumeConstants DEF FileData
    <3> QED BY <1>1, <3>1, <3>2
  <2>h. h.CurrentCluster \in Nat /\ EndOfChain \in Nat /\ ChainSectors(c) \in Nat
    BY <1>1, <2>2, ChainFacts, VolumeConstants DEF FileData
  <2>4. a = IF h.CurrentCluster >= EndOfChain
            THEN [h EXCEPT !.Size = h.Position]
            ELSE IF InImage(lba) THEN [h EXCEPT !.Buffer = lba] ELSE h
    <3>1. ~(take < LeftInBuffer(f)) /\ f.Handle # ROOT
      BY <1>1, <1>5 DEF ROOT
    <3> QED BY <3>1 DEF Advanced, e
  <2>5. SectorIndex(h) = n + 1 /\ h.Position = p
    BY <1>2, <2>1, <2>2 DEF SectorIndex
  <2> HIDE DEF a, h
  <2>6. CASE h.CurrentCluster >= EndOfChain
    <3>1. a = [h EXCEPT !.Size = p]
      BY <2>4, <2>5, <2>6
    <3>2. /\ a \in FileData /\ a.Handle = 0 /\ ~a.IsDirectory
          /\ a.Position = p /\ a.Size = p /\ a.FirstCluster = c
          /\ a.CurrentCluster = h.CurrentCluster /\ a.CurrentSectorInCluster = 0
      BY <1>1, <1>2, <2>h, <2>2, <2>5, <2>6, <3>1 DEF FileData
    <3>3. SectorIndex(a) = n + 1 /\ n + 1 = ChainSectors(c)
      BY <2>h, <2>2, <2>5, <2>6, <3>2 DEF SectorIndex
    <3>4. FollowsChain(a) /\ Buffers(a)
      BY <1>1, <2>1, <2>h, <2>6, <3>2, <3>3 DEF FollowsChain, Buffers
    <3>5. Broken(f, take)
      BY <1>5, <2>3, <3>3 DEF Broken, ROOT
    <3>6. p < POSITION_RANGE
      BY <1>1, HostConstants
    <3> HIDE DEF n, c
    <3>7. a.Size = a.Position /\ a.Position = ChainSectors(c) * SECTOR_SIZE
      BY <2>1, <3>2, <3>3
    <3> QED BY <1>1, <3>2, <3>4, <3>5, <3>6, <3>7 DEF a, p, n, c
  <2>7. CASE ~(h.CurrentCluster >= EndOfChain)
    <3>1. /\ n + 1 < ChainSectors(c)
          /\ h.CurrentCluster = Chain[c][(n + 1) \div SectorsPerCluster + 1]
          /\ h.CurrentSectorInCluster = (n + 1) % SectorsPerCluster
          /\ SectorUnderCursor(0, h) = SectorOfChain(c, n + 1)
      BY <2>2, <2>7
    <3>2. SectorOfChain(c, n + 1) \in 0 .. LBA_RANGE - 1
      <4>1. n + 1 \in 0 .. ChainSectors(c) - 1
        BY <1>1, <2>h, <3>1
      <4>2. SectorOfChain(c, n + 1) \in 0 .. VolumeSectors - 1
        BY <1>1, <4>1, HostAssumption
      <4> QED BY <4>2, HostConstants
    <3>3. lba = SectorOfChain(c, n + 1)
      BY <3>1, <3>2, NoWrap
    <3>4. a = IF InImage(lba) THEN [h EXCEPT !.Buffer = lba] ELSE h
      BY <2>4, <2>7
    <3> HIDE DEF lba
    <3>5. /\ a \in FileData /\ a.Handle = 0 /\ ~a.IsDirectory
          /\ a.Position = p /\ a.Size = f.Size /\ a.FirstCluster = c
          /\ a.CurrentCluster = h.CurrentCluster
          /\ a.CurrentSectorInCluster = h.CurrentSectorInCluster
          /\ a.Buffer = lba \/ ~InImage(lba)
      BY <1>2, <2>2, <2>5, <3>2, <3>3, <3>4 DEF FileData
    <3>6. SectorIndex(a) = n + 1
      BY <2>5, <3>5 DEF SectorIndex
    <3>7. FollowsChain(a)
      BY <1>1, <2>h, <3>1, <3>5, <3>6 DEF FollowsChain
    <3>8. Buffers(a)
      BY <3>3, <3>5, <3>6 DEF Buffers
    <3> QED BY <1>1, <3>5, <3>7, <3>8 DEF a, p
  <2> QED BY <2>6, <2>7
<1> QED BY <1>1, <1>4, <1>5

-----------------------------------------------------------------------------
(* The program, action by action.                                          *)

\* A name that stays in the buffer's bounds is eleven characters.
LEMMA NameType ==
  ASSUME NEW b \in Buffer, NEW c \in Component
  PROVE  Extracted(b, c) \in Buffer /\ HostConverted(Extracted(b, c)) \in FatNames
<1> DEFINE e == Extracted(b, c)
           z == Len(c) + 1
           dot == DotAt(e)
           G(k) == IF k < 8
                   THEN IF k < dot /\ \A j \in 0 .. k : e[j] # NUL THEN toupper(e[k]) ELSE SPACE
                   ELSE IF \A j \in 1 .. k - 7 : e[dot + j] # NUL
                        THEN toupper(e[dot + k - 7]) ELSE SPACE
<1>1. e \in Buffer
  BY ExtractedHolds
<1>2. /\ z \in 1 .. NAME_SIZE - 2 /\ NAME_SIZE \in Nat /\ NAME_SIZE >= 15
      /\ DOMAIN e = 0 .. NAME_SIZE - 1 /\ e[z] = NUL
  <2>1. Len(c) \in 0 .. NAME_SIZE - 3 /\ DOMAIN b = 0 .. NAME_SIZE - 1
    BY DEF Component, Buffer
  <2> QED BY <2>1, NameSizeAssumption DEF Extracted
<1> HIDE DEF e, z
<1>3. \A k \in 0 .. NAME_SIZE - 1 : e[k] \in Char
  BY <1>1 DEF Buffer
<1>4. \A k \in Char : toupper(k) \in Char
  BY DEF toupper, islower, Char
<1>5. SPACE \in Char
  BY DEF SPACE, Char
<1>6. ASSUME FirstDot(e) = {} PROVE \A k \in 0 .. 10 : G(k) \in Char
  <2>1. dot = 11
    BY <1>6 DEF DotAt
  <2> HIDE DEF dot
  <2>2. ASSUME NEW k \in 0 .. 10 PROVE G(k) \in Char
    <3>1. k < 8 => k \in 0 .. NAME_SIZE - 1
      BY <1>2
    <3>2. ~(k < 8) => dot + k - 7 \in 0 .. NAME_SIZE - 1
      BY <1>2, <2>1
    <3> QED BY <1>3, <1>4, <1>5, <3>1, <3>2
  <2> HIDE DEF G
  <2> QED BY <2>2
<1>7. ASSUME FirstDot(e) # {} PROVE \A k \in 0 .. 10 : G(k) \in Char
  <2>1. dot \in FirstDot(e)
    BY <1>7 DEF DotAt
  <2> HIDE DEF dot
  <2>2. /\ dot \in 0 .. NAME_SIZE - 1 /\ e[dot] = DOT
        /\ \A j \in 0 .. dot - 1 : e[j] # NUL
    BY <1>2, <2>1 DEF FirstDot
  <2>3. dot < z
    <3>1. dot # z
      BY <1>2, <2>2 DEF DOT, NUL
    <3>2. ~(z \in 0 .. dot - 1)
      BY <1>2, <2>2
    <3> QED BY <1>2, <2>2, <3>1, <3>2
  <2>4. ASSUME NEW k \in 0 .. 10 PROVE G(k) \in Char
    <3>1. k < 8 => k \in 0 .. NAME_SIZE - 1
      BY <1>2
    <3>2. CASE ~(k < 8) /\ dot + k - 7 < z
      <4>1. dot + k - 7 \in 0 .. NAME_SIZE - 1
        BY <1>2, <2>2, <3>2
      <4> QED BY <1>3, <1>4, <1>5, <3>2, <4>1
    <3>3. CASE ~(k < 8) /\ ~(dot + k - 7 < z)
      <4>1. z - dot \in 1 .. k - 7 /\ dot + (z - dot) = z
        BY <1>2, <2>2, <2>3, <3>3
      <4>2. ~ \A j \in 1 .. k - 7 : e[dot + j] # NUL
        BY <1>2, <4>1
      <4> QED BY <1>5, <3>3, <4>2
    <3> QED BY <1>3, <1>4, <1>5, <3>1, <3>2, <3>3
  <2> HIDE DEF G
  <2> QED BY <2>4
<1>8. \A k \in 0 .. 10 : G(k) \in Char
  <2> HIDE DEF G
  <2> QED BY <1>6, <1>7
<1>9. HostConverted(e) = [k \in 0 .. 10 |-> G(k)]
  BY DEF HostConverted, Filled
<1> HIDE DEF G
<1>10. HostConverted(e) \in FatNames
  BY <1>8, <1>9 DEF FatNames
<1> QED BY <1>1, <1>10 DEF e

\* A file is opened at its beginning, on the chain its entry names.
LEMMA EntryFileOpens ==
  ASSUME NEW e \in EntryRecord, Openable(e), NEW f, f = EntryFile(e, FirstLba(e))
  PROVE  /\ f \in FileData /\ f.Handle = 0 /\ f.IsDirectory = e.IsDirectory
         /\ f.Size < POSITION_RANGE
         /\ ~f.IsDirectory => IsEmptyFile(f) \/ (FollowsChain(f) /\ Buffers(f))
<1> DEFINE c == e.FirstCluster
           lba == FirstLba(e)
<1>1. e.Size \in Nat /\ c \in Nat /\ e.IsDirectory \in BOOLEAN
  BY DEF EntryRecord
<1>2. lba \in 0 .. LBA_RANGE - 1
  <2>1. FAT_ClusterToLba(c) \in Int
    BY <1>1, VolumeConstants DEF FAT_ClusterToLba
  <2> QED BY <2>1, InRange DEF FirstLba
<1> HIDE DEF lba
<1>3. /\ f.Handle = 0 /\ f.IsDirectory = e.IsDirectory /\ f.Position = 0
      /\ f.Size = e.Size /\ f.FirstCluster = c /\ f.CurrentCluster = c
      /\ f.CurrentSectorInCluster = 0 /\ f.Buffer = lba
  BY DEF EntryFile, lba
<1>4. f \in FileData
  BY <1>1, <1>2 DEF EntryFile, FileData, lba
<1>5. CASE e.Size = 0 /\ ~e.IsDirectory
  BY <1>3, <1>4, <1>5 DEF Openable, IsEmptyFile
<1>6. CASE c \in DOMAIN Chain
  <2>1. /\ ChainSectors(c) \in Nat \ {0} /\ Chain[c][1] = c
        /\ SectorsPerCluster \in Nat \ {0} /\ SECTOR_SIZE \in Nat \ {0}
    <3>1. Len(Chain[c]) \in Nat \ {0} /\ Chain[c][1] = c
      BY <1>6, ChainFacts
    <3> QED BY <3>1, VolumeConstants DEF ChainSectors
  <2>2. /\ 0 \div SectorsPerCluster = 0 /\ 0 % SectorsPerCluster = 0
        /\ 0 \div SECTOR_SIZE = 0
    BY <2>1
  <2>3. SectorIndex(f) = 0
    BY <1>3, <2>2 DEF SectorIndex
  <2>4. FollowsChain(f)
    BY <1>1, <1>3, <1>6, <2>1, <2>2, <2>3 DEF FollowsChain
  <2>5. SectorOfChain(c, 0) = FAT_ClusterToLba(c)
    BY <1>1, <2>1, <2>2, VolumeConstants DEF SectorOfChain, FAT_ClusterToLba
  <2>6. SectorOfChain(c, 0) \in 0 .. LBA_RANGE - 1
    <3>1. 0 \in 0 .. ChainSectors(c) - 1
      BY <2>1
    <3>2. SectorOfChain(c, 0) \in 0 .. VolumeSectors - 1
      BY <1>6, <3>1, HostAssumption
    <3> QED BY <3>2, HostConstants
  <2>7. lba = SectorOfChain(c, 0)
    BY <2>5, <2>6, NoWrap DEF FirstLba, lba
  <2> QED BY <1>3, <1>4, <2>3, <2>4, <2>7 DEF Openable, Buffers
<1> QED BY <1>5, <1>6 DEF Openable, SoundEntry

LEMMA RootFileType ==
  RootFile \in FileData /\ RootFile.IsDirectory /\ NULL \notin FileData
BY HostConstants, VolumeConstants, HostAssumption DEF RootFile, FileData

LEMMA InitHolds == Init => HostInv
<1> SUFFICES ASSUME Init PROVE HostInv
  OBVIOUS
<1>1. NoEntry.Name \in FatNames
  <2>1. <<>> \in Component
    BY NameSizeAssumption DEF Component
  <2>2. IsStem(<<>>, 0) /\ 0 \in 0 .. Len(<<>>)
    BY DEF IsStem
  <2>3. Stem(<<>>) = 0
    <3>1. <<>> \in Seq(Char)
      OBVIOUS
    <3> QED BY <2>2, <3>1, StemUnique
  <2>4. SPACE \in Char
    BY DEF SPACE, Char
  <2> QED BY <2>3, <2>4 DEF NoEntry, EightDotThree, FatNames
<1>2. NoEntry \in EntryRecord
  BY <1>1, HostConstants DEF NoEntry, EntryRecord
<1>3. TypeOK
  <2>1. path \in Seq(Component) /\ out \in Seq((0 .. LBA_RANGE - 1) \X (0 .. SECTOR_SIZE - 1))
    BY DEF Init
  <2>2. name \in Buffer /\ fatName \in Name /\ entry \in EntryRecord
    BY <1>1, <1>2, HostConstants, HostAssumption DEF Init
  <2>3. want \in 0 .. ReadSize /\ i \in 0 .. ListMax + 1
    BY HostConstants DEF Init
  <2> QED BY <2>1, <2>2, <2>3 DEF Init, TypeOK
<1>4. CallState
  BY HostConstants DEF Init, CallState
<1>5. FileUnderCursor /\ MisspeltOnlyShort
  BY DEF Init, FileUnderCursor, MisspeltOnlyShort
<1> QED BY <1>3, <1>4, <1>5 DEF HostInv

LEMMA InitializeHolds == HostInv /\ FAT_Initialize => HostInv'
<1> SUFFICES ASSUME HostInv, FAT_Initialize PROVE HostInv'
  OBVIOUS
<1> USE DEF HostInv, FAT_Initialize
<1>1. TypeOK'
  <2>1. fd' \in FileData \cup {NULL} /\ pc' \in {"open", "failed"}
    BY RootFileType DEF TypeOK
  <2>2. path' \in Seq(Component) \cup {NULL}
    BY HostAssumption DEF TypeOK
  <2> QED BY <2>1, <2>2 DEF TypeOK
<1>2. CallState'
  BY RootFileType DEF CallState, TypeOK
<1>3. FileUnderCursor' /\ MisspeltOnlyShort'
  BY DEF FileUnderCursor, MisspeltOnlyShort
<1> QED BY <1>1, <1>2, <1>3

\* A name that is not the component's own: the component has no full extension.
LEMMA OpenComponentHolds == HostInv /\ OpenComponent => HostInv'
<1> SUFFICES ASSUME HostInv, OpenComponent PROVE HostInv'
  OBVIOUS
<1> USE DEF HostInv, OpenComponent
<1>1. path \in Seq(Component) /\ path # <<>> /\ name \in Buffer
  BY DEF TypeOK
<1>2. Head(path) \in Component /\ Tail(path) \in Seq(Component) /\ Head(path) = path[1]
      /\ 1 \in DOMAIN path /\ \A k \in DOMAIN Tail(path) :
           k + 1 \in DOMAIN path /\ Tail(path)[k] = path[k + 1]
  BY <1>1
<1>3. name' \in Buffer /\ fatName' \in Name
  BY <1>1, <1>2, NameType, HostConstants
<1>4. misspelt' \in BOOLEAN
  BY DEF TypeOK
<1>5. TypeOK'
  BY <1>2, <1>3, <1>4 DEF TypeOK
<1>6. CallState'
  BY <1>1, <1>2, HostAssumption DEF CallState, TypeOK
<1>7. FileUnderCursor'
  BY DEF FileUnderCursor
<1>8. MisspeltOnlyShort'
  <2>1. CASE misspelt
    BY <2>1 DEF MisspeltOnlyShort
  <2>2. CASE fatName' # EightDotThree(Head(path))
    <3>1. ~(Proper(Head(path)) /\ FullExtension(Head(path)))
      BY <1>1, <1>2, <2>2, ComponentSpelled
    <3>2. \E j \in DOMAIN argument : Head(path) = argument[j]
      BY <1>1, <1>2, HostAssumption DEF CallState
    <3> QED BY <3>1, <3>2 DEF MisspeltOnlyShort
  <2>3. CASE ~misspelt /\ fatName' = EightDotThree(Head(path))
    BY <2>3 DEF MisspeltOnlyShort, TypeOK
  <2> QED BY <2>1, <2>2, <2>3
<1> QED BY <1>5, <1>6, <1>7, <1>8

LEMMA OpenedHolds == HostInv /\ Opened => HostInv'
<1> SUFFICES ASSUME HostInv, Opened PROVE HostInv'
  OBVIOUS
<1> USE DEF HostInv, Opened, lookupVars
<1>1. fd \in FileData /\ entry \in EntryRecord /\ want = 0
  BY HostConstants DEF TypeOK, CallState
<1>2. fd = RootFile \/ (Openable(entry) /\ fd = EntryFile(entry, FirstLba(entry)))
  BY DEF CallState
<1>3. ~fd.IsDirectory =>
        /\ fd.Handle = 0 /\ fd.Size < POSITION_RANGE
        /\ IsEmptyFile(fd) \/ (FollowsChain(fd) /\ Buffers(fd) /\ fd.Position <= fd.Size)
  <2>1. ASSUME ~fd.IsDirectory
        PROVE /\ fd.Handle = 0 /\ fd.Size < POSITION_RANGE
              /\ IsEmptyFile(fd) \/ (FollowsChain(fd) /\ Buffers(fd))
    <3>1. Openable(entry) /\ fd = EntryFile(entry, FirstLba(entry))
      BY <1>2, <2>1, RootFileType
    <3> QED BY <1>1, <2>1, <3>1, EntryFileOpens
  <2>2. fd.Position = 0 \/ fd = RootFile
    BY <1>2 DEF EntryFile
  <2>3. fd.Size \in Nat
    BY <1>1 DEF FileData
  <2> QED BY <2>1, <2>2, <2>3, RootFileType
<1>4. TypeOK'
  BY DEF TypeOK
<1>5. CallState'
  BY <1>1, <1>3 DEF CallState, TypeOK
<1>6. FileUnderCursor'
  <2>1. ASSUME ~fd.IsDirectory PROVE FileUnderCursor'
    <3>1. fd.Size - fd.Position \in Int /\ (fd.Position <= fd.Size => 0 <= fd.Size - fd.Position)
      BY <1>1 DEF FileData
    <3>2. CASE IsEmptyFile(fd)
      BY <1>1, <3>2 DEF FileUnderCursor, IsEmptyFile
    <3>3. CASE FollowsChain(fd) /\ Buffers(fd) /\ fd.Position <= fd.Size
      BY <1>1, <3>1, <3>3 DEF FileUnderCursor, Buffers, InImage, SectorIndex, FollowsChain
    <3> QED BY <1>3, <2>1, <3>2, <3>3
  <2>2. CASE fd.IsDirectory
    BY <2>2 DEF FileUnderCursor
  <2> QED BY <2>1, <2>2
<1>7. MisspeltOnlyShort'
  BY DEF MisspeltOnlyShort
<1> QED BY <1>4, <1>5, <1>6, <1>7

LEMMA SearchStepHolds == HostInv /\ SearchStep => HostInv'
<1> SUFFICES ASSUME HostInv, SearchStep PROVE HostInv'
  OBVIOUS
<1> USE DEF HostInv, SearchStep
<1>1. fd \in FileData /\ fd' \in FileData /\ NULL \notin FileData
  <2>1. fd \in FileData /\ 1 \in 1 .. LeftInBuffer(fd)
    BY LeftFacts, VolumeConstants DEF TypeOK, CallState
  <2> QED BY <2>1, AdvancedType, HostAssumption
<1>2. CASE Matches(EntryAt(fd), fatName)
  <2>1. EntryAt(fd) \in DOMAIN Entry
    BY <1>2 DEF Matches
  <2>2. entry' \in EntryRecord /\ Openable(entry')
    BY <1>2, <2>1, EntryAssumption, HostAssumption DEF Openable
  <2>3. TypeOK'
    BY <1>1, <1>2, <2>2 DEF TypeOK
  <2>4. CallState'
    BY <1>1, <1>2, <2>2 DEF CallState
  <2>5. FileUnderCursor' /\ MisspeltOnlyShort'
    BY <1>2 DEF FileUnderCursor, MisspeltOnlyShort
  <2> QED BY <2>3, <2>4, <2>5
<1>3. CASE ~Matches(EntryAt(fd), fatName)
  <2>1. TypeOK'
    BY <1>1, <1>3 DEF TypeOK
  <2>2. CallState'
    BY <1>1, <1>3 DEF CallState
  <2>3. FileUnderCursor' /\ MisspeltOnlyShort'
    BY <1>3 DEF FileUnderCursor, MisspeltOnlyShort
  <2> QED BY <2>1, <2>2, <2>3
<1> QED BY <1>2, <1>3

LEMMA NotFoundHolds == HostInv /\ NotFound => HostInv'
<1> SUFFICES ASSUME HostInv, NotFound PROVE HostInv'
  OBVIOUS
<1> USE DEF HostInv, NotFound
<1>1. TypeOK'
  <2>1. path' \in Seq(Component)
    OBVIOUS
  <2> QED BY <2>1 DEF TypeOK
<1>2. CallState'
  BY DEF CallState
<1>3. FileUnderCursor' /\ MisspeltOnlyShort'
  BY DEF FileUnderCursor, MisspeltOnlyShort
<1> QED BY <1>1, <1>2, <1>3

LEMMA OpenEntryHolds == HostInv /\ FAT_OpenEntry => HostInv'
<1> SUFFICES ASSUME HostInv, FAT_OpenEntry PROVE HostInv'
  OBVIOUS
<1> USE DEF HostInv, FAT_OpenEntry, lookupVars
<1>1. entry \in EntryRecord /\ Openable(entry)
  BY DEF TypeOK, CallState
<1>2. EntryFile(entry, FirstLba(entry)) \in FileData
  BY <1>1, EntryFileOpens
<1>3. fd' \in FileData \cup {NULL}
  BY <1>2
<1>4. TypeOK'
  BY <1>3 DEF TypeOK
<1>5. CallState'
  <2>1. fd' # NULL => fd' = EntryFile(entry, FirstLba(entry))
    OBVIOUS
  <2>2. EntryFile(entry, FirstLba(entry))' = EntryFile(entry, FirstLba(entry))
        /\ Openable(entry)' <=> Openable(entry)
    BY DEF EntryFile, FirstLba, Openable
  <2> QED BY <1>1, <2>1, <2>2 DEF CallState
<1>6. FileUnderCursor' /\ MisspeltOnlyShort'
  BY DEF FileUnderCursor, MisspeltOnlyShort
<1> QED BY <1>4, <1>5, <1>6

\* What is listed or printed lies in the sector that is in the buffer.
LEMMA UnitsType ==
  ASSUME NEW f \in FileData, NEW take \in 1 .. LeftInBuffer(f)
  PROVE  /\ EntryAt(f) \in (0 .. LBA_RANGE - 1) \X (0 .. SECTOR_SIZE - 1)
         /\ [k \in 1 .. take |-> <<f.Buffer, (f.Position % SECTOR_SIZE) + k - 1>>]
              \in Seq((0 .. LBA_RANGE - 1) \X (0 .. SECTOR_SIZE - 1))
<1> DEFINE r == f.Position % SECTOR_SIZE
<1>1. /\ r \in 0 .. SECTOR_SIZE - 1 /\ take \in Nat /\ SECTOR_SIZE \in Nat
      /\ take <= SECTOR_SIZE - r /\ f.Buffer \in 0 .. LBA_RANGE - 1
  BY LeftFacts, VolumeConstants DEF FileData
<1> HIDE DEF r
<1>2. \A k \in 1 .. take : r + k - 1 \in 0 .. SECTOR_SIZE - 1
  BY <1>1
<1>3. [k \in 1 .. take |-> <<f.Buffer, r + k - 1>>]
        \in [1 .. take -> (0 .. LBA_RANGE - 1) \X (0 .. SECTOR_SIZE - 1)]
  BY <1>1, <1>2
<1> QED BY <1>1, <1>3 DEF EntryAt, r

LEMMA ListHolds == HostInv /\ List => HostInv'
<1> SUFFICES ASSUME HostInv, List PROVE HostInv'
  OBVIOUS
<1> USE DEF HostInv, List, lookupVars
<1>1. fd \in FileData /\ 1 \in 1 .. LeftInBuffer(fd)
  BY LeftFacts, VolumeConstants DEF TypeOK, CallState
<1>2. fd' \in FileData /\ NULL \notin FileData
  BY <1>1, AdvancedType, HostAssumption
<1>3. out' \in Seq((0 .. LBA_RANGE - 1) \X (0 .. SECTOR_SIZE - 1))
  <2>1. EntryAt(fd) \in (0 .. LBA_RANGE - 1) \X (0 .. SECTOR_SIZE - 1)
    BY <1>1, UnitsType
  <2>2. out \in Seq((0 .. LBA_RANGE - 1) \X (0 .. SECTOR_SIZE - 1))
    BY DEF TypeOK
  <2> DEFINE U == (0 .. LBA_RANGE - 1) \X (0 .. SECTOR_SIZE - 1)
             u == EntryAt(fd)
  <2>3. out' = out \/ out' = Append(out, u)
    OBVIOUS
  <2> HIDE DEF U, u
  <2>4. Append(out, u) \in Seq(U)
    BY <2>1, <2>2 DEF U, u
  <2> QED BY <2>2, <2>3, <2>4 DEF U
<1>4. i \in Nat /\ i <= ListMax /\ ListMax \in Nat
  BY HostConstants DEF TypeOK, CallState
<1>5. TypeOK'
  BY <1>2, <1>3, <1>4 DEF TypeOK
<1>6. CallState'
  BY <1>2, <1>4 DEF CallState
<1>7. FileUnderCursor' /\ MisspeltOnlyShort'
  BY DEF FileUnderCursor, MisspeltOnlyShort
<1> QED BY <1>5, <1>6, <1>7

LEMMA ReadHolds == HostInv /\ Read => HostInv'
<1> SUFFICES ASSUME HostInv, Read PROVE HostInv'
  OBVIOUS
<1> USE DEF HostInv, Read, lookupVars
<1>1. /\ fd \in FileData /\ fd.Handle = 0 /\ ~fd.IsDirectory
      /\ ReadSize \in Nat \ {0} /\ fd.Size \in Nat /\ fd.Position \in Nat
  BY HostConstants DEF TypeOK, CallState, FileData
<1>2. IsEmptyFile(fd) \/ (FollowsChain(fd) /\ fd.Position <= fd.Size /\ Buffers(fd))
  <2>1. want \in Nat
    BY HostConstants DEF TypeOK
  <2> QED BY <1>1, <2>1 DEF FileUnderCursor
<1>3. /\ want' \in 0 .. ReadSize /\ want' <= fd.Size - fd.Position
      /\ IsEmptyFile(fd) => want' = 0
  <2>1. fd.Position <= fd.Size
    BY <1>1, <1>2 DEF IsEmptyFile
  <2> QED BY <1>1, <2>1 DEF Bounded, Min2, IsEmptyFile
<1>4. TypeOK'
  BY <1>3 DEF TypeOK
<1>5. CallState'
  BY <1>1, <1>3 DEF CallState
<1>6. FileUnderCursor'
  BY <1>2, <1>3 DEF FileUnderCursor, Buffers, InImage, IsEmptyFile, FollowsChain, SectorIndex
<1>7. MisspeltOnlyShort'
  BY DEF MisspeltOnlyShort
<1> QED BY <1>4, <1>5, <1>6, <1>7

LEMMA CopyHolds == HostInv /\ Copy => HostInv'
<1> SUFFICES ASSUME HostInv, Copy PROVE HostInv'
  OBVIOUS
<1> DEFINE take == Min2(want, LeftInBuffer(fd))
           a == Advanced(fd, take)
<1>1. /\ fd \in FileData /\ fd.Handle = 0 /\ ~fd.IsDirectory /\ fd.Size < POSITION_RANGE
      /\ fd.Size \in Nat /\ fd.Position \in Nat /\ want \in Nat \ {0} /\ want <= ReadSize
      /\ ReadSize \in Nat
  BY HostConstants DEF HostInv, Copy, TypeOK, CallState, FileData
<1>2. FollowsChain(fd) /\ want <= fd.Size - fd.Position /\ Buffers(fd)
  BY <1>1 DEF HostInv, Copy, FileUnderCursor
<1>3. SectorIndex(fd) < ChainSectors(fd.FirstCluster)
  <2>1. SectorIndex(fd) \in Nat /\ ChainSectors(fd.FirstCluster) \in Nat
    BY <1>1, <1>2, LeftFacts, ChainFacts DEF FollowsChain
  <2> QED BY <1>1, <1>2, <2>1 DEF FollowsChain
<1>4. /\ take \in 1 .. LeftInBuffer(fd) /\ take <= want /\ want - take \in Nat
      /\ fd.Position + take <= fd.Size
  <2>1. LeftInBuffer(fd) \in 1 .. SECTOR_SIZE /\ SECTOR_SIZE \in Nat
    BY <1>1, LeftFacts, VolumeConstants
  <2> QED BY <1>1, <1>2, <2>1 DEF Min2
<1> HIDE DEF take
<1>5. /\ a \in FileData /\ a.Handle = 0 /\ ~a.IsDirectory
      /\ FollowsChain(a) /\ Buffers(a) /\ a.Size < POSITION_RANGE
      /\ a.Position = fd.Position + take /\ a.Position <= a.Size
      /\ ~Broken(fd, take) => a.Size = fd.Size
  BY <1>1, <1>2, <1>3, <1>4, AdvancedOnChain
<1> HIDE DEF a
<1>6. /\ fd' = a /\ want' = (IF Broken(fd, take) THEN 0 ELSE want - take)
      /\ pc' = (IF want' = 0 THEN "cat" ELSE "copy")
      /\ UNCHANGED <<image, argument, lookupVars, i>>
  BY DEF Copy, take, a
<1>7. want' \in 0 .. ReadSize /\ want' <= a.Size - a.Position
  <2>1. a.Size \in Nat /\ a.Position \in Nat
    BY <1>5 DEF FileData
  <2> QED BY <1>1, <1>2, <1>4, <1>5, <1>6, <2>1
<1>8. TypeOK'
  <2>1. out' \in Seq((0 .. LBA_RANGE - 1) \X (0 .. SECTOR_SIZE - 1))
    <3>1. [k \in 1 .. take |-> <<fd.Buffer, (fd.Position % SECTOR_SIZE) + k - 1>>]
            \in Seq((0 .. LBA_RANGE - 1) \X (0 .. SECTOR_SIZE - 1))
      BY <1>1, <1>4, UnitsType
    <3>2. out \in Seq((0 .. LBA_RANGE - 1) \X (0 .. SECTOR_SIZE - 1))
      BY DEF HostInv, TypeOK
    <3>3. out' = out \o [k \in 1 .. take |->
                           <<fd.Buffer, (fd.Position % SECTOR_SIZE) + k - 1>>]
      BY DEF Copy, take
    <3> QED BY <3>1, <3>2, <3>3
  <2> QED BY <1>5, <1>6, <1>7, <2>1 DEF HostInv, TypeOK, lookupVars
<1>9. CallState'
  <2>1. a # NULL
    BY <1>5, HostAssumption
  <2>2. want' > 0 <=> want' # 0
    BY <1>1, <1>7
  <2> QED BY <1>5, <1>6, <2>1, <2>2 DEF HostInv, CallState, Copy, lookupVars
<1>10. FileUnderCursor'
  <2>1. FollowsChain(fd)'
    BY <1>5, <1>6 DEF FollowsChain, SectorIndex
  <2>2. Buffers(fd)'
    BY <1>5, <1>6 DEF Buffers, InImage, SectorIndex
  <2> QED BY <1>6, <1>7, <2>1, <2>2 DEF FileUnderCursor
<1>11. MisspeltOnlyShort'
  BY <1>6 DEF HostInv, MisspeltOnlyShort, lookupVars
<1> QED BY <1>8, <1>9, <1>10, <1>11 DEF HostInv

LEMMA EndHolds ==
  ASSUME HostInv, pc' \in {"failed", "crashed", "wild"}, pc \in {"main", "open", "find", "list"},
         UNCHANGED <<image, argument, fd, lookupVars, want, out, i>>
  PROVE  HostInv'
<1> USE DEF HostInv, lookupVars
<1>1. TypeOK'
  BY DEF TypeOK
<1>2. CallState'
  BY DEF CallState
<1>3. FileUnderCursor' /\ MisspeltOnlyShort'
  BY DEF FileUnderCursor, MisspeltOnlyShort
<1> QED BY <1>1, <1>2, <1>3

-----------------------------------------------------------------------------
(* The invariant of the program.                                           *)

LEMMA HostStep == HostInv /\ [Next]_vars => HostInv'
<1> SUFFICES ASSUME HostInv, [Next]_vars PROVE HostInv'
  OBVIOUS
<1>1. CASE FAT_Initialize
  BY <1>1, InitializeHolds
<1>2. CASE Crash \/ ReadBehindTable \/ DISK_InitializeFails
  <2>1. /\ pc' \in {"failed", "crashed", "wild"}
        /\ pc \in {"main", "open", "find", "list"}
        /\ UNCHANGED <<image, argument, fd, lookupVars, want, out, i>>
    BY <1>2 DEF Crash, ReadBehindTable, DISK_InitializeFails
  <2> QED BY <2>1, EndHolds
<1>3. CASE OpenComponent
  BY <1>3, OpenComponentHolds
<1>4. CASE Opened
  BY <1>4, OpenedHolds
<1>5. CASE SearchStep
  BY <1>5, SearchStepHolds
<1>6. CASE NotFound
  BY <1>6, NotFoundHolds
<1>7. CASE FAT_OpenEntry
  BY <1>7, OpenEntryHolds
<1>8. CASE List
  BY <1>8, ListHolds
<1>9. CASE Read
  BY <1>9, ReadHolds
<1>10. CASE Copy
  BY <1>10, CopyHolds
<1>11. CASE UNCHANGED vars
  BY <1>11 DEF HostInv, TypeOK, CallState, FileUnderCursor, MisspeltOnlyShort,
     Buffers, InImage, IsEmptyFile, FollowsChain, SectorIndex, EntryFile, FirstLba,
     Openable, vars, lookupVars
<1> QED BY <1>1, <1>2, <1>3, <1>4, <1>5, <1>6, <1>7, <1>8, <1>9, <1>10, <1>11
    DEF Next, Work, Exited

\* Whatever the image, the path and the garbage on the stack: reading a file, the
\* cursor is on the chain at the position, inside the size, with the sector of
\* the position in the buffer unless the image is cut short
\* (tools/fat/fat.c:214-262), and only a component without a full extension is
\* looked up under a name that is not its own (fat.c:301-315, 345-355).
THEOREM HostInvariant == Spec => []HostInv
BY InitHolds, HostStep, PTL DEF Spec
-----------------------------------------------------------------------------
(* What the program delivers.                                              *)

\* Components of the path that FAT_Open has taken.
Taken == Len(argument) - Len(path)

\* The lookup is on its way through the path it was given.
Lookup ==
  /\ pc \notin {"main", "failed"} => path = NULL \/ argument # NULL
  /\ pc \in {"open", "find", "enter"} /\ fd # NULL /\ path # NULL =>
       /\ Len(path) <= Len(argument)
       /\ \A k \in DOMAIN path : path[k] = argument[Taken + k]
       /\ pc \in {"find", "enter"} => Taken > 0
       /\ pc = "open" =>
            IF Taken = 0 THEN fd = RootFile
            ELSE /\ Openable(entry) /\ InImage(FirstLba(entry))
                 /\ fd = EntryFile(entry, FirstLba(entry))
  /\ pc \in {"find", "enter", "list", "cat", "copy", "done"} =>
       path # NULL /\ argument # NULL

\* A search of the root directory, for the entry at r: behind its first sector it
\* goes through the sectors from LBA 1 on, and comes to that of r before any behind
\* it.
RootSearch(f, r) ==
  /\ f.Handle = ROOT /\ f.IsDirectory
  /\ f.Buffer <= r[1]
  /\ f.Buffer = r[1] => f.Position % SECTOR_SIZE <= r[2]
  /\ f.Buffer # r[1] /\ InImage(r[1]) => f.CurrentCluster < r[1]

\* The cursor of a search of chain c: on a sector of it, or at the end mark.
OnChain(f, c) ==
  \/ f.CurrentCluster >= EndOfChain
  \/ \E n \in 0 .. ChainSectors(c) - 1 :
       /\ f.CurrentCluster = Chain[c][n \div SectorsPerCluster + 1]
       /\ f.CurrentSectorInCluster = n % SectorsPerCluster

DirectorySearch(f, e) ==
  /\ f.Handle = 0 /\ f.IsDirectory /\ f.FirstCluster = e.FirstCluster
  /\ f.Buffer \in OwnSectors(e.FirstCluster) /\ OnChain(f, e.FirstCluster)

\* It is at the entries that the path denotes.
Follows(at) ==
  /\ pc = "open" /\ fd # NULL /\ Taken > 0 => entry = Entry[at[Taken]]
  /\ pc = "find" =>
       /\ fatName = EightDotThree(argument[Taken])
       /\ IF Taken = 1 THEN RootSearch(fd, at[1])
          ELSE Entry[at[Taken - 1]].IsDirectory /\ DirectorySearch(fd, Entry[at[Taken - 1]])
  /\ pc = "enter" => entry = Entry[at[Taken]]
  /\ pc \in {"list", "cat", "copy", "done"} => entry = Entry[at[Len(argument)]]

Resolved ==
  argument # NULL /\ argument # <<>> /\ ~misspelt =>
    \A at \in [DOMAIN argument -> DOMAIN Entry] : Denotes(argument, at) => Follows(at)

\* What has been listed or read are the units up to the cursor.
Delivered ==
  /\ pc \in {"main", "open", "find", "enter"} => out = <<>> /\ i = 0
  /\ pc \in {"list", "cat", "copy", "done"} /\ argument # <<>> =>
       /\ Openable(entry) /\ Len(out) <= Len(Contents(entry))
       /\ \A k \in 1 .. Len(out) :
            InImage(Contents(entry)[k][1]) => out[k] = Contents(entry)[k]
       /\ pc = "list" =>
            /\ entry.IsDirectory /\ Len(out) = i
            /\ i < SECTOR_SIZE =>
                 fd.Position = i /\ fd.Buffer = SectorOfChain(entry.FirstCluster, 0)
       /\ pc \in {"cat", "copy"} =>
            /\ ~entry.IsDirectory /\ fd.FirstCluster = entry.FirstCluster
            /\ fd.Size = entry.Size /\ Len(out) = fd.Position
       /\ pc = "done" => Len(out) = Len(Contents(entry))

LEMMA ModOfMod ==
  ASSUME NEW s \in Nat \ {0}, NEW w \in Nat \ {0}, w % s = 0, NEW p \in Nat
  PROVE  (p % w) % s = p % s
<1> DEFINE m == w \div s
           a == p \div w
           b == p % w
           q == b \div s
           t == b % s
<1>1. m \in Nat /\ w = s * m
  BY SMT
<1>2. a \in Nat /\ b \in 0 .. w - 1 /\ p = w * a + b
  BY SMT
<1>3. b \in Nat
  BY <1>2
<1>4. q \in Nat /\ t \in 0 .. s - 1 /\ b = s * q + t
  BY <1>3
<1> HIDE DEF m, a, b, q, t
<1>5. m * a \in Nat /\ m * a + q \in Nat
  BY <1>1, <1>2, <1>4
<1>6. w * a = s * (m * a)
  BY <1>1, <1>2, SMT
<1>7. s * (m * a) + s * q = s * (m * a + q)
  BY <1>4, <1>5, SMT
<1>8. s * (m * a) \in Nat /\ s * q \in Nat
  BY <1>4, <1>5
<1>9. p = s * (m * a + q) + t
  BY <1>2, <1>4, <1>6, <1>7, <1>8
<1>10. p % s = t
  BY <1>4, <1>5, <1>9, DivUnique
<1> QED BY <1>10 DEF b, t

\* Where the next unit is in its sector.
LEMMA NextSlot ==
  ASSUME NEW f \in FileData
  PROVE  LET r == f.Position % SECTOR_SIZE
             p == (f.Position + 1) % POSITION_RANGE
         IN /\ p \in Nat
            /\ 1 < LeftInBuffer(f) => r + 1 < SECTOR_SIZE /\ p % SECTOR_SIZE = r + 1
            /\ ~(1 < LeftInBuffer(f)) => r = SECTOR_SIZE - 1 /\ p % SECTOR_SIZE = 0
<1> DEFINE s == SECTOR_SIZE
           r == f.Position % s
           p == (f.Position + 1) % POSITION_RANGE
<1>1. /\ s \in Nat \ {0} /\ f.Position \in Nat /\ LeftInBuffer(f) \in 1 .. s
      /\ r \in 0 .. s - 1 /\ LeftInBuffer(f) = s - r
  BY LeftFacts, VolumeConstants
<1>2. p \in Nat /\ p % s = (f.Position + 1) % s
  <2>1. POSITION_RANGE \in Nat \ {0} /\ POSITION_RANGE % s = 0 /\ f.Position + 1 \in Nat
    BY <1>1, HostAssumption
  <2>2. p \in Nat
    BY <2>1
  <2> QED BY <1>1, <2>1, <2>2, ModOfMod
<1>3. /\ 1 < s - r => (f.Position + 1) % s = r + 1
      /\ 1 = s - r => (f.Position + 1) % s = 0
  <2>1. 1 \in 1 .. (s - (f.Position % s))
    BY <1>1
  <2> QED BY <1>1, <2>1, DivStep
<1> HIDE DEF s, r, p
<1>4. /\ 1 < LeftInBuffer(f) => r + 1 < s /\ p % s = r + 1
      /\ ~(1 < LeftInBuffer(f)) => r = s - 1 /\ p % s = 0
  BY <1>1, <1>2, <1>3
<1> QED BY <1>2, <1>4 DEF s, r, p

\* The root directory's cursor after a unit: behind a sector, one LBA on.
LEMMA RootAdvances ==
  ASSUME NEW f \in FileData, f.Handle = ROOT
  PROVE  LET a == Advanced(f, 1)
             c == (f.CurrentCluster + 1) % LBA_RANGE
         IN /\ a.Handle = ROOT /\ a.IsDirectory = f.IsDirectory
            /\ a.Position = (f.Position + 1) % POSITION_RANGE
            /\ c \in 0 .. LBA_RANGE - 1
            /\ 1 < LeftInBuffer(f) =>
                 a.Buffer = f.Buffer /\ a.CurrentCluster = f.CurrentCluster
            /\ ~(1 < LeftInBuffer(f)) =>
                 /\ a.CurrentCluster = c
                 /\ a.Buffer = IF InImage(c) THEN c ELSE f.Buffer
<1> DEFINE p == (f.Position + 1) % POSITION_RANGE
           c == (f.CurrentCluster + 1) % LBA_RANGE
           e == [f EXCEPT !.Position = p]
           h == Next1(e)
           lba == SectorUnderCursor(f.Handle, h) % LBA_RANGE
           a == Advanced(f, 1)
<1>1. c \in 0 .. LBA_RANGE - 1
  <2>1. f.CurrentCluster + 1 \in Int
    BY DEF FileData
  <2> QED BY <2>1, InRange
<1> HIDE DEF p
<1>2. /\ e.Handle = ROOT /\ e.IsDirectory = f.IsDirectory /\ e.Position = p
      /\ e.Buffer = f.Buffer /\ e.CurrentCluster = f.CurrentCluster
      /\ e = [Handle |-> f.Handle, IsDirectory |-> f.IsDirectory, Position |-> p,
              Size |-> f.Size, FirstCluster |-> f.FirstCluster,
              CurrentCluster |-> f.CurrentCluster,
              CurrentSectorInCluster |-> f.CurrentSectorInCluster, Buffer |-> f.Buffer]
  BY DEF FileData
<1>3. CASE 1 < LeftInBuffer(f)
  <2>1. a = e
    BY <1>3 DEF Advanced, p
  <2> QED BY <1>1, <1>2, <1>3, <2>1 DEF p
<1>4. CASE ~(1 < LeftInBuffer(f))
  <2> HIDE DEF e, c
  <2>1. /\ h.Handle = ROOT /\ h.IsDirectory = f.IsDirectory /\ h.Position = p
        /\ h.Buffer = f.Buffer /\ h.CurrentCluster = c
        /\ h = [Handle |-> f.Handle, IsDirectory |-> f.IsDirectory, Position |-> p,
                Size |-> f.Size, FirstCluster |-> f.FirstCluster,
                CurrentCluster |-> c,
                CurrentSectorInCluster |-> f.CurrentSectorInCluster, Buffer |-> f.Buffer]
    <3> DEFINE g == NextSector(e.Handle, e)
    <3>1. g = [e EXCEPT !.CurrentCluster = @ + 1]
      BY <1>2 DEF NextSector
    <3>2. /\ g.CurrentCluster = f.CurrentCluster + 1 /\ g.Handle = ROOT
          /\ g = [Handle |-> f.Handle, IsDirectory |-> f.IsDirectory, Position |-> p,
                  Size |-> f.Size, FirstCluster |-> f.FirstCluster,
                  CurrentCluster |-> f.CurrentCluster + 1,
                  CurrentSectorInCluster |-> f.CurrentSectorInCluster, Buffer |-> f.Buffer]
      BY <1>2, <3>1
    <3>3. h = [g EXCEPT !.CurrentCluster = IF e.Handle = ROOT THEN @ % LBA_RANGE ELSE @]
      BY DEF Next1
    <3> HIDE DEF g, h
    <3>4. h = [g EXCEPT !.CurrentCluster = c]
      BY <1>2, <3>2, <3>3 DEF c
    <3> QED BY <1>2, <3>2, <3>4
  <2> HIDE DEF h
  <2>2. lba = c
    <3>1. SectorUnderCursor(f.Handle, h) = c
      BY <2>1 DEF SectorUnderCursor
    <3> QED BY <1>1, <3>1, NoWrap
  <2>3. a = IF InImage(c) THEN [h EXCEPT !.Buffer = c] ELSE h
    <3>1. a = IF InImage(lba) THEN [h EXCEPT !.Buffer = lba] ELSE h
      BY <1>4 DEF Advanced, h, e, p
    <3> QED BY <2>2, <3>1
  <2> HIDE DEF a
  <2>4. /\ a.Handle = ROOT /\ a.IsDirectory = f.IsDirectory /\ a.Position = p
        /\ a.CurrentCluster = c /\ a.Buffer = IF InImage(c) THEN c ELSE f.Buffer
    BY <2>1, <2>3
  <2> QED BY <1>1, <1>4, <2>4 DEF a, c, p
<1> QED BY <1>3, <1>4

\* An entry of the root directory lies in front of the data section.
LEMMA RootSlotFacts ==
  ASSUME NEW r \in RootSlots
  PROVE  /\ r[1] \in Nat /\ r[2] \in 0 .. SECTOR_SIZE - 1 /\ r = <<r[1], r[2]>>
         /\ RootDirLba <= r[1] /\ r[1] < DataSectionLba /\ r[1] < LBA_RANGE
<1> DEFINE s == SECTOR_SIZE
           d == DirEntryCount
<1>1. PICK k \in 0 .. d - 1 : r = <<RootDirLba + k \div s, k % s>>
  BY DEF RootSlots
<1>2. s \in Nat \ {0} /\ d \in Nat \ {0} /\ RootDirLba \in Nat /\ k \in Nat
  BY <1>1, VolumeConstants
<1> DEFINE q == k \div s
           t == k % s
           m == (d + s - 1) \div s
           u == (d + s - 1) % s
<1>3. q \in Nat /\ t \in 0 .. s - 1 /\ k = s * q + t
  BY <1>2
<1>4. m \in Nat /\ u \in 0 .. s - 1 /\ d + s - 1 = s * m + u
  <2>1. d + s - 1 \in Nat
    BY <1>2
  <2> QED BY <1>2, <2>1
<1>5. DataSectionLba = RootDirLba + m
  BY DEF DataSectionLba
<1>6. r[1] = RootDirLba + q /\ r[2] = t /\ r = <<r[1], r[2]>>
  BY <1>1
<1>7. k < d
  BY <1>1, <1>2
<1> HIDE DEF s, d, q, t, m, u
<1>8. q < m
  <2>1. ASSUME m <= q PROVE FALSE
    <3>1. s * m <= s * q
      BY <1>2, <1>3, <1>4, <2>1
    <3>2. s * m \in Nat /\ s * q \in Nat
      BY <1>2, <1>3, <1>4
    <3> QED BY <1>2, <1>3, <1>4, <1>7, <3>1, <3>2
  <2> QED BY <1>3, <1>4, <2>1
<1>9. DataSectionLba <= LBA_RANGE /\ LBA_RANGE \in Nat /\ DataSectionLba \in Nat
  BY HostAssumption, VolumeConstants
<1> QED BY <1>2, <1>3, <1>4, <1>5, <1>6, <1>8, <1>9 DEF s

\* The search does not pass the entry at r: it comes to its sector before any
\* behind it, or, if the image ends before that, to none behind the end.
LEMMA RootSearchGoesOn ==
  ASSUME image \in Nat, NEW f \in FileData, NEW r \in RootSlots,
         RootSearch(f, r), EntryAt(f) # r
  PROVE  RootSearch(Advanced(f, 1), r)
<1> DEFINE a == Advanced(f, 1)
           b == f.Buffer
           x == f.CurrentCluster
           c == (f.CurrentCluster + 1) % LBA_RANGE
           o == f.Position % SECTOR_SIZE
           p == (f.Position + 1) % POSITION_RANGE
<1>1. /\ r[1] \in Nat /\ r[2] \in 0 .. SECTOR_SIZE - 1 /\ r = <<r[1], r[2]>>
      /\ r[1] < LBA_RANGE /\ LBA_RANGE \in Nat /\ SECTOR_SIZE \in Nat \ {0}
      /\ b \in Nat /\ x \in Nat /\ o \in Nat
  BY RootSlotFacts, HostConstants, VolumeConstants, LeftFacts DEF FileData
<1>2. /\ f.Handle = ROOT /\ f.IsDirectory
      /\ b <= r[1] /\ (b = r[1] => o <= r[2])
      /\ b # r[1] /\ InImage(r[1]) => x < r[1]
  BY DEF RootSearch
<1>3. /\ a.Handle = ROOT /\ a.IsDirectory /\ a.Position = p
      /\ c \in 0 .. LBA_RANGE - 1
      /\ 1 < LeftInBuffer(f) => a.Buffer = b /\ a.CurrentCluster = x
      /\ ~(1 < LeftInBuffer(f)) =>
           a.CurrentCluster = c /\ a.Buffer = IF InImage(c) THEN c ELSE b
  BY <1>2, RootAdvances
<1>4. b = r[1] => o # r[2]
  BY <1>1 DEF EntryAt
<1>5. /\ 1 < LeftInBuffer(f) => o + 1 < SECTOR_SIZE /\ p % SECTOR_SIZE = o + 1
      /\ ~(1 < LeftInBuffer(f)) => o = SECTOR_SIZE - 1 /\ p % SECTOR_SIZE = 0
  BY NextSlot
<1>6. InImage(r[1]) <=> r[1] < image
  BY <1>1, NoWrap DEF InImage
<1>7. InImage(c) <=> c < image
  BY <1>3, NoWrap DEF InImage
<1>8. x < r[1] => c = x + 1
  BY <1>1, NoWrap
<1> HIDE DEF a, b, x, c, o, p
<1>9. CASE 1 < LeftInBuffer(f)
  <2>1. b = r[1] => o + 1 <= r[2]
    BY <1>1, <1>2, <1>4
  <2> QED BY <1>2, <1>3, <1>5, <1>9, <2>1 DEF RootSearch, a
<1>10. CASE ~(1 < LeftInBuffer(f))
  <2>1. b < r[1]
    BY <1>1, <1>2, <1>4, <1>5, <1>10
  <2>2. a.CurrentCluster = c /\ a.Position % SECTOR_SIZE = 0 /\ 0 <= r[2]
    BY <1>1, <1>3, <1>5, <1>10
  <2>3. CASE InImage(r[1])
    <3>1. c = x + 1 /\ x < r[1]
      BY <1>2, <1>8, <2>1, <2>3, <1>1
    <3>2. CASE c = r[1]
      <4>1. a.Buffer = r[1]
        BY <1>3, <1>10, <2>3, <3>2
      <4> QED BY <1>1, <1>3, <2>2, <4>1 DEF RootSearch, a
    <3>3. CASE c # r[1]
      <4>1. c < r[1] /\ a.Buffer < r[1]
        BY <1>1, <1>3, <1>10, <2>1, <3>1, <3>3
      <4> QED BY <1>1, <1>3, <2>2, <4>1 DEF RootSearch, a
    <3> QED BY <3>2, <3>3
  <2>4. CASE ~InImage(r[1])
    <3>1. InImage(c) => c < r[1]
      BY <1>1, <1>3, <1>6, <1>7, <2>4
    <3>2. a.Buffer < r[1]
      BY <1>3, <1>10, <2>1, <3>1
    <3>3. a.Buffer <= r[1] /\ a.Buffer # r[1]
      BY <1>1, <1>3, <1>10, <2>1, <3>1
    <3> QED BY <1>3, <2>4, <3>3 DEF RootSearch, a
  <2> QED BY <2>3, <2>4
<1> QED BY <1>9, <1>10

\* What the search of the root directory finds is the entry at r.
LEMMA RootMatch ==
  ASSUME NEW f \in FileData, NEW r \in RootSlots \cap DOMAIN Entry, RootSearch(f, r),
         NEW p \in Arguments, NEW k \in DOMAIN p,
         Entry[r].Name = EightDotThree(p[k]), Matches(EntryAt(f), EightDotThree(p[k]))
  PROVE  EntryAt(f) = r
<1> DEFINE at == EntryAt(f)
<1>1. at \in DOMAIN Entry /\ Entry[at].Name = EightDotThree(p[k]) /\ at[1] = f.Buffer
  BY DEF Matches, EntryAt
<1> HIDE DEF at
<1>2. at[1] < DataSectionLba
  <2>1. f.Buffer <= r[1] /\ f.Buffer \in Nat /\ r[1] \in Nat /\ r[1] < DataSectionLba
    BY RootSlotFacts, HostConstants DEF RootSearch, FileData
  <2> QED BY <1>1, <2>1, VolumeConstants
<1>3. at \in RootSlots
  BY <1>1, <1>2, TreeAssumption
<1>4. RootSlots \in Directories
  BY DEF Directories
<1> QED BY <1>1, <1>3, <1>4, TreeAssumption DEF at

\* The first sector of an entry with a chain.
LEMMA FirstSector ==
  ASSUME NEW e \in EntryRecord, e.FirstCluster \in DOMAIN Chain
  PROVE  LET c == e.FirstCluster IN
         /\ ChainSectors(c) \in Nat \ {0} /\ Chain[c][1] = c
         /\ 0 \div SectorsPerCluster = 0 /\ 0 % SectorsPerCluster = 0
         /\ FirstLba(e) = SectorOfChain(c, 0) /\ FirstLba(e) \in OwnSectors(c)
<1> DEFINE c == e.FirstCluster
<1>1. /\ ChainSectors(c) \in Nat \ {0} /\ Chain[c][1] = c
      /\ SectorsPerCluster \in Nat \ {0} /\ c \in Nat
  <2>1. Len(Chain[c]) \in Nat \ {0} /\ Chain[c][1] = c
    BY ChainFacts
  <2> QED BY <2>1, VolumeConstants DEF ChainSectors, EntryRecord
<1>2. 0 \div SectorsPerCluster = 0 /\ 0 % SectorsPerCluster = 0
  BY <1>1
<1>3. SectorOfChain(c, 0) = FAT_ClusterToLba(c)
  BY <1>1, <1>2, VolumeConstants DEF SectorOfChain, FAT_ClusterToLba
<1>4. 0 \in 0 .. ChainSectors(c) - 1
  BY <1>1
<1>5. SectorOfChain(c, 0) \in 0 .. LBA_RANGE - 1
  <2>1. SectorOfChain(c, 0) \in 0 .. VolumeSectors - 1
    BY <1>4, HostAssumption
  <2> QED BY <2>1, HostConstants
<1>6. FirstLba(e) = SectorOfChain(c, 0)
  BY <1>3, <1>5, NoWrap DEF FirstLba
<1> QED BY <1>1, <1>2, <1>4, <1>6 DEF OwnSectors

LEMMA DirectoryOpens ==
  ASSUME NEW e \in EntryRecord, Openable(e), e.IsDirectory,
         NEW f, f = EntryFile(e, FirstLba(e))
  PROVE  /\ f \in FileData /\ f.Position = 0
         /\ f.Buffer = SectorOfChain(e.FirstCluster, 0)
         /\ DirectorySearch(f, e)
<1> DEFINE c == e.FirstCluster
<1>1. c \in DOMAIN Chain
  BY DEF Openable, SoundEntry
<1>2. /\ ChainSectors(c) \in Nat \ {0} /\ Chain[c][1] = c
      /\ 0 \div SectorsPerCluster = 0 /\ 0 % SectorsPerCluster = 0
      /\ FirstLba(e) = SectorOfChain(c, 0) /\ FirstLba(e) \in OwnSectors(c)
  BY <1>1, FirstSector
<1>3. f \in FileData
  BY EntryFileOpens
<1>4. /\ f.Handle = 0 /\ f.IsDirectory /\ f.Position = 0 /\ f.FirstCluster = c
      /\ f.CurrentCluster = c /\ f.CurrentSectorInCluster = 0 /\ f.Buffer = FirstLba(e)
  BY DEF EntryFile
<1> HIDE DEF c
<1>5. OnChain(f, c)
  <2>1. 0 \in 0 .. ChainSectors(c) - 1
    BY <1>2
  <2>2. f.CurrentCluster = Chain[c][0 \div SectorsPerCluster + 1]
        /\ f.CurrentSectorInCluster = 0 % SectorsPerCluster
    BY <1>2, <1>4
  <2> QED BY <2>1, <2>2 DEF OnChain
<1> QED BY <1>2, <1>3, <1>4, <1>5 DEF DirectorySearch, c

\* The search of a subdirectory stays in its chain.  Behind the end mark it reads
\* its last sector again, until it leaves the table.
LEMMA DirectorySearchGoesOn ==
  ASSUME NEW f \in FileData, NEW e \in EntryRecord, SoundEntry(e), e.IsDirectory,
         DirectorySearch(f, e), ~LeavesTable(f, 1)
  PROVE  DirectorySearch(Advanced(f, 1), e)
<1> DEFINE c == e.FirstCluster
           p == (f.Position + 1) % POSITION_RANGE
           g == [f EXCEPT !.Position = p]
           h == Next1(g)
           lba == SectorUnderCursor(f.Handle, h) % LBA_RANGE
           a == Advanced(f, 1)
<1>1. /\ c \in DOMAIN Chain /\ f.Handle = 0 /\ f.IsDirectory /\ f.FirstCluster = c
      /\ f.Buffer \in OwnSectors(c) /\ OnChain(f, c) /\ f.Handle # ROOT
  BY DEF SoundEntry, DirectorySearch, ROOT
<1>2. p \in Nat
  BY NextSlot
<1> HIDE DEF p, c
<1>3. /\ g \in FileData /\ g.Handle = 0 /\ g.IsDirectory /\ g.FirstCluster = c
      /\ g.Buffer = f.Buffer /\ g.CurrentCluster = f.CurrentCluster
      /\ g.CurrentSectorInCluster = f.CurrentSectorInCluster
  BY <1>1, <1>2 DEF FileData
<1>4. CASE 1 < LeftInBuffer(f)
  <2>1. a = g
    BY <1>4 DEF Advanced, p
  <2> HIDE DEF a, g
  <2>2. OnChain(g, c)
    BY <1>1, <1>3 DEF OnChain
  <2> QED BY <1>1, <1>3, <2>1, <2>2 DEF DirectorySearch, a, c
<1>5. CASE ~(1 < LeftInBuffer(f))
  <2> HIDE DEF g
  <2>1. a = IF h.CurrentCluster >= EndOfChain THEN [h EXCEPT !.Size = h.Position]
            ELSE IF InImage(lba) THEN [h EXCEPT !.Buffer = lba] ELSE h
    BY <1>1, <1>5 DEF Advanced, g, p
  <2> HIDE DEF a, h
  <2> DEFINE Kept == /\ h \in FileData /\ h.Handle = 0 /\ h.IsDirectory = TRUE
                     /\ h.FirstCluster = c /\ h.Buffer = f.Buffer
  <2>2. ASSUME Kept, h.CurrentCluster >= EndOfChain PROVE DirectorySearch(a, e)
    <3>1. a = [h EXCEPT !.Size = h.Position]
      BY <2>1, <2>2
    <3>2. /\ a.Handle = 0 /\ a.IsDirectory /\ a.FirstCluster = c /\ a.Buffer = f.Buffer
          /\ a.CurrentCluster = h.CurrentCluster
      BY <2>2, <3>1 DEF FileData
    <3> QED BY <1>1, <2>2, <3>2 DEF DirectorySearch, OnChain, c
  <2>5. ASSUME Kept, ~(h.CurrentCluster >= EndOfChain), OnChain(h, c), lba \in OwnSectors(c)
        PROVE  DirectorySearch(a, e)
    <3>1. a = IF InImage(lba) THEN [h EXCEPT !.Buffer = lba] ELSE h
      BY <2>1, <2>5
    <3> HIDE DEF lba
    <3>2. /\ a.Handle = 0 /\ a.IsDirectory /\ a.FirstCluster = c
          /\ a.Buffer = f.Buffer \/ a.Buffer = lba
          /\ a.CurrentCluster = h.CurrentCluster
          /\ a.CurrentSectorInCluster = h.CurrentSectorInCluster
      BY <2>5, <3>1 DEF FileData
    <3>3. OnChain(a, c)
      BY <2>5, <3>2 DEF OnChain
    <3> QED BY <1>1, <2>5, <3>2, <3>3 DEF DirectorySearch, c
  <2>k. /\ g.IsDirectory = TRUE /\ f.IsDirectory = TRUE
    BY <1>1, <1>3 DEF FileData
  <2> HIDE DEF Kept
  <2>3. CASE f.CurrentCluster >= EndOfChain
    <3>1. /\ f.CurrentCluster \in Nat /\ f.CurrentSectorInCluster \in Nat
          /\ SectorsPerCluster \in Nat /\ EndOfChain \in Nat
      BY VolumeConstants DEF FileData
    <3>2. f.CurrentCluster \notin DOMAIN Fat
      <4>1. \A x \in DOMAIN Fat : x < EndOfChain
        BY TreeAssumption
      <4> QED BY <2>3, <3>1, <4>1
    <3>3. 1 = LeftInBuffer(f)
      BY <1>5, LeftFacts, VolumeConstants
    <3>4. f.CurrentSectorInCluster + 1 < SectorsPerCluster
      BY <1>1, <3>1, <3>2, <3>3 DEF LeavesTable
    <3> DEFINE d == NextSector(g.Handle, g)
    <3>5. d = [g EXCEPT !.CurrentSectorInCluster = @ + 1]
      BY <1>1, <1>3, <3>4 DEF NextSector, ROOT
    <3>6. /\ d \in FileData /\ d.Handle = 0 /\ d.IsDirectory /\ d.FirstCluster = c
          /\ d.Buffer = f.Buffer /\ d.CurrentCluster = f.CurrentCluster
      BY <1>3, <3>1, <3>5 DEF FileData
    <3>7. h = [d EXCEPT !.CurrentCluster = IF g.Handle = ROOT THEN @ % LBA_RANGE ELSE @]
      BY DEF h, Next1
    <3> HIDE DEF d
    <3>8. h = [d EXCEPT !.CurrentCluster = f.CurrentCluster]
      BY <1>3, <3>6, <3>7 DEF ROOT
    <3>9. Kept /\ h.CurrentCluster = f.CurrentCluster
      BY <3>1, <3>6, <3>8 DEF FileData, Kept
    <3>10. h.CurrentCluster >= EndOfChain
      BY <2>3, <3>9
    <3> QED BY <2>2, <3>9, <3>10 DEF a
  <2>4. CASE ~(f.CurrentCluster >= EndOfChain)
    <3>1. PICK n \in 0 .. ChainSectors(c) - 1 :
            /\ f.CurrentCluster = Chain[c][n \div SectorsPerCluster + 1]
            /\ f.CurrentSectorInCluster = n % SectorsPerCluster
      BY <1>1, <2>4 DEF OnChain
    <3>2. n \in Nat /\ n < ChainSectors(c) /\ ChainSectors(c) \in Nat /\ SECTOR_SIZE \in Nat \ {0}
      <4>1. ChainSectors(c) \in Nat
        BY <1>1, ChainFacts
      <4> QED BY <3>1, <4>1, VolumeConstants
    <3> DEFINE m == n * SECTOR_SIZE
               k == [f EXCEPT !.Position = m, !.Size = 0]
    <3>3. m \in Nat /\ m \div SECTOR_SIZE = n
      <4>1. m \in Nat /\ m = SECTOR_SIZE * n + 0 /\ 0 \in 0 .. SECTOR_SIZE - 1
        BY <3>2
      <4> HIDE DEF m
      <4> QED BY <3>2, <4>1, DivUnique
    <3> HIDE DEF m
    <3>4. /\ k \in FileData /\ k.Handle = 0 /\ k.IsDirectory /\ k.Size = 0 /\ k.Position = m
          /\ k.FirstCluster = c /\ k.CurrentCluster = f.CurrentCluster
          /\ k.CurrentSectorInCluster = f.CurrentSectorInCluster
      BY <1>1, <3>3 DEF FileData
    <3> HIDE DEF k
    <3>5. SectorIndex(k) = n
      BY <3>3, <3>4 DEF SectorIndex
    <3>6. FollowsChain(k)
      BY <1>1, <3>1, <3>2, <3>4, <3>5 DEF FollowsChain
    <3>7. /\ h \in FileData /\ h.Handle = 0 /\ h.IsDirectory = g.IsDirectory
          /\ h.Buffer = g.Buffer /\ h.FirstCluster = g.FirstCluster
          /\ \/ /\ n + 1 < ChainSectors(c) /\ h.CurrentCluster < EndOfChain
                /\ h.CurrentCluster = Chain[c][(n + 1) \div SectorsPerCluster + 1]
                /\ h.CurrentSectorInCluster = (n + 1) % SectorsPerCluster
                /\ SectorUnderCursor(0, h) = SectorOfChain(c, n + 1)
             \/ n + 1 = ChainSectors(c) /\ h.CurrentCluster >= EndOfChain
      <4>1. /\ g.CurrentCluster = k.CurrentCluster /\ SectorIndex(k) < ChainSectors(k.FirstCluster)
            /\ g.CurrentSectorInCluster = k.CurrentSectorInCluster
        BY <1>3, <3>2, <3>4, <3>5
      <4>2. LET o == k.FirstCluster
                l == SectorIndex(k) + 1
                i2 == Next1(g)
            IN /\ i2 \in FileData /\ i2.Handle = 0 /\ i2.IsDirectory = g.IsDirectory
               /\ i2.Buffer = g.Buffer /\ i2.FirstCluster = g.FirstCluster
               /\ \/ /\ l < ChainSectors(o) /\ i2.CurrentCluster < EndOfChain
                     /\ i2.CurrentCluster = Chain[o][l \div SectorsPerCluster + 1]
                     /\ i2.CurrentSectorInCluster = l % SectorsPerCluster
                     /\ SectorUnderCursor(0, i2) = SectorOfChain(o, l)
                  \/ l = ChainSectors(o) /\ i2.CurrentCluster >= EndOfChain
        BY <1>3, <3>4, <3>6, <4>1, NextOnChain
      <4> QED BY <3>4, <3>5, <4>2 DEF h
    <3>k. Kept
      BY <1>3, <2>k, <3>7 DEF Kept
    <3>8. CASE h.CurrentCluster >= EndOfChain
      BY <2>2, <3>k, <3>8 DEF a
    <3>9. CASE ~(h.CurrentCluster >= EndOfChain)
      <4>1. n + 1 \in 0 .. ChainSectors(c) - 1
        BY <3>2, <3>7, <3>9
      <4>2. SectorOfChain(c, n + 1) \in OwnSectors(c)
        BY <4>1 DEF OwnSectors
      <4>3. SectorOfChain(c, n + 1) \in 0 .. LBA_RANGE - 1
        <5>1. SectorOfChain(c, n + 1) \in 0 .. VolumeSectors - 1
          BY <1>1, <4>1, HostAssumption
        <5> QED BY <5>1, HostConstants
      <4>4. lba = SectorOfChain(c, n + 1)
        BY <1>1, <3>7, <3>9, <4>3, NoWrap
      <4>5. OnChain(h, c)
        BY <3>7, <3>9, <4>1 DEF OnChain
      <4> QED BY <2>5, <3>k, <3>9, <4>2, <4>4, <4>5 DEF a
    <3> QED BY <3>8, <3>9
  <2> QED BY <2>3, <2>4
<1> QED BY <1>4, <1>5

\* What the search of a subdirectory finds is the entry of that name in it.
LEMMA DirectoryMatch ==
  ASSUME NEW f \in FileData, NEW d \in DOMAIN Entry, Entry[d].IsDirectory,
         DirectorySearch(f, Entry[d]), NEW r \in SlotsOf(Entry[d]) \cap DOMAIN Entry,
         NEW p \in Arguments, NEW k \in DOMAIN p,
         Entry[r].Name = EightDotThree(p[k]), Matches(EntryAt(f), EightDotThree(p[k]))
  PROVE  EntryAt(f) = r
<1> DEFINE at == EntryAt(f)
<1>1. at \in DOMAIN Entry /\ Entry[at].Name = EightDotThree(p[k])
  BY DEF Matches
<1>2. at \in SlotsOf(Entry[d])
  <2>1. f.Position % SECTOR_SIZE \in 0 .. SECTOR_SIZE - 1
    BY LeftFacts
  <2> QED BY <2>1 DEF EntryAt, SlotsOf, DirectorySearch
<1>3. SlotsOf(Entry[d]) \in Directories
  BY DEF Directories
<1> HIDE DEF at
<1> QED BY <1>1, <1>2, <1>3, TreeAssumption DEF at

\* The lookup takes the components in order, and goes on from the file or
\* directory of the entry it has found.
LEMMA LookupHolds == HostInv /\ Lookup /\ [Next]_vars => Lookup'
<1> SUFFICES ASSUME HostInv, Lookup, [Next]_vars PROVE Lookup'
  OBVIOUS
<1>t. /\ path # NULL => path \in Seq(Component)
      /\ argument # NULL => argument \in Seq(Component)
      /\ NULL \notin Seq(Component) /\ NULL \notin FileData
  BY HostAssumption DEF HostInv, TypeOK
<1>1. CASE FAT_Initialize
  <2>1. /\ path' = argument /\ argument' = argument
        /\ (pc' = "open" /\ fd' = RootFile) \/ pc' = "failed"
    BY <1>1 DEF FAT_Initialize
  <2>2. argument # NULL => Taken' = 0 /\ Len(argument) \in Nat
    BY <1>t, <2>1 DEF Taken
  <2>3. ASSUME argument # NULL, NEW k \in DOMAIN argument PROVE argument[k] = argument[0 + k]
    <3>1. 0 + k = k
      BY <1>t, <2>3
    <3> QED BY <3>1
  <2>4. RootFile' = RootFile
    BY DEF RootFile
  <2> QED BY <1>t, <2>1, <2>2, <2>3, <2>4 DEF Lookup
<1>2. CASE Crash \/ ReadBehindTable \/ DISK_InitializeFails
  <2>1. /\ pc' \in {"failed", "crashed", "wild"} /\ path' = path /\ argument' = argument
        /\ pc' # "failed" => pc \notin {"main", "failed"}
    BY <1>2 DEF Crash, ReadBehindTable, DISK_InitializeFails, lookupVars
  <2> QED BY <2>1 DEF Lookup
<1>3. CASE OpenComponent
  <2>1. /\ pc = "open" /\ fd # NULL /\ path # NULL /\ path # <<>> /\ path' = Tail(path)
        /\ pc' = "find" /\ argument' = argument /\ fd' = fd
    BY <1>3 DEF OpenComponent
  <2>2. /\ argument # NULL /\ Len(path) <= Len(argument)
        /\ \A k \in DOMAIN path : path[k] = argument[Taken + k]
    BY <2>1 DEF Lookup
  <2>3. /\ path \in Seq(Component) /\ argument \in Seq(Component)
        /\ Len(path) \in Nat \ {0} /\ Len(argument) \in Nat
    BY <1>t, <2>1, <2>2
  <2>4. /\ path' \in Seq(Component) /\ Len(path') = Len(path) - 1
        /\ \A k \in DOMAIN path' : k \in Nat /\ k + 1 \in DOMAIN path /\ path'[k] = path[k + 1]
    BY <2>1, <2>3
  <2>5. Taken' = Taken + 1 /\ Taken \in Nat
    BY <2>1, <2>2, <2>3, <2>4 DEF Taken
  <2>6. ASSUME NEW k \in DOMAIN path' PROVE path'[k] = argument[Taken' + k]
    <3>1. Taken + (k + 1) = Taken' + k
      BY <2>4, <2>5, <2>6
    <3>2. path'[k] = argument[Taken + (k + 1)]
      BY <2>2, <2>4, <2>6
    <3> QED BY <3>1, <3>2
  <2>7. Len(path') <= Len(argument') /\ Taken' > 0 /\ path' # NULL
    <3>1. path' # NULL
      BY <1>t, <2>4
    <3>2. Len(argument') = Len(argument)
      BY <2>1
    <3>3. Taken' > 0
      BY <2>5
    <3>4. Len(path') <= Len(argument)
      BY <2>2, <2>3, <2>4
    <3> QED BY <3>1, <3>2, <3>3, <3>4
  <2> QED BY <2>1, <2>2, <2>6, <2>7 DEF Lookup
<1>4. CASE Opened
  <2>1. /\ pc = "open" /\ path = <<>> /\ path' = path /\ argument' = argument
        /\ pc' \in {"list", "cat"}
    BY <1>4 DEF Opened, lookupVars
  <2>2. path # NULL
    <3>1. <<>> \in Seq(Component)
      OBVIOUS
    <3> QED BY <1>t, <2>1, <3>1
  <2> QED BY <2>1, <2>2 DEF Lookup
<1>5. CASE SearchStep
  <2>1. /\ pc = "find" /\ path' = path /\ argument' = argument /\ pc' \in {"find", "enter"}
        /\ fd # NULL
    BY <1>5 DEF SearchStep, HostInv, CallState
  <2>2. Taken' = Taken
    BY <2>1 DEF Taken
  <2> QED BY <2>1, <2>2 DEF Lookup
<1>6. CASE NotFound
  <2>1. pc = "find" /\ argument' = argument /\ pc' = "open" /\ fd' = NULL
    BY <1>6 DEF NotFound
  <2> QED BY <2>1 DEF Lookup
<1>7. CASE FAT_OpenEntry
  <2>1. /\ pc = "enter" /\ pc' = "open" /\ path' = path /\ argument' = argument
        /\ image' = image /\ entry' = entry /\ fd # NULL
        /\ fd' = IF InImage(FirstLba(entry)) THEN EntryFile(entry, FirstLba(entry)) ELSE NULL
    BY <1>7 DEF FAT_OpenEntry, lookupVars, HostInv, CallState
  <2>2. Taken' = Taken
    BY <2>1 DEF Taken
  <2>3. /\ Openable(entry) /\ Openable(entry') /\ path # NULL /\ argument # NULL /\ Taken > 0
        /\ Len(path) <= Len(argument) /\ \A k \in DOMAIN path : path[k] = argument[Taken + k]
    BY <2>1 DEF HostInv, CallState, Lookup
  <2>4. Taken # 0
    BY <2>3, <1>t DEF Taken
  <2>5. fd' # NULL => InImage(FirstLba(entry)) /\ fd' = EntryFile(entry, FirstLba(entry))
    BY <2>1
  <2>6. /\ InImage(FirstLba(entry))' <=> InImage(FirstLba(entry))
        /\ EntryFile(entry, FirstLba(entry))' = EntryFile(entry, FirstLba(entry))
        /\ Openable(entry)' <=> Openable(entry)
    BY <2>1 DEF InImage, FirstLba, EntryFile, Openable
  <2> QED BY <2>1, <2>2, <2>3, <2>4, <2>5, <2>6 DEF Lookup
<1>8. CASE List \/ Read \/ Copy
  <2>1. /\ pc \in {"list", "cat", "copy"} /\ pc' \in {"list", "cat", "copy", "done"}
        /\ path' = path /\ argument' = argument
    BY <1>8 DEF List, Read, Copy, lookupVars
  <2> QED BY <2>1 DEF Lookup
<1>9. CASE UNCHANGED vars
  BY <1>9 DEF vars, lookupVars, Lookup, Taken, Openable, InImage, FirstLba, EntryFile, RootFile
<1> QED BY <1>1, <1>2, <1>3, <1>4, <1>5, <1>6, <1>7, <1>8, <1>9 DEF Next, Work, Exited

\* What a reference says about each component.
LEMMA DenotesFacts ==
  ASSUME NEW p \in Seq(Component), NEW at \in [DOMAIN p -> DOMAIN Entry], Denotes(p, at),
         NEW k \in DOMAIN p
  PROVE  /\ at[k] \in DOMAIN Entry /\ Entry[at[k]] \in EntryRecord /\ Openable(Entry[at[k]])
         /\ Entry[at[k]].Name = EightDotThree(p[k])
         /\ k = 1 => at[k] \in RootSlots
         /\ k # 1 =>
              /\ k - 1 \in DOMAIN p /\ at[k - 1] \in DOMAIN Entry
              /\ Entry[at[k - 1]].IsDirectory /\ at[k] \in SlotsOf(Entry[at[k - 1]])
<1>1. at[k] \in DOMAIN Entry
  OBVIOUS
<1>2. Entry[at[k]] \in EntryRecord /\ Openable(Entry[at[k]])
  BY <1>1, EntryAssumption, HostAssumption DEF Openable
<1>3. /\ Entry[at[k]].Name = EightDotThree(p[k])
      /\ at[k] \in IF k = 1 THEN RootSlots
                   ELSE IF Entry[at[k - 1]].IsDirectory THEN SlotsOf(Entry[at[k - 1]])
                   ELSE {}
  BY DEF Denotes
<1>4. k # 1 => k - 1 \in DOMAIN p
  OBVIOUS
<1>5. k # 1 => at[k - 1] \in DOMAIN Entry
  BY <1>4
<1> QED BY <1>1, <1>2, <1>3, <1>4, <1>5

\* The search of the root directory begins in front of any of its entries.
LEMMA RootOpens ==
  ASSUME NEW r \in RootSlots
  PROVE  RootSearch(RootFile, r)
<1>1. /\ r[1] \in Nat /\ r[2] \in Nat /\ RootDirLba <= r[1] /\ RootDirLba \in Nat
  BY RootSlotFacts, VolumeConstants
<1>2. /\ RootFile.Handle = ROOT /\ RootFile.IsDirectory /\ RootFile.Buffer = RootDirLba
      /\ RootFile.Position = 0 /\ RootFile.CurrentCluster = 0
  BY DEF RootFile
<1>3. 0 % SECTOR_SIZE = 0
  BY VolumeConstants
<1> HIDE DEF RootFile
<1> QED BY <1>1, <1>2, <1>3 DEF RootSearch

\* The lookup is at the entries that the path denotes.
LEMMA ResolvedHolds == HostInv /\ Lookup /\ Resolved /\ [Next]_vars => Resolved'
<1> SUFFICES ASSUME HostInv, Lookup, Resolved, [Next]_vars,
                    argument' # NULL, argument' # <<>>, ~misspelt',
                    NEW at \in [DOMAIN argument' -> DOMAIN Entry], Denotes(argument', at)
             PROVE  Follows(at)'
  BY DEF Resolved, Denotes
<1>a. argument' = argument /\ ~misspelt /\ image' = image
  <2>1. argument' = argument /\ image' = image
    BY DEF Next, Work, Exited, FAT_Initialize, Crash, ReadBehindTable, DISK_InitializeFails,
       OpenComponent, Opened, SearchStep, NotFound, FAT_OpenEntry, List, Read, Copy, vars
  <2>2. OpenComponent => ~misspelt
    BY DEF OpenComponent
  <2>3. ~OpenComponent => misspelt' = misspelt
    BY DEF Next, Work, Exited, FAT_Initialize, Crash, ReadBehindTable, DISK_InitializeFails,
       Opened, SearchStep, NotFound, FAT_OpenEntry, List, Read, Copy, vars, lookupVars
  <2> QED BY <2>1, <2>2, <2>3
<1>t. /\ argument \in Arguments /\ argument \in Seq(Component) /\ argument # <<>>
      /\ Len(argument) \in Nat \ {0} /\ image \in Nat
      /\ path # NULL => path \in Seq(Component) /\ Len(path) \in Nat
      /\ NULL \notin Seq(Component) /\ NULL \notin FileData
  <2>1. /\ argument \in Arguments /\ argument \in Seq(Component) /\ argument # <<>>
        /\ path # NULL => path \in Seq(Component)
        /\ NULL \notin Seq(Component) /\ NULL \notin FileData
    BY <1>a, HostAssumption DEF HostInv, TypeOK
  <2>2. image \in Nat
    <3>1. image \in 0 .. VolumeSectors
      BY HostAssumption DEF HostInv, TypeOK
    <3> QED BY <3>1, HostConstants
  <2> QED BY <2>1, <2>2
<1>f. at \in [DOMAIN argument -> DOMAIN Entry] /\ Denotes(argument, at) /\ Follows(at)
  <2>1. at \in [DOMAIN argument -> DOMAIN Entry] /\ Denotes(argument, at)
    BY <1>a
  <2> QED BY <1>a, <1>t, <2>1 DEF Resolved
<1>1. CASE FAT_Initialize
  <2>1. path' = argument /\ pc' \in {"open", "failed"}
    BY <1>1 DEF FAT_Initialize
  <2>2. Taken' = 0
    BY <1>a, <1>t, <2>1 DEF Taken
  <2> QED BY <2>1, <2>2 DEF Follows
<1>2. CASE Crash \/ ReadBehindTable \/ DISK_InitializeFails
  <2>1. pc' \in {"failed", "crashed", "wild"}
    BY <1>2 DEF Crash, ReadBehindTable, DISK_InitializeFails
  <2> QED BY <2>1 DEF Follows
<1>3. CASE OpenComponent
  <2>1. /\ pc = "open" /\ fd # NULL /\ path # NULL /\ path # <<>> /\ path' = Tail(path)
        /\ pc' = "find" /\ fd' = fd /\ fatName' = EightDotThree(Head(path))
    BY <1>3 DEF OpenComponent
  <2>2. /\ Len(path) <= Len(argument) /\ \A k \in DOMAIN path : path[k] = argument[Taken + k]
        /\ IF Taken = 0 THEN fd = RootFile
           ELSE Openable(entry) /\ fd = EntryFile(entry, FirstLba(entry))
    BY <2>1 DEF Lookup
  <2>3. /\ Len(path) \in Nat \ {0} /\ 1 \in DOMAIN path /\ Head(path) = path[1]
        /\ Len(path') = Len(path) - 1
    BY <1>t, <2>1
  <2>4. Taken \in Nat /\ Taken' = Taken + 1 /\ Taken + 1 \in DOMAIN argument
    BY <1>a, <1>t, <2>1, <2>2, <2>3 DEF Taken
  <2>5. fatName' = EightDotThree(argument[Taken'])
    BY <2>1, <2>2, <2>3, <2>4
  <2>6. CASE Taken = 0
    <3>1. Taken' = 1 /\ 1 \in DOMAIN argument /\ fd' = RootFile
      BY <2>1, <2>2, <2>4, <2>6
    <3>2. at[1] \in RootSlots
      BY <1>t, <1>f, <3>1, DenotesFacts
    <3>3. RootSearch(fd', at[1])
      BY <3>1, <3>2, RootOpens
    <3>4. RootSearch(fd, at[1])'
      BY <1>a, <3>3 DEF RootSearch, InImage
    <3> QED BY <1>a, <2>1, <2>5, <3>1, <3>4 DEF Follows
  <2>7. CASE Taken # 0
    <3>1. Taken' # 1 /\ Taken' \in DOMAIN argument /\ Taken' - 1 = Taken /\ Taken > 0
      BY <2>4, <2>7
    <3>2. Entry[at[Taken]].IsDirectory
      BY <1>t, <1>f, <3>1, DenotesFacts
    <3>3. entry = Entry[at[Taken]]
      BY <1>f, <2>1, <3>1 DEF Follows
    <3>4. entry \in EntryRecord /\ Openable(entry) /\ fd = EntryFile(entry, FirstLba(entry))
      BY <2>2, <2>7 DEF HostInv, TypeOK
    <3>5. DirectorySearch(fd, entry)
      BY <3>2, <3>3, <3>4, DirectoryOpens
    <3>6. DirectorySearch(fd', Entry[at[Taken' - 1]]) /\ Entry[at[Taken' - 1]].IsDirectory
      BY <2>1, <3>1, <3>2, <3>3, <3>5
    <3> QED BY <1>a, <2>1, <2>5, <3>1, <3>6 DEF Follows
  <2> QED BY <2>6, <2>7
<1>4. CASE Opened
  <2>1. /\ pc = "open" /\ fd # NULL /\ path = <<>> /\ entry' = entry /\ pc' \in {"list", "cat"}
    BY <1>4 DEF Opened, lookupVars
  <2>2. Taken = Len(argument) /\ Taken > 0
    BY <1>t, <2>1 DEF Taken
  <2>3. entry = Entry[at[Len(argument)]]
    BY <1>f, <2>1, <2>2 DEF Follows
  <2> QED BY <1>a, <2>1, <2>3 DEF Follows
<1>5. CASE SearchStep
  <2>1. /\ pc = "find" /\ fd' = Advanced(fd, 1) /\ ~LeavesTable(fd, 1) /\ path' = path
        /\ fatName' = fatName /\ fd # NULL
        /\ IF Matches(EntryAt(fd), fatName)
           THEN entry' = Entry[EntryAt(fd)] /\ pc' = "enter"
           ELSE pc' = "find"
    BY <1>5 DEF SearchStep, HostInv, CallState
  <2>2. Taken > 0 /\ Len(path) <= Len(argument) /\ path # NULL /\ Taken' = Taken
    BY <1>a, <2>1 DEF Lookup, Taken
  <2>3. Taken \in DOMAIN argument
    BY <1>t, <2>2 DEF Taken
  <2>4. fd \in FileData
    BY <2>1 DEF HostInv, TypeOK
  <2>5. fatName = EightDotThree(argument[Taken])
    BY <1>f, <2>1 DEF Follows
  <2> DEFINE r == at[Taken]
  <2>6. /\ r \in DOMAIN Entry /\ Entry[r].Name = fatName
        /\ Taken = 1 => r \in RootSlots
        /\ Taken # 1 =>
             /\ at[Taken - 1] \in DOMAIN Entry /\ Entry[at[Taken - 1]].IsDirectory
             /\ r \in SlotsOf(Entry[at[Taken - 1]])
    BY <1>t, <1>f, <2>3, <2>5, DenotesFacts
  <2>7. /\ Taken = 1 => RootSearch(fd, r)
        /\ Taken # 1 => DirectorySearch(fd, Entry[at[Taken - 1]])
    BY <1>f, <2>1 DEF Follows
  <2> HIDE DEF r
  <2>8. CASE Matches(EntryAt(fd), fatName)
    <3>1. EntryAt(fd) = r
      <4>1. CASE Taken = 1
        BY <1>t, <2>3, <2>4, <2>5, <2>6, <2>7, <2>8, <4>1, RootMatch
      <4>2. CASE Taken # 1
        BY <1>t, <2>3, <2>4, <2>5, <2>6, <2>7, <2>8, <4>2, DirectoryMatch
      <4> QED BY <4>1, <4>2
    <3>2. entry' = Entry[at[Taken']] /\ pc' = "enter"
      BY <2>1, <2>2, <2>8, <3>1 DEF r
    <3> QED BY <1>a, <3>2 DEF Follows
  <2>9. CASE ~Matches(EntryAt(fd), fatName)
    <3>1. pc' = "find" /\ EntryAt(fd) # r
      BY <2>1, <2>6, <2>9 DEF Matches
    <3>2. CASE Taken = 1
      <4>1. RootSearch(fd', r)
        BY <1>t, <2>1, <2>4, <2>6, <2>7, <3>1, <3>2, RootSearchGoesOn
      <4>2. RootSearch(fd, r)'
        BY <1>a, <2>2, <4>1 DEF RootSearch, InImage, r
      <4> QED BY <1>a, <2>1, <2>2, <2>5, <3>1, <3>2, <4>2 DEF Follows, r
    <3>3. CASE Taken # 1
      <4> DEFINE d == Entry[at[Taken - 1]]
      <4>1. d \in EntryRecord /\ SoundEntry(d) /\ d.IsDirectory /\ DirectorySearch(fd, d)
        BY <2>6, <2>7, <3>3, EntryAssumption
      <4> HIDE DEF d
      <4>2. DirectorySearch(fd', d)
        BY <2>1, <2>4, <4>1, DirectorySearchGoesOn
      <4> QED BY <1>a, <2>1, <2>2, <2>5, <3>1, <3>3, <4>1, <4>2 DEF Follows, d
    <3> QED BY <3>2, <3>3
  <2> QED BY <2>8, <2>9
<1>6. CASE NotFound
  <2>1. pc' = "open" /\ fd' = NULL
    BY <1>6 DEF NotFound
  <2> QED BY <2>1 DEF Follows
<1>7. CASE FAT_OpenEntry
  <2>1. pc = "enter" /\ pc' = "open" /\ path' = path /\ entry' = entry
    BY <1>7 DEF FAT_OpenEntry, lookupVars
  <2>2. Taken' = Taken
    BY <1>a, <2>1 DEF Taken
  <2> QED BY <1>f, <2>1, <2>2 DEF Follows
<1>8. CASE List \/ Read \/ Copy
  <2>1. /\ pc \in {"list", "cat", "copy"} /\ pc' \in {"list", "cat", "copy", "done"}
        /\ entry' = entry
    BY <1>8 DEF List, Read, Copy, lookupVars
  <2> QED BY <1>a, <1>f, <2>1 DEF Follows
<1>9. CASE UNCHANGED vars
  BY <1>f, <1>9 DEF vars, lookupVars, Follows, Taken, RootSearch, InImage
<1> QED BY <1>1, <1>2, <1>3, <1>4, <1>5, <1>6, <1>7, <1>8, <1>9 DEF Next, Work, Exited

LEMMA ContentsFacts ==
  ASSUME NEW e \in EntryRecord
  PROVE  /\ Len(Contents(e)) = IF e.IsDirectory THEN ListMax ELSE e.Size
         /\ Len(Contents(e)) \in Nat
         /\ \A k \in 1 .. Len(Contents(e)) :
              Contents(e)[k] = UnitOfChain(e.FirstCluster, k - 1)
<1> DEFINE n == IF e.IsDirectory THEN ListMax ELSE e.Size
<1>1. n \in Nat
  BY HostConstants DEF EntryRecord
<1>2. Contents(e) = [k \in 1 .. n |-> UnitOfChain(e.FirstCluster, k - 1)]
  BY DEF Contents
<1> HIDE DEF n
<1>3. Len(Contents(e)) = n /\ DOMAIN Contents(e) = 1 .. n
  <2>1. DOMAIN Contents(e) = 1 .. n
    BY <1>2
  <2> DEFINE S == {UnitOfChain(e.FirstCluster, k - 1) : k \in 1 .. n}
  <2>2. Contents(e) \in [1 .. n -> S]
    BY <1>2
  <2> HIDE DEF S
  <2>3. Contents(e) \in Seq(S)
    BY <1>1, <2>2
  <2> QED BY <1>1, <2>1, <2>3
<1> QED BY <1>1, <1>2, <1>3 DEF n

\* Where the units of the cursor's sector are in the chain.
LEMMA UnitsInSector ==
  ASSUME NEW c, NEW p \in Nat, NEW t \in Nat, t < SECTOR_SIZE - (p % SECTOR_SIZE)
  PROVE  UnitOfChain(c, p + t) =
           <<SectorOfChain(c, p \div SECTOR_SIZE), (p % SECTOR_SIZE) + t>>
<1>1. CASE t = 0
  <2>1. p + t = p /\ (p % SECTOR_SIZE) + t = p % SECTOR_SIZE
    BY <1>1, VolumeConstants
  <2> QED BY <2>1 DEF UnitOfChain
<1>2. CASE t # 0
  <2>1. t \in 1 .. (SECTOR_SIZE - (p % SECTOR_SIZE))
    BY <1>2, VolumeConstants
  <2>2. /\ (p + t) \div SECTOR_SIZE = p \div SECTOR_SIZE
        /\ (p + t) % SECTOR_SIZE = (p % SECTOR_SIZE) + t
    BY <2>1, VolumeConstants, DivStep
  <2> QED BY <2>2 DEF UnitOfChain
<1> QED BY <1>1, <1>2

\* A listing and a copy begin at the beginning of what the lookup has found.
LEMMA OpenedDelivers == HostInv /\ Lookup /\ Delivered /\ Opened => Delivered'
<1> SUFFICES ASSUME HostInv, Lookup, Delivered, Opened, argument # <<>> PROVE Delivered'
  <2>1. ASSUME HostInv, Delivered, Opened, argument = <<>> PROVE Delivered'
    BY <2>1 DEF Delivered, Opened, lookupVars
  <2> QED BY <2>1
<1>1. /\ pc = "open" /\ fd # NULL /\ path = <<>> /\ pc' = IF fd.IsDirectory THEN "list" ELSE "cat"
      /\ fd' = fd /\ entry' = entry /\ out' = out /\ i' = i /\ argument' = argument
  BY DEF Opened, lookupVars
<1>2. /\ entry \in EntryRecord /\ fd \in FileData /\ NULL \notin Seq(Component)
      /\ argument # NULL => argument \in Seq(Component)
  BY <1>1, HostAssumption DEF HostInv, TypeOK
<1>3. path # NULL /\ argument # NULL
  <2>1. <<>> \in Seq(Component)
    OBVIOUS
  <2>2. path # NULL
    BY <1>1, <1>2, <2>1
  <2> QED BY <1>1, <2>2 DEF Lookup
<1>4. Taken > 0 /\ Taken # 0
  <2>1. Len(argument) \in Nat \ {0} /\ Len(path) = 0
    BY <1>1, <1>2, <1>3
  <2> QED BY <2>1 DEF Taken
<1>5. Openable(entry) /\ fd = EntryFile(entry, FirstLba(entry))
  BY <1>1, <1>3, <1>4 DEF Lookup
<1>6. /\ fd.IsDirectory = entry.IsDirectory /\ fd.Position = 0 /\ fd.Size = entry.Size
      /\ fd.FirstCluster = entry.FirstCluster
  BY <1>5 DEF EntryFile
<1>7. out = <<>> /\ i = 0 /\ Len(out) = 0
  BY <1>1 DEF Delivered
<1>8. Len(Contents(entry)) \in Nat
  BY <1>2, ContentsFacts
<1>9. 0 <= Len(Contents(entry)) /\ 1 .. 0 = {}
  BY <1>8
<1>10. entry.IsDirectory => fd.Buffer = SectorOfChain(entry.FirstCluster, 0)
  BY <1>2, <1>5, DirectoryOpens
<1>11. Openable(entry') /\ Contents(entry') = Contents(entry)
  BY <1>1, <1>5
<1>12. CASE fd.IsDirectory
  BY <1>1, <1>5, <1>6, <1>7, <1>9, <1>10, <1>11, <1>12 DEF Delivered
<1>13. CASE ~fd.IsDirectory
  BY <1>1, <1>5, <1>6, <1>7, <1>9, <1>11, <1>13 DEF Delivered
<1> QED BY <1>12, <1>13

\* What is listed next is the next entry of the directory's first sector.
LEMMA ListDelivers == HostInv /\ Delivered /\ List => Delivered'
<1> SUFFICES ASSUME HostInv, Delivered, List, argument # <<>> PROVE Delivered'
  <2>1. ASSUME Delivered, List, argument = <<>> PROVE Delivered'
    BY <2>1 DEF Delivered, List, lookupVars
  <2> QED BY <2>1
<1> DEFINE c == entry.FirstCluster
           u == EntryAt(fd)
<1>1. /\ pc = "list" /\ fd' = Advanced(fd, 1) /\ i' = i + 1 /\ entry' = entry
      /\ argument' = argument /\ image' = image
      /\ i < ListMax => out' = Append(out, u) /\ pc' = "list"
      /\ ~(i < ListMax) => out' = out /\ pc' = "done"
  BY DEF List, lookupVars
<1>2. /\ entry \in EntryRecord /\ fd \in FileData /\ i \in Nat /\ i <= ListMax
      /\ ListMax \in Nat /\ ListMax <= SECTOR_SIZE
      /\ out \in Seq((0 .. LBA_RANGE - 1) \X (0 .. SECTOR_SIZE - 1))
  BY <1>1, HostConstants, HostAssumption, VolumeConstants DEF HostInv, TypeOK, CallState
<1>3. /\ Openable(entry) /\ Len(out) <= Len(Contents(entry)) /\ entry.IsDirectory /\ Len(out) = i
      /\ \A k \in 1 .. Len(out) : InImage(Contents(entry)[k][1]) => out[k] = Contents(entry)[k]
      /\ i < SECTOR_SIZE => fd.Position = i /\ fd.Buffer = SectorOfChain(c, 0)
  BY <1>1 DEF Delivered
<1>4. /\ Len(Contents(entry)) = ListMax
      /\ \A k \in 1 .. ListMax : Contents(entry)[k] = UnitOfChain(c, k - 1)
  BY <1>2, <1>3, ContentsFacts
<1>5. SECTOR_SIZE \in Nat \ {0} /\ POSITION_RANGE \in Nat \ {0} /\ SECTOR_SIZE <= POSITION_RANGE
  <2>1. /\ SECTOR_SIZE \in Nat \ {0} /\ POSITION_RANGE \in Nat \ {0}
        /\ POSITION_RANGE % SECTOR_SIZE = 0
    BY HostAssumption, VolumeConstants
  <2>2. ASSUME POSITION_RANGE < SECTOR_SIZE PROVE FALSE
    <3>1. POSITION_RANGE \in 0 .. SECTOR_SIZE - 1 /\ POSITION_RANGE = SECTOR_SIZE * 0 + POSITION_RANGE
      BY <2>1, <2>2
    <3>2. POSITION_RANGE % SECTOR_SIZE = POSITION_RANGE
      BY <2>1, <3>1, DivUnique
    <3> QED BY <2>1, <3>2
  <2> QED BY <2>1, <2>2
<1>6. i < SECTOR_SIZE => i \div SECTOR_SIZE = 0 /\ i % SECTOR_SIZE = i
  <2>1. ASSUME i < SECTOR_SIZE PROVE i \div SECTOR_SIZE = 0 /\ i % SECTOR_SIZE = i
    <3>1. i \in 0 .. SECTOR_SIZE - 1 /\ i = SECTOR_SIZE * 0 + i
      BY <1>2, <1>5, <2>1
    <3>2. SECTOR_SIZE \in Nat \ {0} /\ i \in Nat /\ 0 \in Nat
      BY <1>2, <1>5
    <3> QED BY ONLY <3>1, <3>2, DivUnique
  <2> QED BY <2>1
<1>7. i' < SECTOR_SIZE => fd'.Position = i' /\ fd'.Buffer = SectorOfChain(c, 0)
  <2>1. ASSUME i' < SECTOR_SIZE
        PROVE fd'.Position = i' /\ fd'.Buffer = SectorOfChain(c, 0)
    <3>1. i < SECTOR_SIZE /\ i + 1 < SECTOR_SIZE /\ i + 1 \in Nat /\ i + 1 < POSITION_RANGE
      BY <1>1, <1>2, <1>5, <2>1
    <3>2. 1 < LeftInBuffer(fd)
      <4>1. LeftInBuffer(fd) = SECTOR_SIZE - i
        BY <1>3, <1>6, <3>1 DEF LeftInBuffer
      <4> QED BY <1>2, <1>5, <3>1, <4>1
    <3>3. fd' = [fd EXCEPT !.Position = (@ + 1) % POSITION_RANGE]
      BY <1>1, <3>2 DEF Advanced
    <3>4. (i + 1) % POSITION_RANGE = i + 1
      BY <3>1, NoWrap
    <3> QED BY <1>1, <1>2, <1>3, <3>1, <3>3, <3>4 DEF FileData
  <2> QED BY <2>1
<1>8. ASSUME i < ListMax PROVE u = Contents(entry)[i + 1]
  <2>1. i < SECTOR_SIZE /\ i + 1 \in 1 .. ListMax /\ (i + 1) - 1 = i
    BY <1>2, <1>5, <1>8
  <2>2. u = <<SectorOfChain(c, 0), i>>
    BY <1>3, <1>6, <2>1 DEF EntryAt
  <2>3. UnitOfChain(c, i) = <<SectorOfChain(c, 0), i>>
    BY <1>6, <2>1 DEF UnitOfChain
  <2> QED BY <1>4, <2>1, <2>2, <2>3
<1> HIDE DEF u
<1>9. /\ Len(out') <= ListMax /\ (pc' = "list" => Len(out') = i')
      /\ pc' = "done" => Len(out') = ListMax
      /\ \A k \in 1 .. Len(out') : InImage(Contents(entry)[k][1]) => out'[k] = Contents(entry)[k]
  <2>1. CASE i < ListMax
    <3> DEFINE U == (0 .. LBA_RANGE - 1) \X (0 .. SECTOR_SIZE - 1)
    <3>1. u \in U
      <4>1. 1 \in 1 .. LeftInBuffer(fd)
        BY <1>2, <1>5, LeftFacts
      <4> QED BY <1>2, <4>1, UnitsType DEF u
    <3> HIDE DEF U
    <3>2. /\ Len(out') = i + 1 /\ out'[i + 1] = u
          /\ \A k \in 1 .. i : out'[k] = out[k]
      <4>1. out \in Seq(U) /\ out' = Append(out, u) /\ Len(out) = i
        BY <1>1, <1>2, <1>3, <2>1 DEF U
      <4> QED BY <3>1, <4>1
    <3>3. \A k \in 1 .. i + 1 : k \in 1 .. i \/ k = i + 1
      BY <1>2
    <3>4. pc' = "list" /\ i' = i + 1 /\ i + 1 <= ListMax
      BY <1>1, <1>2, <2>1
    <3> QED BY <1>3, <1>8, <2>1, <3>2, <3>3, <3>4
  <2>2. CASE ~(i < ListMax)
    BY <1>1, <1>2, <1>3, <1>4, <2>2
  <2> QED BY <2>1, <2>2
<1>10. /\ Openable(entry') /\ Contents(entry') = Contents(entry) /\ pc' \in {"list", "done"}
       /\ \A x : InImage(x)' <=> InImage(x)
  BY <1>1, <1>3 DEF InImage
<1> QED BY <1>1, <1>3, <1>4, <1>7, <1>9, <1>10 DEF Delivered

\* A read that comes back short is at the end of the file.
LEMMA ReadDelivers == HostInv /\ Delivered /\ Read => Delivered'
<1> SUFFICES ASSUME HostInv, Delivered, Read, argument # <<>> PROVE Delivered'
  <2>1. ASSUME Delivered, Read, argument = <<>> PROVE Delivered'
    BY <2>1 DEF Delivered, Read, lookupVars
  <2> QED BY <2>1
<1>1. /\ pc = "cat" /\ want' = Bounded(fd, ReadSize) /\ pc' = IF want' = 0 THEN "done" ELSE "copy"
      /\ fd' = fd /\ out' = out /\ entry' = entry /\ argument' = argument /\ image' = image
  BY DEF Read, lookupVars
<1>2. /\ entry \in EntryRecord /\ fd \in FileData /\ ~fd.IsDirectory
      /\ fd.Size \in Nat /\ fd.Position \in Nat /\ ReadSize \in Nat \ {0}
  BY <1>1, HostConstants DEF HostInv, TypeOK, CallState, FileData
<1>3. /\ Openable(entry) /\ Len(out) <= Len(Contents(entry))
      /\ \A k \in 1 .. Len(out) : InImage(Contents(entry)[k][1]) => out[k] = Contents(entry)[k]
      /\ ~entry.IsDirectory /\ fd.FirstCluster = entry.FirstCluster
      /\ fd.Size = entry.Size /\ Len(out) = fd.Position
  BY <1>1 DEF Delivered
<1>4. want' = 0 => fd.Position = fd.Size
  <2>1. want' = IF ReadSize < fd.Size - fd.Position THEN ReadSize ELSE fd.Size - fd.Position
    BY <1>1, <1>2 DEF Bounded, Min2
  <2> QED BY <1>2, <2>1
<1>5. pc' = "done" => Len(out) = Len(Contents(entry))
  <2>1. Len(Contents(entry)) = entry.Size
    BY <1>2, <1>3, ContentsFacts
  <2> QED BY <1>1, <1>3, <1>4, <2>1
<1>6. /\ Openable(entry') /\ Contents(entry') = Contents(entry) /\ pc' \in {"copy", "done"}
      /\ \A x : InImage(x)' <=> InImage(x)
  BY <1>1, <1>3 DEF InImage
<1> QED BY <1>1, <1>3, <1>5, <1>6 DEF Delivered

\* What is copied next are the units of the file from its position on.  The end
\* mark of the chain leaves the size as it was: the file fits its chain.
LEMMA CopyDelivers == HostInv /\ Delivered /\ Copy => Delivered'
<1> SUFFICES ASSUME HostInv, Delivered, Copy, argument # <<>> PROVE Delivered'
  <2>1. ASSUME Delivered, Copy, argument = <<>> PROVE Delivered'
    BY <2>1 DEF Delivered, Copy, lookupVars
  <2> QED BY <2>1
<1> DEFINE take == Min2(want, LeftInBuffer(fd))
           a == Advanced(fd, take)
           c == entry.FirstCluster
           p == fd.Position
           r == fd.Position % SECTOR_SIZE
           q == fd.Position \div SECTOR_SIZE
           U == (0 .. LBA_RANGE - 1) \X (0 .. SECTOR_SIZE - 1)
           u == [k \in 1 .. take |-> <<fd.Buffer, r + k - 1>>]
<1>1. /\ pc = "copy" /\ fd' = a /\ out' = out \o u /\ entry' = entry /\ argument' = argument
      /\ image' = image /\ pc' \in {"cat", "copy"}
  BY DEF Copy, lookupVars
<1>2. /\ fd \in FileData /\ fd.Handle = 0 /\ ~fd.IsDirectory /\ fd.Size < POSITION_RANGE
      /\ fd.Size \in Nat /\ p \in Nat /\ want \in Nat \ {0} /\ entry \in EntryRecord
      /\ out \in Seq(U)
  BY <1>1, HostConstants DEF HostInv, TypeOK, CallState, FileData
<1>3. FollowsChain(fd) /\ want <= fd.Size - p /\ Buffers(fd)
  BY <1>1, <1>2 DEF HostInv, FileUnderCursor
<1>4. /\ Openable(entry) /\ Len(out) <= Len(Contents(entry))
      /\ \A k \in 1 .. Len(out) : InImage(Contents(entry)[k][1]) => out[k] = Contents(entry)[k]
      /\ ~entry.IsDirectory /\ fd.FirstCluster = c /\ fd.Size = entry.Size /\ Len(out) = p
  BY <1>1 DEF Delivered
<1>5. /\ c \in DOMAIN Chain /\ ChainSectors(c) \in Nat /\ SectorIndex(fd) = q /\ q \in Nat
      /\ q < ChainSectors(c)
  <2>1. c \in DOMAIN Chain
    BY <1>3, <1>4 DEF FollowsChain
  <2>2. ChainSectors(c) \in Nat /\ SectorIndex(fd) = q /\ q \in Nat
    BY <1>2, <2>1, ChainFacts, LeftFacts DEF SectorIndex
  <2> QED BY <1>2, <1>3, <1>4, <2>1, <2>2 DEF FollowsChain
<1>6. /\ take \in 1 .. LeftInBuffer(fd) /\ p + take <= fd.Size /\ take \in Nat
      /\ LeftInBuffer(fd) = SECTOR_SIZE - r /\ r \in Nat
  <2>1. /\ LeftInBuffer(fd) \in 1 .. SECTOR_SIZE /\ SECTOR_SIZE \in Nat
        /\ LeftInBuffer(fd) = SECTOR_SIZE - r /\ r \in 0 .. SECTOR_SIZE - 1
    BY <1>2, LeftFacts, VolumeConstants
  <2> HIDE DEF r, p
  <2> QED BY <1>2, <1>3, <2>1 DEF Min2
<1> HIDE DEF take, p, r, q, U
<1>7. /\ a \in FileData /\ a.FirstCluster = c /\ a.Position = p + take /\ a.Position <= a.Size
      /\ \/ a.Size = fd.Size
         \/ a.Size = a.Position /\ a.Position = ChainSectors(c) * SECTOR_SIZE
  <2>1. p + take <= fd.Size /\ SectorIndex(fd) < ChainSectors(fd.FirstCluster)
    BY <1>4, <1>5, <1>6
  <2>2. /\ a \in FileData /\ a.FirstCluster = fd.FirstCluster
        /\ a.Position = fd.Position + take /\ a.Position <= a.Size
        /\ \/ a.Size = fd.Size
           \/ /\ a.Size = a.Position
              /\ a.Position = ChainSectors(fd.FirstCluster) * SECTOR_SIZE
    BY <1>2, <1>3, <1>6, <2>1, AdvancedOnChain DEF p
  <2> HIDE DEF a
  <2> QED BY <1>4, <2>2 DEF p
<1> HIDE DEF a
<1>8. a.Size = entry.Size
  <2>1. CASE a.Size = fd.Size
    BY <1>4, <2>1
  <2>2. CASE a.Size = a.Position /\ a.Position = ChainSectors(c) * SECTOR_SIZE
    <3>1. entry.Size # 0
      BY <1>2, <1>4, <1>6
    <3>2. entry.Size <= Len(Chain[c]) * ClusterSize
      BY <1>4, <3>1 DEF Openable, SoundEntry
    <3>3. Len(Chain[c]) * ClusterSize = ChainSectors(c) * SECTOR_SIZE
      <4> DEFINE l == Len(Chain[c])
      <4>1. l \in Nat /\ SECTOR_SIZE \in Nat /\ SectorsPerCluster \in Nat
        BY <1>5, ChainFacts, VolumeConstants
      <4> HIDE DEF l
      <4>2. l * (SectorsPerCluster * SECTOR_SIZE) = (l * SectorsPerCluster) * SECTOR_SIZE
        BY <4>1, SMT
      <4> QED BY <4>2 DEF ClusterSize, ChainSectors, l
    <3>4. entry.Size <= a.Size
      BY <2>2, <3>2, <3>3
    <3>5. a.Size <= entry.Size
      BY <1>4, <1>6, <1>7, <2>2
    <3>6. a.Size \in Nat /\ entry.Size \in Nat
      BY <1>2, <1>4, <1>7 DEF FileData
    <3> QED BY <3>4, <3>5, <3>6
  <2> QED BY <1>7, <2>1, <2>2
<1>9. u \in Seq(U) /\ Len(u) = take /\ \A k \in 1 .. take : u[k] = <<fd.Buffer, r + k - 1>>
  <2>1. u \in Seq(U)
    BY <1>2, <1>6, UnitsType DEF U, r
  <2>2. DOMAIN u = 1 .. take
    OBVIOUS
  <2>3. Len(u) = take
    <3> HIDE DEF u
    <3> QED BY <1>6, <2>1, <2>2
  <2> QED BY <2>1, <2>3
<1> HIDE DEF u
<1>10. /\ Len(out') = p + take /\ \A k \in 1 .. p : out'[k] = out[k]
       /\ \A k \in 1 .. take : out'[p + k] = u[k]
  <2>1. /\ Len(out \o u) = Len(out) + Len(u)
        /\ \A k \in 1 .. Len(out) : (out \o u)[k] = out[k]
        /\ \A k \in 1 .. Len(u) : (out \o u)[Len(out) + k] = u[k]
    <3>1. /\ Len(out \o u) = Len(out) + Len(u)
          /\ \A k \in 1 .. Len(out) + Len(u) :
               (out \o u)[k] = IF k <= Len(out) THEN out[k] ELSE u[k - Len(out)]
      BY <1>2, <1>9, ConcatProperties
    <3>2. Len(out) \in Nat /\ Len(u) \in Nat
      BY <1>2, <1>9
    <3>3. ASSUME NEW k \in 1 .. Len(u) PROVE (out \o u)[Len(out) + k] = u[k]
      <4>1. /\ Len(out) + k \in 1 .. Len(out) + Len(u) /\ ~(Len(out) + k <= Len(out))
            /\ (Len(out) + k) - Len(out) = k
        BY <3>2
      <4> QED BY <3>1, <4>1
    <3> QED BY <3>1, <3>2, <3>3
  <2> QED BY <1>1, <1>4, <1>9, <2>1
<1>11. /\ Len(Contents(entry)) = entry.Size /\ entry.Size \in Nat
       /\ \A k \in 1 .. entry.Size : Contents(entry)[k] = UnitOfChain(c, k - 1)
  BY <1>2, <1>4, ContentsFacts
<1>12. ASSUME NEW k \in 1 .. take, InImage(Contents(entry)[p + k][1])
       PROVE  out'[p + k] = Contents(entry)[p + k]
  <2>1. p + k \in 1 .. entry.Size /\ k - 1 \in Nat /\ k - 1 < SECTOR_SIZE - r
        /\ (p + k) - 1 = p + (k - 1) /\ r + k - 1 = r + (k - 1)
    BY <1>2, <1>4, <1>6, <1>11, VolumeConstants
  <2>2. UnitOfChain(c, p + (k - 1)) = <<SectorOfChain(c, q), r + (k - 1)>>
    BY <1>2, <2>1, UnitsInSector DEF p, q, r
  <2>3. Contents(entry)[p + k] = <<SectorOfChain(c, q), r + (k - 1)>>
    BY <1>11, <2>1, <2>2
  <2>4. InImage(SectorOfChain(c, q))
    BY <1>12, <2>3
  <2>5. fd.Buffer = SectorOfChain(c, q)
    BY <1>3, <1>4, <1>5, <2>4 DEF Buffers
  <2> QED BY <1>9, <1>10, <2>1, <2>3, <2>5
<1>13. \A k \in 1 .. Len(out') : InImage(Contents(entry)[k][1]) => out'[k] = Contents(entry)[k]
  <2>1. ASSUME NEW k \in 1 .. p + take, InImage(Contents(entry)[k][1])
        PROVE  out'[k] = Contents(entry)[k]
    <3>1. CASE k \in 1 .. p
      BY <1>4, <1>10, <2>1, <3>1
    <3>2. CASE ~(k \in 1 .. p)
      <4>1. k - p \in 1 .. take /\ p + (k - p) = k
        BY <1>2, <1>6, <3>2
      <4> QED BY <1>12, <2>1, <4>1
    <3> QED BY <3>1, <3>2
  <2> QED BY <1>10, <2>1
<1>14. Len(out') <= Len(Contents(entry)) /\ Len(out') = a.Position
  BY <1>4, <1>6, <1>7, <1>10, <1>11
<1>15. /\ Openable(entry') /\ Contents(entry') = Contents(entry)
       /\ \A x : InImage(x)' <=> InImage(x)
  BY <1>1, <1>4 DEF InImage
<1> QED BY <1>1, <1>4, <1>7, <1>8, <1>13, <1>14, <1>15 DEF Delivered

LEMMA DeliveredHolds == HostInv /\ Lookup /\ Delivered /\ [Next]_vars => Delivered'
<1> SUFFICES ASSUME HostInv, Lookup, Delivered, [Next]_vars PROVE Delivered'
  OBVIOUS
<1>1. CASE \/ FAT_Initialize \/ OpenComponent \/ SearchStep \/ NotFound \/ FAT_OpenEntry
  <2>1. /\ pc \in {"main", "open", "find", "enter"} /\ out' = out /\ i' = i
        /\ pc' \in {"open", "find", "enter", "failed"}
    BY <1>1 DEF FAT_Initialize, OpenComponent, SearchStep, NotFound, FAT_OpenEntry
  <2> QED BY <2>1 DEF Delivered
<1>2. CASE Crash \/ ReadBehindTable \/ DISK_InitializeFails
  <2>1. pc' \in {"failed", "crashed", "wild"}
    BY <1>2 DEF Crash, ReadBehindTable, DISK_InitializeFails
  <2> QED BY <2>1 DEF Delivered
<1>3. CASE Opened
  BY <1>3, OpenedDelivers
<1>4. CASE List
  BY <1>4, ListDelivers
<1>5. CASE Read
  BY <1>5, ReadDelivers
<1>6. CASE Copy
  BY <1>6, CopyDelivers
<1>7. CASE UNCHANGED vars
  <2>1. /\ pc' = pc /\ fd' = fd /\ out' = out /\ i' = i /\ entry' = entry
        /\ argument' = argument /\ image' = image
    BY <1>7 DEF vars, lookupVars
  <2>2. \A x : InImage(x)' <=> InImage(x)
    BY <2>1 DEF InImage
  <2> QED BY <2>1, <2>2 DEF Delivered
<1> QED BY <1>1, <1>2, <1>3, <1>4, <1>5, <1>6, <1>7 DEF Next, Work, Exited

\* Whatever the image, the garbage on the stack and the path: a path that names
\* something is opened as just that, unless a component took garbage into its
\* name, though the search of the root directory strays over the image
\* (tools/fat/fat.c:317-381); what is listed or read are its contents in order, in
\* the end all of them, wherever the image holds the sector (fat.c:204-274,
\* main.c:29-53).
THEOREM FileDelivered == Spec => []DeliversFile
<1> DEFINE Inv == HostInv /\ Lookup /\ Resolved /\ Delivered
<1>1. Init => Inv
  <2> SUFFICES ASSUME Init PROVE Inv
    OBVIOUS
  <2>1. HostInv
    BY InitHolds
  <2>2. pc = "main" /\ out = <<>> /\ i = 0
    BY DEF Init
  <2> QED BY <2>1, <2>2 DEF Lookup, Resolved, Follows, Delivered
<1>2. Inv /\ [Next]_vars => Inv'
  <2> SUFFICES ASSUME Inv, [Next]_vars PROVE Inv'
    OBVIOUS
  <2> QED BY HostStep, LookupHolds, ResolvedHolds, DeliveredHolds
<1>3. Inv => DeliversFile
  <2> SUFFICES ASSUME Inv, pc \in {"list", "cat", "copy", "done"}, argument # <<>>,
                      Denoted(argument) # {}, ~misspelt
               PROVE  /\ entry \in Denoted(argument) /\ Len(out) <= Len(Contents(entry))
                      /\ \A k \in 1 .. Len(out) :
                           InImage(Contents(entry)[k][1]) => out[k] = Contents(entry)[k]
                      /\ pc = "done" => Len(out) = Len(Contents(entry))
    BY DEF DeliversFile
  <2>1. argument # NULL
    BY DEF Lookup
  <2>2. PICK at \in [DOMAIN argument -> DOMAIN Entry] : Denotes(argument, at)
    BY DEF Denoted
  <2>3. entry = Entry[at[Len(argument)]]
    BY <2>1, <2>2 DEF Resolved, Follows
  <2>4. entry \in Denoted(argument)
    BY <2>2, <2>3 DEF Denoted
  <2> QED BY <2>4 DEF Delivered
<1> HIDE DEF Inv
<1> QED BY <1>1, <1>2, <1>3, PTL DEF Spec
=============================================================================
