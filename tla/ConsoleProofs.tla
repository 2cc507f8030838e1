----------------------------- MODULE ConsoleProofs -----------------------------
(***************************************************************************)
(* Proofs about Printf, for every message and every size of a word, and    *)
(* about Console, for every size of the page, every text and any handlers, *)
(* between any two accesses to the cursor.                                 *)
(***************************************************************************)
EXTENDS Console, SequenceTheorems, WellFoundedInduction, TLAPS

-----------------------------------------------------------------------------
(* Induction.  The library's theorems about it take the formula to prove   *)
(* as an operator; these take the set of the numbers that satisfy it.      *)

Below == {p \in Nat \X Nat : p[1] < p[2]}

LEMMA BelowWellFounded == IsWellFoundedOn(Below, Nat)
<1>1. Below = OpToRel(<, Nat)
  BY DEF Below, OpToRel
<1> QED BY <1>1, NatLessThanWellFounded

\* A set of numbers that is not empty has a least one.
LEMMA LeastNumber ==
  ASSUME NEW T \in SUBSET Nat, T # {}
  PROVE  \E n \in T : \A m \in T : n <= m
<1>1. PICK n \in T : \A m \in T : <<m, n>> \notin Below
  BY BelowWellFounded, WFMin
<1>2. \A m \in T : m \in Nat /\ n \in Nat /\ <<m, n>> \in Nat \X Nat
  OBVIOUS
<1>3. \A m \in T : n <= m
  <2> SUFFICES ASSUME NEW m \in T, m < n PROVE FALSE
    BY <1>2
  <2>1. <<m, n>> \in Nat \X Nat /\ <<m, n>>[1] < <<m, n>>[2]
    BY <1>2
  <2>2. <<m, n>> \in Below
    BY <2>1 DEF Below
  <2> QED BY <2>2, <1>1
<1> QED BY <1>3

LEMMA Induction ==
  ASSUME NEW S, 0 \in S, \A n \in Nat : n \in S => n + 1 \in S
  PROVE  Nat \subseteq S
<1> SUFFICES ASSUME Nat \ S # {} PROVE FALSE
  OBVIOUS
<1>1. PICK n \in Nat \ S : \A m \in Nat \ S : n <= m
  BY LeastNumber
<1>2. n \in Nat /\ n # 0 /\ n - 1 \in Nat /\ n - 1 \notin Nat \ S
  BY <1>1
<1> QED BY <1>2

\* Course-of-values induction: a number is in T if all smaller ones are.
LEMMA CompleteInduction ==
  ASSUME NEW S, \A n \in Nat : (\A m \in 0 .. n - 1 : m \in S) => n \in S
  PROVE  Nat \subseteq S
<1> SUFFICES ASSUME Nat \ S # {} PROVE FALSE
  OBVIOUS
<1>1. PICK n \in Nat \ S : \A m \in Nat \ S : n <= m
  BY LeastNumber
<1>2. \A m \in 0 .. n - 1 : m \in S
  BY <1>1
<1> QED BY <1>2

-----------------------------------------------------------------------------
(* The recursive functions of Printf, unfolded once.                       *)

LEMMA FormattingSteps ==
  ASSUME NEW fmt, NEW args, Len(fmt) \in Nat
  PROVE  /\ Formatting(fmt, args)[0] = [Fresh EXCEPT !.args = args]
         /\ \A n \in 1 .. Len(fmt) :
              Formatting(fmt, args)[n] = FormatCharacter(Formatting(fmt, args)[n - 1], fmt[n])
<1> DEFINE Start == [Fresh EXCEPT !.args = args]
           Step(n, g) == IF n = 0 THEN Start ELSE FormatCharacter(g[n - 1], fmt[n])
           Good(N) == \E g : g = [n \in 0 .. N |-> Step(n, g)]
           S == {N \in Nat : Good(N)}
<1>1. Good(0)
  <2> DEFINE g == [n \in 0 .. 0 |-> Start]
  <2>1. g = [n \in 0 .. 0 |-> Step(n, g)]
    <3> HIDE DEF Start
    <3> QED OBVIOUS
  <2> QED BY <2>1
<1>2. ASSUME NEW N \in Nat, Good(N) PROVE Good(N + 1)
  <2> HIDE DEF Start
  <2>1. PICK g : g = [n \in 0 .. N |-> Step(n, g)]
    BY <1>2
  <2> DEFINE h == [n \in 0 .. N + 1 |-> IF n = N + 1 THEN FormatCharacter(g[N], fmt[N + 1]) ELSE g[n]]
  <2>2. h = [n \in 0 .. N + 1 |-> Step(n, h)]
    BY <2>1
  <2> QED BY <2>2
<1>3. Good(Len(fmt))
  <2> HIDE DEF Good
  <2>1. Nat \subseteq S
    <3>1. 0 \in S /\ \A n \in Nat : n \in S => n + 1 \in S
      BY <1>1, <1>2
    <3> HIDE DEF S
    <3> QED BY <3>1, Induction
  <2> QED BY <2>1
<1>4. Formatting(fmt, args) = [n \in 0 .. Len(fmt) |-> Step(n, Formatting(fmt, args))]
  BY <1>3 DEF Formatting
<1> HIDE DEF Start
<1>5. Formatting(fmt, args)[0] = Start
  BY <1>4
<1>6. \A n \in 1 .. Len(fmt) :
          Formatting(fmt, args)[n] = FormatCharacter(Formatting(fmt, args)[n - 1], fmt[n])
  BY <1>4
<1> QED BY <1>5, <1>6 DEF Start

LEMMA FormatSteps ==
  ASSUME NEW items, Len(items) \in Nat
  PROVE  /\ FormatUpTo(items)[0] = <<>>
         /\ \A i \in 1 .. Len(items) :
              FormatUpTo(items)[i] = FormatUpTo(items)[i - 1] \o Spelled(items[i])
<1> DEFINE Longer(format, n) == format \o Spelled(items[n])
           Step(n, g) == IF n = 0 THEN <<>> ELSE Longer(g[n - 1], n)
           Good(N) == \E g : g = [n \in 0 .. N |-> Step(n, g)]
           S == {N \in Nat : Good(N)}
<1> HIDE DEF Longer
<1>1. Good(0)
  <2> DEFINE g == [n \in 0 .. 0 |-> <<>>]
  <2>1. g = [n \in 0 .. 0 |-> Step(n, g)]
    OBVIOUS
  <2> QED BY <2>1
<1>2. ASSUME NEW N \in Nat, Good(N) PROVE Good(N + 1)
  <2>1. PICK g : g = [n \in 0 .. N |-> Step(n, g)]
    BY <1>2
  <2> DEFINE h == [n \in 0 .. N + 1 |-> IF n = N + 1 THEN Longer(g[N], N + 1) ELSE g[n]]
  <2>2. h = [n \in 0 .. N + 1 |-> Step(n, h)]
    BY <2>1
  <2> QED BY <2>2
<1>3. Good(Len(items))
  <2> HIDE DEF Good
  <2>1. 0 \in S /\ \A n \in Nat : n \in S => n + 1 \in S
    BY <1>1, <1>2
  <2> HIDE DEF S
  <2>2. Nat \subseteq S
    BY <2>1, Induction
  <2> QED BY <2>2 DEF S
<1>4. FormatUpTo(items) = [n \in 0 .. Len(items) |-> Step(n, FormatUpTo(items))]
  BY <1>3 DEF FormatUpTo, Longer
<1>5. \A i \in 1 .. Len(items) : FormatUpTo(items)[i] = Longer(FormatUpTo(items)[i - 1], i)
  BY <1>4
<1>6. FormatUpTo(items)[0] = <<>>
  BY <1>4
<1> QED BY <1>5, <1>6 DEF Longer

LEMMA RenderedSteps ==
  ASSUME NEW items, NEW args, Len(items) \in Nat
  PROVE  /\ RenderedUpTo(items, args)[0] = [text |-> <<>>, left |-> args]
         /\ \A i \in 1 .. Len(items) :
              RenderedUpTo(items, args)[i] = Render(RenderedUpTo(items, args)[i - 1], items[i])
<1> DEFINE Start == [text |-> <<>>, left |-> args]
           Step(n, g) == IF n = 0 THEN Start ELSE Render(g[n - 1], items[n])
           Good(N) == \E g : g = [n \in 0 .. N |-> Step(n, g)]
           S == {N \in Nat : Good(N)}
<1>1. Good(0)
  <2> DEFINE g == [n \in 0 .. 0 |-> Start]
  <2>1. g = [n \in 0 .. 0 |-> Step(n, g)]
    <3> HIDE DEF Start
    <3> QED OBVIOUS
  <2> QED BY <2>1
<1>2. ASSUME NEW N \in Nat, Good(N) PROVE Good(N + 1)
  <2> HIDE DEF Start
  <2>1. PICK g : g = [n \in 0 .. N |-> Step(n, g)]
    BY <1>2
  <2> DEFINE h == [n \in 0 .. N + 1 |-> IF n = N + 1 THEN Render(g[N], items[N + 1]) ELSE g[n]]
  <2>2. h = [n \in 0 .. N + 1 |-> Step(n, h)]
    BY <2>1
  <2> QED BY <2>2
<1>3. Good(Len(items))
  <2> HIDE DEF Good
  <2>1. 0 \in S /\ \A n \in Nat : n \in S => n + 1 \in S
    BY <1>1, <1>2
  <2> HIDE DEF S
  <2>2. Nat \subseteq S
    BY <2>1, Induction
  <2> QED BY <2>2 DEF S
<1>4. RenderedUpTo(items, args) = [n \in 0 .. Len(items) |-> Step(n, RenderedUpTo(items, args))]
  BY <1>3 DEF RenderedUpTo
<1> HIDE DEF Start
<1>5. RenderedUpTo(items, args)[0] = Start
  BY <1>4
<1>6. \A i \in 1 .. Len(items) :
        RenderedUpTo(items, args)[i] = Render(RenderedUpTo(items, args)[i - 1], items[i])
  BY <1>4
<1> QED BY <1>5, <1>6 DEF Start

LEMMA PowerSteps ==
  ASSUME NEW base \in Nat
  PROVE  /\ Power(base, 0) = 1
         /\ \A n \in Nat : Power(base, n) \in Nat /\ Power(base, n + 1) = base * Power(base, n)
<1> DEFINE Times(m) == base * m
           Step(n, g) == IF n = 0 THEN 1 ELSE Times(g[n - 1])
           f(N) == CHOOSE g : g = [n \in 0 .. N |-> Step(n, g)]
           Good(N) == \E g : g = [n \in 0 .. N |-> Step(n, g)]
           S == {N \in Nat : Good(N)}
<1>f. \A N \in Nat : Power(base, N) = f(N)[N]
  BY DEF Power
<1> HIDE DEF Times
<1>1. Good(0)
  <2> DEFINE g == [n \in 0 .. 0 |-> 1]
  <2>1. g = [n \in 0 .. 0 |-> Step(n, g)]
    OBVIOUS
  <2> QED BY <2>1
<1>2. ASSUME NEW N \in Nat, Good(N) PROVE Good(N + 1)
  <2>1. PICK g : g = [n \in 0 .. N |-> Step(n, g)]
    BY <1>2
  <2> DEFINE h == [n \in 0 .. N + 1 |-> IF n = N + 1 THEN Times(g[N]) ELSE g[n]]
  <2>2. h = [n \in 0 .. N + 1 |-> Step(n, h)]
    BY <2>1
  <2> QED BY <2>2
<1>3. \A N \in Nat : Good(N)
  <2> HIDE DEF Good
  <2>1. 0 \in S /\ \A n \in Nat : n \in S => n + 1 \in S
    BY <1>1, <1>2
  <2> HIDE DEF S
  <2>2. Nat \subseteq S
    BY <2>1, Induction
  <2> QED BY <2>2 DEF S
<1>4. \A N \in Nat : f(N) = [n \in 0 .. N |-> Step(n, f(N))]
  BY <1>3
<1> HIDE DEF f
<1>5. \A N \in Nat : f(N)[0] = 1 /\ \A n \in 1 .. N : f(N)[n] = Times(f(N)[n - 1])
  BY <1>4
<1>6. ASSUME NEW N \in Nat PROVE f(N + 1)[N] = f(N)[N]
  <2> DEFINE Same == {n \in Nat : n <= N => f(N + 1)[n] = f(N)[n]}
  <2>1. 0 \in Same
    BY <1>5
  <2>2. \A n \in Nat : n \in Same => n + 1 \in Same
    <3> SUFFICES ASSUME NEW n \in Nat, n + 1 <= N, f(N + 1)[n] = f(N)[n]
                 PROVE  f(N + 1)[n + 1] = f(N)[n + 1]
      OBVIOUS
    <3>1. f(N)[n + 1] = Times(f(N)[n]) /\ f(N + 1)[n + 1] = Times(f(N + 1)[n])
      <4>1. n + 1 \in 1 .. N /\ n + 1 \in 1 .. N + 1 /\ (n + 1) - 1 = n /\ N + 1 \in Nat
        OBVIOUS
      <4> QED BY <4>1, <1>5
    <3> QED BY <3>1
  <2>3. Nat \subseteq Same
    <3> HIDE DEF Same
    <3> QED BY <2>1, <2>2, Induction
  <2> QED BY <2>3
<1>7. \A N \in Nat : f(N + 1)[N + 1] = Times(f(N)[N])
  <2> TAKE N \in Nat
  <2>1. N + 1 \in Nat /\ N + 1 \in 1 .. N + 1 /\ (N + 1) - 1 = N
    OBVIOUS
  <2>2. f(N + 1)[N + 1] = Times(f(N + 1)[N])
    BY <1>5, <2>1
  <2> QED BY <2>2, <1>6
<1>8. Power(base, 0) = 1 /\ \A n \in Nat : Power(base, n + 1) = Times(Power(base, n))
  BY <1>f, <1>5, <1>7
<1>9. \A n \in Nat : Power(base, n) \in Nat
  <2> DEFINE P == {n \in Nat : Power(base, n) \in Nat}
  <2>0. \A m \in Nat : Times(m) \in Nat
    BY DEF Times
  <2>1. 0 \in P /\ \A n \in Nat : n \in P => n + 1 \in P
    BY <1>8, <2>0
  <2>2. Nat \subseteq P
    <3> HIDE DEF P
    <3> QED BY <2>1, Induction
  <2> QED BY <2>2
<1> QED BY <1>8, <1>9 DEF Times

-----------------------------------------------------------------------------
(* Numbers: what printf_unsigned makes of one is its shortest numeral.     *)

LEMMA DivUnique ==
  ASSUME NEW s \in Nat \ {0}, NEW q \in Nat, NEW z \in Nat, z < s, NEW n \in Nat, n = q * s + z
  PROVE  n \div s = q /\ n % s = z
<1> DEFINE Q == n \div s
           R == n % s
<1>1. Q \in Nat /\ R \in 0 .. s - 1 /\ n = s * Q + R
  OBVIOUS
<1> HIDE DEF Q, R
<1>2. CASE Q < q
  <2>1. s * (Q + 1) <= s * q
    BY <1>1, <1>2
  <2> QED BY <2>1, <1>1
<1>3. CASE Q > q
  <2>1. s * (q + 1) <= s * Q
    BY <1>1, <1>3
  <2> QED BY <2>1, <1>1
<1>4. CASE Q = q
  BY <1>1, <1>4 DEF Q, R
<1> QED BY <1>1, <1>2, <1>3, <1>4

\* Dividing by two numbers in turn is dividing by their product.
LEMMA DivideTwice ==
  ASSUME NEW n \in Nat, NEW b \in Nat \ {0}, NEW c \in Nat \ {0}
  PROVE  (n \div b) \div c = n \div (b * c)
<1>1. PICK q \in Nat, y \in 0 .. b - 1 : n \div b = q /\ n = b * q + y
  <2>1. n \div b \in Nat /\ n % b \in 0 .. b - 1 /\ n = b * (n \div b) + (n % b)
    OBVIOUS
  <2> QED BY <2>1
<1>2. PICK p \in Nat, z \in 0 .. c - 1 : q \div c = p /\ q = c * p + z
  <2>1. q \div c \in Nat /\ q % c \in 0 .. c - 1 /\ q = c * (q \div c) + (q % c)
    OBVIOUS
  <2> QED BY <2>1
<1> DEFINE rest == b * z + y
           s == b * c
<1>3. s \in Nat \ {0} /\ rest \in Nat
  OBVIOUS
<1>4. n = p * s + rest
  <2>1. b * q = b * (c * p) + b * z
    BY <1>2
  <2>2. b * (c * p) = p * s
    OBVIOUS
  <2> QED BY <1>1, <2>1, <2>2
<1>5. rest < s
  <2>1. b * z <= b * (c - 1)
    OBVIOUS
  <2>2. b * (c - 1) = s - b
    OBVIOUS
  <2> QED BY <1>1, <2>1, <2>2
<1>6. n \div s = p
  <2> HIDE DEF s, rest
  <2> QED BY <1>3, <1>4, <1>5, DivUnique
<1> QED BY <1>1, <1>2, <1>6 DEF s

LEMMA Quotient ==
  ASSUME NEW r \in Nat, r >= 2, NEW n \in Nat, n >= r
  PROVE  n \div r \in 1 .. n - 1
<1> DEFINE q == n \div r
           z == n % r
<1>1. q \in Nat /\ z \in 0 .. r - 1 /\ n = r * q + z
  OBVIOUS
<1> HIDE DEF q, z
<1>2. q # 0
  BY <1>1
<1>3. r * q >= 2 * q
  BY <1>1
<1>4. q <= n - 1
  BY <1>1, <1>2, <1>3
<1> QED BY <1>1, <1>2, <1>4 DEF q

LEMMA UnsignedSteps ==
  ASSUME NEW radix \in Nat, radix >= 2, NEW number \in Nat
  PROVE  printf_unsigned(number, radix) =
           IF number < radix THEN <<g_HexChars[number + 1]>>
           ELSE Append(printf_unsigned(number \div radix, radix), g_HexChars[(number % radix) + 1])
<1> DEFINE One(n) == <<g_HexChars[n + 1]>>
           More(s, n) == Append(s, g_HexChars[(n % radix) + 1])
           q(n) == n \div radix
           Step(n, g) == IF n < radix THEN One(n) ELSE More(g[q(n)], n)
           f(N) == CHOOSE g : g = [n \in 0 .. N |-> Step(n, g)]
           Good(N) == \E g : g = [n \in 0 .. N |-> Step(n, g)]
           S == {N \in Nat : Good(N)}
<1>f. \A N \in Nat : printf_unsigned(N, radix) = f(N)[N]
  BY DEF printf_unsigned
<1>q. \A n \in Nat : n >= radix => q(n) \in 1 .. n - 1
  BY Quotient
<1> HIDE DEF One, More, q
<1>1. Good(0)
  <2> DEFINE g == [n \in 0 .. 0 |-> One(0)]
  <2>1. g = [n \in 0 .. 0 |-> Step(n, g)]
    OBVIOUS
  <2> QED BY <2>1
<1>2. ASSUME NEW N \in Nat, Good(N) PROVE Good(N + 1)
  <2>1. PICK g : g = [n \in 0 .. N |-> Step(n, g)]
    BY <1>2
  <2> DEFINE h == [n \in 0 .. N + 1 |-> IF n = N + 1 THEN Step(N + 1, g) ELSE g[n]]
  <2>2. \A n \in 0 .. N + 1 : n >= radix => q(n) \in 0 .. N /\ h[q(n)] = g[q(n)]
    <3> SUFFICES ASSUME NEW n \in 0 .. N + 1, n >= radix PROVE q(n) \in 0 .. N
      OBVIOUS
    <3> QED BY <1>q
  <2>3. \A n \in 0 .. N + 1 : Step(n, g) = Step(n, h)
    <3> SUFFICES ASSUME NEW n \in 0 .. N + 1 PROVE Step(n, g) = Step(n, h)
      OBVIOUS
    <3>1. CASE n < radix
      BY <3>1
    <3>2. CASE n >= radix
      BY <3>2, <2>2
    <3> QED BY <3>1, <3>2
  <2>4. h = [n \in 0 .. N + 1 |-> Step(n, g)]
    BY <2>1
  <2>5. [n \in 0 .. N + 1 |-> Step(n, g)] = [n \in 0 .. N + 1 |-> Step(n, h)]
    <3> HIDE DEF Step, h
    <3> QED BY <2>3
  <2> HIDE DEF h
  <2> QED BY <2>4, <2>5
<1>3. \A N \in Nat : Good(N)
  <2> HIDE DEF Good
  <2>1. 0 \in S /\ \A n \in Nat : n \in S => n + 1 \in S
    BY <1>1, <1>2
  <2> HIDE DEF S
  <2>2. Nat \subseteq S
    BY <2>1, Induction
  <2> QED BY <2>2 DEF S
<1>4. \A N \in Nat : f(N) = [n \in 0 .. N |-> Step(n, f(N))]
  <2> HIDE DEF Step
  <2> QED BY <1>3
<1> HIDE DEF f
<1>5. \A N \in Nat : \A n \in 0 .. N : f(N)[n] = Step(n, f(N))
  <2> HIDE DEF Step
  <2> QED BY <1>4
<1>6. ASSUME NEW N \in Nat, NEW M \in Nat PROVE \A n \in Nat : n <= N /\ n <= M => f(N)[n] = f(M)[n]
  <2> DEFINE Same == {n \in Nat : n <= N /\ n <= M => f(N)[n] = f(M)[n]}
  <2>1. ASSUME NEW n \in Nat, \A m \in 0 .. n - 1 : m \in Same PROVE n \in Same
    <3> SUFFICES ASSUME n <= N, n <= M PROVE f(N)[n] = f(M)[n]
      OBVIOUS
    <3>1. f(N)[n] = Step(n, f(N)) /\ f(M)[n] = Step(n, f(M))
      BY <1>5
    <3>2. CASE n < radix
      BY <3>1, <3>2
    <3>3. CASE n >= radix
      <4>1. q(n) \in 0 .. n - 1 /\ q(n) \in Nat /\ q(n) <= N /\ q(n) <= M
        BY <1>q, <3>3
      <4>2. f(N)[q(n)] = f(M)[q(n)]
        BY <4>1, <2>1
      <4> QED BY <3>1, <3>3, <4>2
    <3> QED BY <3>2, <3>3
  <2>2. Nat \subseteq Same
    <3> HIDE DEF Same
    <3> QED BY <2>1, CompleteInduction
  <2> QED BY <2>2
<1>7. f(number)[number] = Step(number, f(number))
  BY <1>5
<1>8. CASE number < radix
  BY <1>f, <1>7, <1>8 DEF One
<1>9. CASE number >= radix
  <2>1. q(number) \in Nat /\ q(number) <= number
    BY <1>q, <1>9
  <2>2. f(number)[q(number)] = f(q(number))[q(number)]
    BY <2>1, <1>6
  <2>3. printf_unsigned(number, radix) = More(printf_unsigned(q(number), radix), number)
    BY <1>f, <1>7, <1>9, <2>1, <2>2
  <2> QED BY <1>9, <2>3 DEF More, q
<1> QED BY <1>8, <1>9

LEMMA PowerGrows ==
  ASSUME NEW r \in Nat, r >= 2
  PROVE  \A j \in Nat, k \in Nat :
           Power(r, j) \in Nat /\ Power(r, j) >= 1 /\ (j <= k => Power(r, j) <= Power(r, k))
<1> DEFINE P(n) == Power(r, n)
<1>1. P(0) = 1 /\ \A n \in Nat : P(n) \in Nat /\ P(n + 1) = r * P(n)
  BY PowerSteps
<1> HIDE DEF P
<1>2. \A n \in Nat : P(n + 1) >= P(n)
  <2> TAKE n \in Nat
  <2> DEFINE p == P(n)
  <2>1. p \in Nat /\ P(n + 1) = r * p
    BY <1>1
  <2> HIDE DEF p
  <2>2. r * p >= 1 * p
    BY <2>1
  <2> QED BY <2>1, <2>2 DEF p
<1>3. \A n \in Nat : P(n) >= 1
  <2> DEFINE S == {n \in Nat : P(n) >= 1}
  <2>1. 0 \in S /\ \A n \in Nat : n \in S => n + 1 \in S
    BY <1>1, <1>2
  <2>2. Nat \subseteq S
    <3> HIDE DEF S
    <3> QED BY <2>1, Induction
  <2> QED BY <2>2
<1>4. \A j \in Nat : \A k \in Nat : j <= k => P(j) <= P(k)
  <2> TAKE j \in Nat
  <2> DEFINE S == {k \in Nat : j <= k => P(j) <= P(k)}
  <2>1. 0 \in S /\ \A n \in Nat : n \in S => n + 1 \in S
    BY <1>1, <1>2
  <2>2. Nat \subseteq S
    <3> HIDE DEF S
    <3> QED BY <2>1, Induction
  <2> QED BY <2>2
<1> QED BY <1>1, <1>3, <1>4 DEF P

\* A number has one shortest length, so the CHOOSE of Numeral is that one.
LEMMA LengthUnique ==
  ASSUME NEW r \in Nat, r >= 2, NEW n \in Nat, NEW j \in Nat \ {0}, NEW k \in Nat \ {0},
         HasLength(n, r, j), HasLength(n, r, k)
  PROVE  j = k
<1>1. ASSUME NEW a \in Nat \ {0}, NEW b \in Nat \ {0}, HasLength(n, r, a), HasLength(n, r, b), a < b
      PROVE  FALSE
  <2>1. a \in Nat /\ b - 1 \in Nat /\ a <= b - 1 /\ b > 1
    BY <1>1
  <2>2. Power(r, a) <= Power(r, b - 1) /\ Power(r, a) \in Nat /\ Power(r, b - 1) \in Nat
    BY <2>1, PowerGrows
  <2>3. n < Power(r, a) /\ n >= Power(r, b - 1)
    BY <1>1, <2>1 DEF HasLength
  <2> QED BY <2>2, <2>3
<1> QED BY <1>1

Digits(n, r, k) == [i \in 1 .. k |-> g_HexChars[((n \div Power(r, k - i)) % r) + 1]]

LEMMA NumeralIs ==
  ASSUME NEW r \in Nat, r >= 2, NEW n \in Nat, NEW k \in 1 .. n + 1, HasLength(n, r, k)
  PROVE  Numeral(n, r) = Digits(n, r, k)
<1> DEFINE length == CHOOSE j \in 1 .. n + 1 : HasLength(n, r, j)
<1>1. length \in 1 .. n + 1 /\ HasLength(n, r, length)
  <2> HIDE DEF HasLength
  <2> QED OBVIOUS
<1>2. Numeral(n, r) = Digits(n, r, length)
  BY DEF Numeral, Digits
<1> HIDE DEF length
<1>3. length = k
  BY <1>1, LengthUnique
<1> QED BY <1>2, <1>3

\* A number is one digit longer than its quotient.
LEMMA LongerNumeral ==
  ASSUME NEW r \in Nat, r >= 2, NEW n \in Nat, n >= r, NEW k \in Nat \ {0}, k <= (n \div r) + 1,
         HasLength(n \div r, r, k)
  PROVE  k + 1 <= n + 1 /\ HasLength(n, r, k + 1)
<1> DEFINE q == n \div r
           z == n % r
<1>1. q \in Nat /\ z \in 0 .. r - 1 /\ n = r * q + z
  OBVIOUS
<1>2. q \in 1 .. n - 1
  BY Quotient
<1>3. q < Power(r, k) /\ (k > 1 => q >= Power(r, k - 1)) /\ k <= q + 1
  BY DEF HasLength
<1> HIDE DEF q, z
<1> DEFINE p == Power(r, k)
<1>4. p \in Nat /\ Power(r, k + 1) = r * p
  BY PowerSteps
<1>5. n < r * p
  <2> HIDE DEF p
  <2>1. q + 1 <= p
    BY <1>1, <1>3, <1>4 DEF p
  <2>2. r * (q + 1) <= r * p
    BY <1>1, <1>4, <2>1
  <2>3. r * (q + 1) = r * q + r
    BY <1>1
  <2>4. r * p \in Nat /\ r * q \in Nat
    BY <1>1, <1>4
  <2> QED BY <1>1, <2>2, <2>3, <2>4
<1>6. n >= p
  <2>1. CASE k = 1
    <3>1. p = r * 1
      BY <2>1, PowerSteps
    <3>2. p = r
      BY <3>1
    <3> HIDE DEF p
    <3> QED BY <3>2
  <2>2. CASE k > 1
    <3> DEFINE o == Power(r, k - 1)
    <3>1. k - 1 \in Nat /\ (k - 1) + 1 = k
      BY <2>2
    <3>2. o \in Nat /\ p = r * o
      BY <3>1, PowerSteps
    <3>3. q >= o
      BY <1>3, <2>2
    <3> HIDE DEF o, p
    <3>4. r * q >= r * o
      BY <1>1, <3>2, <3>3
    <3>5. r * q \in Nat /\ r * o \in Nat
      BY <1>1, <3>2
    <3> QED BY <1>1, <3>2, <3>4, <3>5
  <2> QED BY <2>1, <2>2
<1>7. k + 1 > 1 /\ (k + 1) - 1 = k
  OBVIOUS
<1>8. HasLength(n, r, k + 1)
  BY <1>4, <1>5, <1>6, <1>7 DEF HasLength
<1>9. k + 1 <= n + 1
  BY <1>2, <1>3
<1> QED BY <1>8, <1>9

\* Its digits are those of the quotient and one more.
LEMMA LongerDigits ==
  ASSUME NEW r \in Nat, r >= 2, NEW n \in Nat, NEW k \in Nat \ {0}
  PROVE  /\ Digits(n, r, k + 1)[k + 1] = g_HexChars[(n % r) + 1]
         /\ \A i \in 1 .. k : Digits(n, r, k + 1)[i] = Digits(n \div r, r, k)[i]
<1>1. Digits(n, r, k + 1)[k + 1] = g_HexChars[(n % r) + 1]
  <2>1. k + 1 \in 1 .. k + 1 /\ (k + 1) - (k + 1) = 0
    OBVIOUS
  <2>2. Power(r, 0) = 1 /\ n \div 1 = n
    BY PowerSteps
  <2> QED BY <2>1, <2>2 DEF Digits
<1>2. ASSUME NEW i \in 1 .. k PROVE Digits(n, r, k + 1)[i] = Digits(n \div r, r, k)[i]
  <2> DEFINE p == Power(r, k - i)
  <2>1. k - i \in Nat /\ (k + 1) - i = (k - i) + 1 /\ i \in 1 .. k + 1
    OBVIOUS
  <2>2. p \in Nat \ {0} /\ Power(r, (k + 1) - i) = r * p
    BY <2>1, PowerSteps, PowerGrows
  <2> HIDE DEF p
  <2>3. (n \div r) \div p = n \div (r * p)
    BY <2>2, DivideTwice
  <2> QED BY <2>1, <2>2, <2>3 DEF Digits, p
<1> QED BY <1>1, <1>2

LEMMA DigitsSequence ==
  ASSUME NEW r \in Nat, r >= 2, r <= 16, NEW n \in Nat, NEW k \in Nat
  PROVE  Digits(n, r, k) \in Seq(Characters) /\ Len(Digits(n, r, k)) = k
<1>1. Len(g_HexChars) = 16
  BY DEF g_HexChars
<1>2. g_HexChars \in Seq(Characters)
  BY PrintfAssumption
<1>3. \A d \in 0 .. r - 1 : g_HexChars[d + 1] \in Characters
  <2> HIDE DEF g_HexChars
  <2>1. \A d \in 1 .. Len(g_HexChars) : g_HexChars[d] \in Characters
    BY <1>2, ElementOfSeq
  <2> QED BY <1>1, <2>1
<1>4. \A i \in 1 .. k : (n \div Power(r, k - i)) % r \in 0 .. r - 1
  <2> TAKE i \in 1 .. k
  <2> DEFINE p == Power(r, k - i)
  <2>1. k - i \in Nat
    OBVIOUS
  <2>2. p \in Nat /\ p >= 1
    BY <2>1, PowerGrows
  <2> HIDE DEF p
  <2>3. n \div p \in Nat
    BY <2>2
  <2> QED BY <2>3 DEF p
<1>5. Digits(n, r, k) \in [1 .. k -> Characters]
  BY <1>3, <1>4 DEF Digits
<1> HIDE DEF Digits
<1>6. Digits(n, r, k) \in Seq(Characters)
  BY <1>5, SeqDef
<1>7. DOMAIN Digits(n, r, k) = 1 .. k
  BY <1>5
<1>8. Len(Digits(n, r, k)) = k
  BY <1>6, <1>7, LenProperties
<1> QED BY <1>6, <1>8

(***************************************************************************)
(* The digits that printf_unsigned of stdio.c takes from a number, from    *)
(* the last to the first, spell the shortest numeral that stands for it:   *)
(* for every number and every radix that g_HexChars has digits for.        *)
(***************************************************************************)
THEOREM UnsignedNumeral ==
  ASSUME NEW r \in Nat, r >= 2, r <= 16, NEW number \in Nat
  PROVE  /\ printf_unsigned(number, r) = Numeral(number, r)
         /\ Numeral(number, r) \in Seq(Characters)
<1> DEFINE Spells(n, k) == HasLength(n, r, k) /\ printf_unsigned(n, r) = Digits(n, r, k)
           S == {n \in Nat : \E k \in 1 .. n + 1 : Spells(n, k)}
<1>1. ASSUME NEW n \in Nat, n < r PROVE Spells(n, 1) /\ 1 \in 1 .. n + 1
  <2>1. Power(r, 0) = 1 /\ Power(r, 0 + 1) = r * 1 /\ n \div 1 = n /\ n % r = n
    BY PowerSteps, <1>1
  <2>2. HasLength(n, r, 1)
    BY <2>1, <1>1 DEF HasLength
  <2>3. printf_unsigned(n, r) = <<g_HexChars[n + 1]>>
    BY UnsignedSteps, <1>1
  <2>4. Digits(n, r, 1) = [i \in 1 .. 1 |-> g_HexChars[n + 1]]
    <3>1. \A i \in 1 .. 1 : (n \div Power(r, 1 - i)) % r = n
      BY <2>1
    <3> QED BY <3>1 DEF Digits
  <2>5. [i \in 1 .. 1 |-> g_HexChars[n + 1]] = <<g_HexChars[n + 1]>>
    <3> HIDE DEF g_HexChars
    <3> QED OBVIOUS
  <2> QED BY <2>2, <2>3, <2>4, <2>5
<1>2. ASSUME NEW n \in Nat, n >= r, NEW k \in 1 .. (n \div r) + 1, Spells(n \div r, k)
      PROVE  Spells(n, k + 1) /\ k + 1 \in 1 .. n + 1
  <2> DEFINE q == n \div r
             d == g_HexChars[(n % r) + 1]
  <2>0. q \in 1 .. n - 1
    BY <1>2, Quotient
  <2>1. q \in Nat /\ k \in Nat \ {0} /\ k + 1 \in Nat /\ k <= q + 1
    BY <2>0
  <2>2. HasLength(n, r, k + 1) /\ k + 1 <= n + 1
    <3>1. n >= r /\ HasLength(n \div r, r, k) /\ k <= (n \div r) + 1
      BY <1>2, <2>1
    <3> QED BY <2>1, <3>1, LongerNumeral
  <2>3. printf_unsigned(n, r) = Append(Digits(q, r, k), d)
    <3>1. ~(n < r) /\ printf_unsigned(q, r) = Digits(q, r, k)
      BY <1>2
    <3>2. printf_unsigned(n, r) = IF n < r THEN <<g_HexChars[n + 1]>>
                                  ELSE Append(printf_unsigned(n \div r, r), d)
      BY UnsignedSteps
    <3> QED BY <3>1, <3>2
  <2>4. Digits(q, r, k) \in Seq(Characters) /\ Len(Digits(q, r, k)) = k
    BY <2>1, DigitsSequence
  <2>5. Digits(n, r, k + 1) \in Seq(Characters) /\ Len(Digits(n, r, k + 1)) = k + 1
    BY <2>1, DigitsSequence
  <2>6. Digits(n, r, k + 1)[k + 1] = d /\ \A i \in 1 .. k : Digits(n, r, k + 1)[i] = Digits(q, r, k)[i]
    BY <2>1, LongerDigits
  <2>7. k + 1 \in 1 .. Len(Digits(n, r, k + 1))
    BY <2>5, <2>1
  <2>8. d \in Characters
    <3> HIDE DEF d
    <3> QED BY <2>5, <2>6, <2>7, ElementOfSeq
  <2> HIDE DEF d, q
  <2>9. Append(Digits(q, r, k), d) = Digits(n, r, k + 1)
    <3> DEFINE a == Digits(q, r, k)
               b == Digits(n, r, k + 1)
               c == Append(a, d)
    <3> HIDE DEF a, b
    <3>1. c \in Seq(Characters) /\ Len(c) = k + 1 /\ c[k + 1] = d /\ \A i \in 1 .. k : c[i] = a[i]
      BY <2>4, <2>8, AppendProperties DEF a
    <3>2. b \in Seq(Characters) /\ Len(b) = Len(c) /\ \A i \in 1 .. k : b[i] = a[i]
      BY <2>5, <2>6, <3>1 DEF a, b
    <3>3. b[k + 1] = d
      BY <2>6 DEF b
    <3> HIDE DEF c
    <3>4. \A i \in 1 .. Len(c) : c[i] = b[i]
      BY <3>1, <3>2, <3>3, <2>1
    <3>5. c = b
      BY <3>1, <3>2, <3>4, SeqEqual
    <3> QED BY <3>5 DEF a, b, c
  <2> QED BY <2>2, <2>3, <2>9, <2>1 DEF d, q
<1>3. Nat \subseteq S
  <2> HIDE DEF Spells
  <2>1. ASSUME NEW n \in Nat, \A m \in 0 .. n - 1 : m \in S PROVE n \in S
    <3>1. CASE n < r
      BY <1>1, <3>1
    <3>2. CASE n >= r
      <4>1. n \div r \in 0 .. n - 1
        <5>1. n \div r \in 1 .. n - 1
          BY Quotient, <3>2
        <5> QED BY <5>1
      <4>2. PICK k \in 1 .. (n \div r) + 1 : Spells(n \div r, k)
        BY <4>1, <2>1
      <4> QED BY <4>2, <3>2, <1>2
    <3> QED BY <3>1, <3>2
  <2> HIDE DEF S
  <2> QED BY <2>1, CompleteInduction
<1>4. PICK k \in 1 .. number + 1 : Spells(number, k)
  BY <1>3
<1>5. Numeral(number, r) = Digits(number, r, k)
  BY <1>4, NumeralIs
<1>6. Digits(number, r, k) \in Seq(Characters)
  BY DigitsSequence
<1> QED BY <1>4, <1>5, <1>6

LEMMA Radices ==
  ASSUME NEW spec \in NumberSpecs
  PROVE  RadixOf(spec) \in Nat /\ RadixOf(spec) >= 2 /\ RadixOf(spec) <= 16
BY DEF NumberSpecs, DecimalSpecs, HexSpecs, RadixOf

Printed(spec, bits, range) ==
  IF spec \in SignedSpecs THEN printf_signed(Signed(bits, range), RadixOf(spec))
                          ELSE printf_unsigned(bits, RadixOf(spec))

\* A conversion of a number prints its shortest numeral, with its sign.
LEMMA NumberRendered ==
  ASSUME NEW spec \in NumberSpecs, NEW range \in Nat, NEW bits \in 0 .. range - 1
  PROVE  /\ Printed(spec, bits, range) = RenderedNumber(spec, bits, range)
         /\ RenderedNumber(spec, bits, range) \in Seq(Characters)
<1> DEFINE r == RadixOf(spec)
           value == IF spec \in SignedSpecs THEN Signed(bits, range) ELSE bits
<1>1. r \in Nat /\ r >= 2 /\ r <= 16
  BY Radices
<1>2. value \in Int /\ (spec \notin SignedSpecs => value >= 0)
  BY DEF Signed
<1>3. RenderedNumber(spec, bits, range) =
        IF value < 0 THEN <<"-">> \o Numeral(0 - value, r) ELSE Numeral(value, r)
  BY DEF RenderedNumber
<1>4. Printed(spec, bits, range) =
        IF value < 0 THEN <<"-">> \o printf_unsigned(0 - value, r) ELSE printf_unsigned(value, r)
  <2>1. -value = 0 - value
    BY <1>2
  <2>2. CASE spec \in SignedSpecs
    <3>1. Printed(spec, bits, range) = printf_signed(value, r)
      BY <2>2 DEF Printed
    <3> HIDE DEF value, r
    <3> QED BY <2>1, <3>1 DEF printf_signed
  <2>3. CASE spec \notin SignedSpecs
    <3>1. Printed(spec, bits, range) = printf_unsigned(value, r) /\ ~(value < 0)
      BY <1>2, <2>3 DEF Printed
    <3> HIDE DEF value, r
    <3> QED BY <3>1
  <2> QED BY <2>2, <2>3
<1> HIDE DEF value, r
<1>5. CASE value < 0
  <2>1. 0 - value \in Nat
    BY <1>2, <1>5
  <2>2. /\ printf_unsigned(0 - value, r) = Numeral(0 - value, r)
        /\ Numeral(0 - value, r) \in Seq(Characters)
    BY <1>1, <2>1, UnsignedNumeral
  <2>3. <<"-">> \in Seq(Characters)
    BY PrintfAssumption
  <2>4. <<"-">> \o Numeral(0 - value, r) \in Seq(Characters)
    BY <2>2, <2>3, ConcatProperties
  <2> QED BY <1>3, <1>4, <1>5, <2>2, <2>4
<1>6. CASE value >= 0
  <2>1. value \in Nat /\ ~(value < 0)
    BY <1>2, <1>6
  <2>2. printf_unsigned(value, r) = Numeral(value, r) /\ Numeral(value, r) \in Seq(Characters)
    BY <1>1, <2>1, UnsignedNumeral
  <2> QED BY <1>3, <1>4, <2>1, <2>2
<1> QED BY <1>2, <1>5, <1>6

-----------------------------------------------------------------------------
(* The state machine of printf, one item of a message at a time.           *)

Words == 0 .. WORD - 1

PrintfState(state, length, left, sent) ==
  [state |-> state, length |-> length, radix |-> 10, sign |-> FALSE, number |-> FALSE,
   args |-> left, sent |-> sent]
Plain(flag, left, sent) ==
  [state |-> "normal", length |-> "default", radix |-> 10, sign |-> flag, number |-> flag,
   args |-> left, sent |-> sent]
Ready(left, sent) == PrintfState("normal", "default", left, sent)

LEMMA FreshReady ==
  ASSUME NEW left
  PROVE  [Fresh EXCEPT !.args = left] = Ready(left, <<>>)
<1>1. \A e, f : [Plain(f, e, e) EXCEPT !.args = left] = Plain(f, left, e)
  BY DEF Plain
<1>2. Fresh = Plain(FALSE, <<>>, <<>>)
  BY Zenon DEF Fresh, Plain
<1> QED BY Zenon, <1>1, <1>2 DEF Ready, PrintfState, Plain

LEMMA LiteralRead ==
  ASSUME NEW c, c # "%", NEW left, NEW sent
  PROVE  FormatCharacter(Ready(left, sent), c) = Ready(left, Append(sent, c))
BY DEF FormatCharacter, Ready, PrintfState

LEMMA LengthRead ==
  ASSUME NEW left, NEW sent
  PROVE  /\ FormatCharacter(Ready(left, sent), "%") = PrintfState("length", "default", left, sent)
         /\ FormatCharacter(PrintfState("length", "default", left, sent), "h") =
              PrintfState("h", "short", left, sent)
         /\ FormatCharacter(PrintfState("length", "default", left, sent), "l") =
              PrintfState("l", "long", left, sent)
         /\ FormatCharacter(PrintfState("h", "short", left, sent), "h") =
              PrintfState("spec", "short short", left, sent)
         /\ FormatCharacter(PrintfState("l", "long", left, sent), "l") =
              PrintfState("spec", "long long", left, sent)
BY DEF FormatCharacter, Ready, PrintfState

LEMMA SpecRead ==
  ASSUME NEW left, NEW sent, NEW state, NEW length, state \in {"length", "h", "l", "spec"},
         NEW c, c \notin {"h", "l"}
  PROVE  FormatCharacter(PrintfState(state, length, left, sent), c) =
           PRINTF_STATE_SPEC(PrintfState(state, length, left, sent), c)
BY DEF FormatCharacter, PrintfState

LEMMA ResetReady ==
  ASSUME NEW s, NEW left, NEW sent, s.args = left, s.sent = sent
  PROVE  ResetState(s) = Ready(left, sent)
<1>1. ASSUME NEW e, NEW f
      PROVE  [Plain(f, e, e) EXCEPT !.args = left, !.sent = sent] = Plain(f, left, sent)
  <2> DEFINE r == Plain(f, e, e)
  <2>1. [r EXCEPT !.args = left, !.sent = sent] = [[r EXCEPT !.args = left] EXCEPT !.sent = sent]
    <3>1. r = Plain(f, e, e)
      OBVIOUS
    <3> HIDE DEF r
    <3> QED BY SMT, <3>1 DEF Plain
  <2>2. [r EXCEPT !.args = left] = Plain(f, left, e)
    BY DEF Plain
  <2>3. [Plain(f, left, e) EXCEPT !.sent = sent] = Plain(f, left, sent)
    BY DEF Plain
  <2> QED BY Zenon, <2>1, <2>2, <2>3
<1>2. Fresh = Plain(FALSE, <<>>, <<>>)
  BY Zenon DEF Fresh, Plain
<1>3. ResetState(s) = [Fresh EXCEPT !.args = left, !.sent = sent]
  BY Zenon DEF ResetState
<1> QED BY Zenon, <1>1, <1>2, <1>3 DEF Ready, PrintfState, Plain

LEMMA NoWords ==
  ASSUME NEW left \in Seq(Words)
  PROVE  SubSeq(left, 0 + 1, Len(left)) = left
BY SubSeqFull

\* Any other conversion takes the words of its item, and resets the state.
LEMMA OtherSpec ==
  ASSUME NEW state, NEW length, NEW left \in Seq(Words), NEW sent \in Seq(Characters),
         NEW c \in Characters, c \notin NumberSpecs, NEW text,
         WordsOf(Convert(text, c)) <= Len(left)
  PROVE  PRINTF_STATE_SPEC(PrintfState(state, length, left, sent), c) =
           Ready(SubSeq(left, WordsOf(Convert(text, c)) + 1, Len(left)),
                 sent \o RenderedItem(Convert(text, c), left))
<1> DEFINE s == PrintfState(state, length, left, sent)
           item == Convert(text, c)
<1>1. item.spec = c /\ c # "literal" /\ ~IsWide(item)
  BY PrintfAssumption DEF Convert, IsWide
<1>2. s.args = left /\ s.sent = sent /\ s.number = FALSE
  BY DEF PrintfState
<1> HIDE DEF s, item
<1>3. ASSUME NEW t, Conversion(s, c) = t, t.number = FALSE
      PROVE  PRINTF_STATE_SPEC(s, c) = Ready(t.args, t.sent)
  <2>1. PRINTF_STATE_SPEC(s, c) = ResetState(t)
    BY <1>3 DEF PRINTF_STATE_SPEC, PrintNumber
  <2> QED BY <2>1, ResetReady
<1>4. CASE c = "c"
  <2>1. WordsOf(item) = 1 /\ RenderedItem(item, left) = <<CharOf[left[1]]>>
    BY <1>1, <1>4 DEF WordsOf, RenderedItem, NumberSpecs, DecimalSpecs, HexSpecs
  <2>2. Arg(s, 1) = left[1] /\ left[1] \in Words
    BY <1>2, <2>1 DEF Arg, item
  <2>3. CharOf[left[1]] \in Characters
    BY <2>2, PrintfAssumption DEF Words
  <2> DEFINE t == PrintfState(state, length, SubSeq(left, 1 + 1, Len(left)),
                              Append(sent, CharOf[left[1]]))
  <2>4. Conversion(s, c) = t
    BY <1>4, <2>2 DEF Conversion, Consumed, s, PrintfState
  <2>5. /\ t.number = FALSE /\ t.args = SubSeq(left, 1 + 1, Len(left))
        /\ t.sent = Append(sent, CharOf[left[1]])
    BY DEF PrintfState
  <2>6. Append(sent, CharOf[left[1]]) = sent \o <<CharOf[left[1]]>>
    BY <2>3, AppendIsConcat
  <2> HIDE DEF t
  <2> QED BY <1>3, <2>1, <2>4, <2>5, <2>6 DEF s, item
<1>5. CASE c = "s"
  <2>1. WordsOf(item) = 1 /\ RenderedItem(item, left) = StringAt[left[1]]
    BY <1>1, <1>5 DEF WordsOf, RenderedItem, NumberSpecs, DecimalSpecs, HexSpecs
  <2>2. Arg(s, 1) = left[1]
    BY <1>2, <2>1 DEF Arg, item
  <2> DEFINE t == PrintfState(state, length, SubSeq(left, 1 + 1, Len(left)), sent \o StringAt[left[1]])
  <2>4. Conversion(s, c) = t
    BY <1>5, <2>2 DEF Conversion, Consumed, s, PrintfState
  <2>5. /\ t.number = FALSE /\ t.args = SubSeq(left, 1 + 1, Len(left))
        /\ t.sent = sent \o StringAt[left[1]]
    BY DEF PrintfState
  <2> HIDE DEF t
  <2> QED BY <1>3, <2>1, <2>4, <2>5 DEF s, item
<1>6. CASE c = "%"
  <2>1. WordsOf(item) = 0 /\ RenderedItem(item, left) = <<"%">>
    BY <1>1, <1>6 DEF WordsOf, RenderedItem, NumberSpecs, DecimalSpecs, HexSpecs
  <2> DEFINE t == PrintfState(state, length, left, Append(sent, "%"))
  <2>4. Conversion(s, c) = t
    BY <1>6 DEF Conversion, s, PrintfState
  <2>5. t.number = FALSE /\ t.args = left /\ t.sent = Append(sent, "%")
    BY DEF PrintfState
  <2>6. Append(sent, "%") = sent \o <<"%">>
    BY <1>6, AppendIsConcat
  <2> HIDE DEF t
  <2> QED BY <1>3, <2>1, <2>4, <2>5, <2>6, NoWords DEF s, item
<1>7. CASE c \notin {"c", "s", "%"}
  <2>1. WordsOf(item) = 0 /\ RenderedItem(item, left) = <<>>
    BY <1>1, <1>7 DEF WordsOf, RenderedItem
  <2>2. Conversion(s, c) = s
    BY <1>7 DEF Conversion
  <2>3. sent \o <<>> = sent
    BY ConcatEmptySeq
  <2> QED BY <1>2, <1>3, <2>1, <2>2, <2>3, NoWords DEF s, item
<1> QED BY <1>4, <1>5, <1>6, <1>7

LEMMA WideBits ==
  ASSUME NEW w \in Nat, NEW a \in 0 .. w - 1, NEW b \in 0 .. w - 1
  PROVE  w * w \in Nat /\ a + w * b \in 0 .. w * w - 1
<1>1. w * b \in Nat /\ w * w \in Nat
  OBVIOUS
<1>2. w * b <= w * (w - 1)
  OBVIOUS
<1>3. w * (w - 1) = w * w - w
  OBVIOUS
<1> QED BY <1>1, <1>2, <1>3

Converted(state, length, left, sent, c) ==
  [state |-> state, length |-> length, radix |-> RadixOf(c), sign |-> c \in SignedSpecs,
   number |-> TRUE, args |-> left, sent |-> sent]

Prints(t, c, bits, range, words) ==
  PrintNumber(t) = [t EXCEPT !.sent = @ \o Printed(c, bits, range), !.args = Consumed(t, words)]

LEMMA NumberPrinted ==
  ASSUME NEW state, NEW length, NEW left, NEW sent, NEW c \in NumberSpecs,
         NEW range \in Nat, NEW bits \in 0 .. range - 1, NEW words,
         Prints(Converted(state, length, left, sent, c), c, bits, range, words)
  PROVE  PRINTF_STATE_SPEC(PrintfState(state, length, left, sent), c) =
           Ready(SubSeq(left, words + 1, Len(left)), sent \o RenderedNumber(c, bits, range))
<1> DEFINE s == PrintfState(state, length, left, sent)
           t == Converted(state, length, left, sent, c)
           u == [t EXCEPT !.sent = @ \o Printed(c, bits, range), !.args = Consumed(t, words)]
<1>1. c \notin {"%", "c", "s"}
  BY DEF NumberSpecs, DecimalSpecs, HexSpecs
<1>2. Conversion(s, c) = t
  <2>1. Conversion(s, c) = [s EXCEPT !.radix = RadixOf(c), !.sign = c \in SignedSpecs, !.number = TRUE]
    <3> HIDE DEF s
    <3> QED BY <1>1 DEF Conversion
  <2> QED BY <2>1 DEF Converted, PrintfState
<1>3. t.args = left /\ t.sent = sent
  BY DEF Converted
<1>4. Consumed(t, words) = SubSeq(left, words + 1, Len(left))
  <2> HIDE DEF t
  <2> QED BY <1>3 DEF Consumed
<1>5. u.args = SubSeq(left, words + 1, Len(left)) /\ u.sent = sent \o Printed(c, bits, range)
  <2> DEFINE chars == Printed(c, bits, range)
             rest == Consumed(t, words)
             longer == t.sent \o chars
  <2>1. u = [t EXCEPT !.sent = longer, !.args = rest]
    OBVIOUS
  <2>2. DOMAIN t = {"state", "length", "radix", "sign", "number", "args", "sent"}
    BY DEF Converted
  <2>3. u.args = rest /\ u.sent = longer
    <3> HIDE DEF chars, rest, longer, t
    <3> QED BY <2>1, <2>2
  <2> QED BY <2>3, <1>3, <1>4
<1>6. Printed(c, bits, range) = RenderedNumber(c, bits, range)
  BY NumberRendered
<1>7. PRINTF_STATE_SPEC(s, c) = ResetState(u)
  <2> HIDE DEF s, t, u
  <2>1. PrintNumber(t) = u
    BY DEF t, u, Prints
  <2> QED BY <1>2, <2>1 DEF PRINTF_STATE_SPEC
<1> HIDE DEF u
<1> QED BY <1>5, <1>6, <1>7, ResetReady

LongLong == <<"l", "l">>
Agrees(length, text, spec) == spec \in NumberSpecs => (length = "long long" <=> text = LongLong)

\* A conversion of a number prints what its item renders, and leaves the words
\* behind its own.
LEMMA NumberSpec ==
  ASSUME NEW state, NEW length, NEW left \in Seq(Words), NEW sent,
         NEW c \in NumberSpecs, NEW text, Agrees(length, text, c),
         WordsOf(Convert(text, c)) <= Len(left)
  PROVE  /\ PRINTF_STATE_SPEC(PrintfState(state, length, left, sent), c) =
              Ready(SubSeq(left, WordsOf(Convert(text, c)) + 1, Len(left)),
                    sent \o RenderedItem(Convert(text, c), left))
         /\ RenderedItem(Convert(text, c), left) \in Seq(Characters)
<1> DEFINE item == Convert(text, c)
           t == Converted(state, length, left, sent, c)
<1>1. item.spec = c /\ item.text = text
  BY DEF Convert
<1>2. c \notin {"literal", "%", "c", "s"}
  BY DEF NumberSpecs, DecimalSpecs, HexSpecs
<1>9. length = "long long" <=> IsWide(item)
  <2>1. length = "long long" <=> text = LongLong
    BY DEF Agrees
  <2>2. IsWide(item) <=> text = LongLong
    BY <1>1 DEF IsWide, LongLong
  <2> HIDE DEF item
  <2> QED BY <2>1, <2>2
<1>3. t.args = left /\ t.length = length /\ t.number = TRUE /\ t.sign = (c \in SignedSpecs)
      /\ t.radix = RadixOf(c) /\ t.sent = sent
  BY DEF Converted
<1>4. WORD \in Nat /\ WORD >= 2
  BY PrintfAssumption
<1>5. Len(left) \in Nat
  BY LenProperties
<1> DEFINE L == Len(left)
           w == WordsOf(item)
<1>8. L \in Nat /\ w <= L
  BY <1>5
<1> HIDE DEF item, t, L, w
<1>6. CASE length = "long long"
  <2>1. IsWide(item) /\ WordsOf(item) = 2
    BY <1>1, <1>6, <1>9 DEF WordsOf
  <2>2. 1 \in 1 .. Len(left) /\ 2 \in 1 .. Len(left)
    <3>1. w = 2
      BY <2>1 DEF w
    <3>2. 1 \in 1 .. L /\ 2 \in 1 .. L
      BY ONLY <1>8, <3>1
    <3> QED BY <3>2 DEF L
  <2>3. left[1] \in 0 .. WORD - 1 /\ left[2] \in 0 .. WORD - 1
    BY <2>2, ElementOfSeq DEF Words
  <2> DEFINE range == WORD * WORD
             bits == left[1] + WORD * left[2]
  <2>4. range \in Nat /\ bits \in 0 .. range - 1
    BY <1>4, <2>3, WideBits
  <2>5. RenderedItem(item, left) = RenderedNumber(c, bits, range)
    BY <1>1, <1>2, <2>1 DEF RenderedItem
  <2>6. Arg(t, 1) = left[1] /\ Arg(t, 2) = left[2]
    <3>1. 1 <= L /\ 2 <= L
      BY ONLY <1>8, <2>2 DEF L
    <3>2. Len(t.args) = L
      BY <1>3 DEF L
    <3> QED BY <1>3, <3>1, <3>2 DEF Arg
  <2>7. PrintNumber(t) = [t EXCEPT !.sent = @ \o Printed(c, bits, range), !.args = Consumed(t, 2)]
    BY <1>3, <1>6, <2>6 DEF PrintNumber, Printed
  <2> HIDE DEF bits, range
  <2>8. RenderedNumber(c, bits, range) \in Seq(Characters)
    BY <2>4, NumberRendered
  <2>9. PRINTF_STATE_SPEC(PrintfState(state, length, left, sent), c) =
          Ready(SubSeq(left, 2 + 1, Len(left)), sent \o RenderedNumber(c, bits, range))
    <3>1. Prints(Converted(state, length, left, sent, c), c, bits, range, 2)
      BY <2>7 DEF t, Prints
    <3> QED BY ONLY <2>4, <3>1, c \in NumberSpecs, NumberPrinted
  <2> QED BY <2>1, <2>5, <2>8, <2>9 DEF item
<1>7. CASE length # "long long"
  <2>1. ~IsWide(item) /\ WordsOf(item) = 1
    BY <1>1, <1>7, <1>9 DEF WordsOf
  <2>2. 1 \in 1 .. Len(left)
    <3>1. w = 1
      BY <2>1 DEF w
    <3>2. 1 \in 1 .. L
      BY ONLY <1>8, <3>1
    <3> QED BY <3>2 DEF L
  <2>3. left[1] \in 0 .. WORD - 1
    BY <2>2, ElementOfSeq DEF Words
  <2> DEFINE bits == left[1]
  <2>5. RenderedItem(item, left) = RenderedNumber(c, bits, WORD)
    BY <1>1, <1>2, <2>1 DEF RenderedItem
  <2>6. Arg(t, 1) = left[1]
    <3>1. 1 <= L
      BY ONLY <1>8, <2>2 DEF L
    <3>2. Len(t.args) = L
      BY <1>3 DEF L
    <3> QED BY <1>3, <3>1, <3>2 DEF Arg
  <2>7. PrintNumber(t) = [t EXCEPT !.sent = @ \o Printed(c, bits, WORD), !.args = Consumed(t, 1)]
    BY <1>3, <1>7, <2>6 DEF PrintNumber, Printed
  <2> HIDE DEF bits
  <2>8. RenderedNumber(c, bits, WORD) \in Seq(Characters)
    BY <1>4, <2>3, NumberRendered DEF bits
  <2>9. PRINTF_STATE_SPEC(PrintfState(state, length, left, sent), c) =
          Ready(SubSeq(left, 1 + 1, Len(left)), sent \o RenderedNumber(c, bits, WORD))
    <3>1. Prints(Converted(state, length, left, sent, c), c, bits, WORD, 1)
      BY <2>7 DEF t, Prints
    <3>2. bits \in 0 .. WORD - 1
      BY <2>3 DEF bits
    <3> QED BY ONLY <1>4, <3>1, <3>2, c \in NumberSpecs, NumberPrinted
  <2> QED BY <2>1, <2>5, <2>8, <2>9 DEF item
<1> QED BY <1>6, <1>7

LEMMA OtherRendered ==
  ASSUME NEW left \in Seq(Words), NEW c \in Characters, c \notin NumberSpecs, NEW text,
         WordsOf(Convert(text, c)) <= Len(left)
  PROVE  RenderedItem(Convert(text, c), left) \in Seq(Characters)
<1> DEFINE item == Convert(text, c)
<1>1. item.spec = c /\ c # "literal" /\ ~IsWide(item)
  BY PrintfAssumption DEF Convert, IsWide
<1>2. ASSUME c = "c" \/ c = "s" PROVE left[1] \in 0 .. WORD - 1
  <2>1. WordsOf(item) = 1
    BY <1>1, <1>2 DEF WordsOf
  <2>2. Len(left) \in Nat /\ 1 <= Len(left)
    BY <2>1, LenProperties
  <2>3. 1 \in 1 .. Len(left)
    BY ONLY <2>2
  <2> QED BY <2>3, ElementOfSeq DEF Words
<1> HIDE DEF item
<1>3. CASE c = "c"
  <2>1. RenderedItem(item, left) = <<CharOf[left[1]]>>
    BY <1>1, <1>3 DEF RenderedItem
  <2>2. CharOf[left[1]] \in Characters
    BY <1>2, <1>3, PrintfAssumption
  <2> QED BY <2>1, <2>2 DEF item
<1>4. CASE c = "s"
  <2>1. RenderedItem(item, left) = StringAt[left[1]]
    BY <1>1, <1>4 DEF RenderedItem
  <2> QED BY <1>2, <1>4, <2>1, PrintfAssumption DEF item
<1>5. CASE c = "%"
  <2>1. RenderedItem(item, left) = <<c>>
    BY <1>1, <1>5 DEF RenderedItem
  <2> QED BY <2>1 DEF item
<1>6. CASE c \notin {"c", "s", "%"}
  <2>1. RenderedItem(item, left) = <<>>
    BY <1>1, <1>6 DEF RenderedItem
  <2> QED BY <2>1, EmptySeq DEF item
<1> QED BY <1>3, <1>4, <1>5, <1>6

\* What reading a conversion up to its last character leaves to do.
LEMMA ConversionRead ==
  ASSUME NEW state \in {"length", "h", "l", "spec"}, NEW length, NEW left \in Seq(Words),
         NEW sent \in Seq(Characters), NEW c \in Characters \ {"h", "l"}, NEW text,
         Agrees(length, text, c),
         WordsOf(Convert(text, c)) <= Len(left)
  PROVE  /\ FormatCharacter(PrintfState(state, length, left, sent), c) =
              Ready(SubSeq(left, WordsOf(Convert(text, c)) + 1, Len(left)),
                    sent \o RenderedItem(Convert(text, c), left))
         /\ RenderedItem(Convert(text, c), left) \in Seq(Characters)
<1>1. FormatCharacter(PrintfState(state, length, left, sent), c) =
        PRINTF_STATE_SPEC(PrintfState(state, length, left, sent), c)
  <2>1. c \notin {"h", "l"}
    OBVIOUS
  <2> QED BY ONLY <2>1, state \in {"length", "h", "l", "spec"}, SpecRead
<1>0. left \in Seq(Words) /\ sent \in Seq(Characters) /\ WordsOf(Convert(text, c)) <= Len(left)
      /\ Agrees(length, text, c)
  OBVIOUS
<1>2. CASE c \in NumberSpecs
  <2>2. PRINTF_STATE_SPEC(PrintfState(state, length, left, sent), c) =
              Ready(SubSeq(left, WordsOf(Convert(text, c)) + 1, Len(left)),
                    sent \o RenderedItem(Convert(text, c), left))
        /\ RenderedItem(Convert(text, c), left) \in Seq(Characters)
    BY ONLY <1>0, <1>2, NumberSpec
  <2> QED BY <1>1, <2>2
<1>3. CASE c \notin NumberSpecs
  <2>1. c \in Characters
    OBVIOUS
  <2>2. PRINTF_STATE_SPEC(PrintfState(state, length, left, sent), c) =
              Ready(SubSeq(left, WordsOf(Convert(text, c)) + 1, Len(left)),
                    sent \o RenderedItem(Convert(text, c), left))
    BY ONLY <1>0, <1>3, <2>1, OtherSpec
  <2>3. RenderedItem(Convert(text, c), left) \in Seq(Characters)
    BY <1>3, <2>1, OtherRendered
  <2> QED BY <1>1, <2>2, <2>3
<1> QED BY <1>2, <1>3

Symbols == Characters \cup {"h", "l"}
Reading(f, args) == Formatting(f, args)[Len(f)]

\* The next character of the format, as a step of the recursion.
LEMMA CharacterRead ==
  ASSUME NEW f \in Seq(Symbols), NEW c \in Symbols, NEW args
  PROVE  /\ f \o <<c>> \in Seq(Symbols)
         /\ Reading(f \o <<c>>, args) = FormatCharacter(Reading(f, args), c)
<1> DEFINE g == f \o <<c>>
           l == Len(f)
<1>1. <<c>> \in Seq(Symbols) /\ Len(<<c>>) = 1 /\ <<c>>[1] = c
  OBVIOUS
<1>2. g \in Seq(Symbols) /\ Len(g) = l + 1 /\ g[l + 1] = c /\ \A i \in 1 .. l : g[i] = f[i]
  <2>1. Len(f) \in Nat
    BY LenProperties
  <2> QED BY <1>1, <2>1, ConcatProperties
<1>3. l \in Nat /\ Len(f) = l
  BY LenProperties
<1> HIDE DEF g, l
<1>4. /\ Formatting(f, args)[0] = [Fresh EXCEPT !.args = args]
      /\ \A n \in 1 .. l : Formatting(f, args)[n] = FormatCharacter(Formatting(f, args)[n - 1], f[n])
  BY <1>3, FormattingSteps
<1>5. /\ Formatting(g, args)[0] = [Fresh EXCEPT !.args = args]
      /\ \A n \in 1 .. l + 1 :
           Formatting(g, args)[n] = FormatCharacter(Formatting(g, args)[n - 1], g[n])
  <2>1. Len(g) \in Nat
    BY <1>2, <1>3
  <2> QED BY <1>2, <2>1, FormattingSteps
<1> DEFINE Same == {n \in Nat : n <= l => Formatting(g, args)[n] = Formatting(f, args)[n]}
<1>6. 0 \in Same
  BY <1>4, <1>5
<1>7. \A n \in Nat : n \in Same => n + 1 \in Same
  <2> SUFFICES ASSUME NEW n \in Nat, n + 1 <= l, Formatting(g, args)[n] = Formatting(f, args)[n]
               PROVE  Formatting(g, args)[n + 1] = Formatting(f, args)[n + 1]
    BY <1>3
  <2>1. n + 1 \in 1 .. l /\ n + 1 \in 1 .. l + 1 /\ (n + 1) - 1 = n
    BY <1>3
  <2>2. g[n + 1] = f[n + 1]
    BY <1>2, <2>1
  <2>3. Formatting(f, args)[n + 1] = FormatCharacter(Formatting(f, args)[n], f[n + 1])
    BY <1>4, <2>1
  <2>4. Formatting(g, args)[n + 1] = FormatCharacter(Formatting(g, args)[n], g[n + 1])
    BY <1>5, <2>1
  <2> QED BY <2>2, <2>3, <2>4
<1>8. Formatting(g, args)[l] = Formatting(f, args)[l]
  <2>1. Nat \subseteq Same
    <3> HIDE DEF Same
    <3> QED BY <1>6, <1>7, Induction
  <2> QED BY <1>3, <2>1
<1>9. Formatting(g, args)[l + 1] = FormatCharacter(Formatting(g, args)[l], c)
  <2>1. l + 1 \in 1 .. l + 1 /\ (l + 1) - 1 = l
    BY <1>3
  <2> QED BY <1>2, <1>5, <2>1
<1> QED BY <1>2, <1>3, <1>8, <1>9 DEF Reading, g

Converts(f, text, args, left, sent) ==
  \E state \in {"length", "h", "l", "spec"} : \E length :
    /\ Reading(f, args) = PrintfState(state, length, left, sent)
    /\ \A spec : Agrees(length, text, spec)

\* The states of printf behind the length of a conversion.
LEMMA LengthsRead ==
  ASSUME NEW f \in Seq(Symbols), NEW args, NEW left, NEW sent, Reading(f, args) = Ready(left, sent),
         NEW text \in Lengths
  PROVE  /\ text \in Seq(Symbols) /\ <<"%">> \in Seq(Symbols)
         /\ (f \o <<"%">>) \o text \in Seq(Symbols)
         /\ Converts((f \o <<"%">>) \o text, text, args, left, sent)
<1> DEFINE p == f \o <<"%">>
           Goal == /\ text \in Seq(Symbols) /\ <<"%">> \in Seq(Symbols)
                   /\ p \o text \in Seq(Symbols)
                   /\ Converts(p \o text, text, args, left, sent)
<1>1. {"%", "h", "l"} \subseteq Symbols
  BY PrintfAssumption DEF Symbols
<1>2. p \in Seq(Symbols) /\ Reading(p, args) = PrintfState("length", "default", left, sent)
  <2>1. "%" \in Symbols
    BY <1>1
  <2>2. p \in Seq(Symbols) /\ Reading(p, args) = FormatCharacter(Reading(f, args), "%")
    BY <2>1, CharacterRead
  <2> QED BY <2>2, LengthRead
<1>3. <<"h">> \in Seq(Symbols) /\ <<"l">> \in Seq(Symbols) /\ <<"%">> \in Seq(Symbols)
  BY <1>1
<1> HIDE DEF p
<1>4. ASSUME NEW c \in Symbols
      PROVE  (p \o <<c>>) \o <<c>> = p \o <<c, c>> /\ <<c, c>> \in Seq(Symbols)
  <2>1. <<c>> \in Seq(Symbols) /\ <<c, c>> \in Seq(Symbols)
    OBVIOUS
  <2>2. <<c>> \o <<c>> = <<c, c>>
    <3> DEFINE a == <<c>> \o <<c>>
               b == <<c, c>>
    <3>1. Len(<<c>>) = 1 /\ <<c>>[1] = c
      OBVIOUS
    <3>2. a \in Seq(Symbols) /\ Len(a) = 2 /\ a[1] = c /\ a[2] = c
      BY <2>1, <3>1, ConcatProperties
    <3>3. b \in Seq(Symbols) /\ Len(b) = 2 /\ b[1] = c /\ b[2] = c
      BY <2>1
    <3> HIDE DEF a, b
    <3>4. \A i \in 1 .. Len(a) : a[i] = b[i]
      BY <3>2, <3>3
    <3>5. a = b
      BY ONLY <3>2, <3>3, <3>4, SeqEqual
    <3> QED BY <3>5 DEF a, b
  <2>3. (p \o <<c>>) \o <<c>> = p \o (<<c>> \o <<c>>)
    BY <1>2, <2>1, ConcatAssociative
  <2> QED BY <2>1, <2>2, <2>3
<1>5. ASSUME NEW c \in Symbols
      PROVE  /\ p \o <<c>> \in Seq(Symbols) /\ p \o <<c, c>> \in Seq(Symbols)
             /\ Reading(p \o <<c>>, args) = FormatCharacter(Reading(p, args), c)
             /\ Reading(p \o <<c, c>>, args) = FormatCharacter(FormatCharacter(Reading(p, args), c), c)
  <2>1. p \o <<c>> \in Seq(Symbols) /\ Reading(p \o <<c>>, args) = FormatCharacter(Reading(p, args), c)
    BY <1>2, CharacterRead
  <2>2. /\ (p \o <<c>>) \o <<c>> \in Seq(Symbols)
        /\ Reading((p \o <<c>>) \o <<c>>, args) = FormatCharacter(Reading(p \o <<c>>, args), c)
    BY <2>1, CharacterRead
  <2> QED BY <1>4, <2>1, <2>2
<1> DEFINE Found(state, length) ==
             /\ text \in Seq(Symbols) /\ p \o text \in Seq(Symbols)
             /\ Reading(p \o text, args) = PrintfState(state, length, left, sent)
             /\ length = "long long" <=> text = LongLong
<1>6. ASSUME NEW state \in {"length", "h", "l", "spec"}, NEW length, Found(state, length)
      PROVE  Goal
  <2>1. \A spec : Agrees(length, text, spec)
    BY <1>6 DEF Agrees
  <2>2. Converts(p \o text, text, args, left, sent)
    BY <1>6, <2>1 DEF Converts
  <2> QED BY <1>3, <1>6, <2>2
<1> HIDE DEF Goal, Found
<1>7. ASSUME text = <<>> PROVE Goal
  <2>1. p \o text = p /\ text \in Seq(Symbols) /\ text # LongLong
    BY <1>2, <1>7, ConcatEmptySeq, EmptySeq DEF LongLong
  <2>2. Reading(p \o text, args) = PrintfState("length", "default", left, sent)
    BY <1>2, <2>1
  <2>9. Found("length", "default")
    BY <1>2, <2>1, <2>2 DEF Found
  <2> QED BY ONLY <1>6, <2>9
<1>8. ASSUME text = <<"h">> PROVE Goal
  <2>1. text # LongLong
    BY <1>8 DEF LongLong
  <2>2. p \o text \in Seq(Symbols) /\ Reading(p \o text, args) = PrintfState("h", "short", left, sent)
    BY <1>1, <1>2, <1>5, <1>8, LengthRead
  <2>9. Found("h", "short")
    BY <1>3, <1>8, <2>1, <2>2 DEF Found
  <2> QED BY ONLY <1>6, <2>9
<1>9. ASSUME text = <<"h", "h">> PROVE Goal
  <2>1. text # LongLong
    BY <1>9 DEF LongLong
  <2>2. /\ p \o text \in Seq(Symbols)
        /\ Reading(p \o text, args) = PrintfState("spec", "short short", left, sent)
    BY <1>1, <1>2, <1>5, <1>9, LengthRead
  <2>3. text \in Seq(Symbols)
    BY <1>1, <1>4, <1>9
  <2>9. Found("spec", "short short")
    BY <2>1, <2>2, <2>3 DEF Found
  <2> QED BY ONLY <1>6, <2>9
<1>10. ASSUME text = <<"l">> PROVE Goal
  <2>1. text # LongLong
    BY <1>10 DEF LongLong
  <2>2. p \o text \in Seq(Symbols) /\ Reading(p \o text, args) = PrintfState("l", "long", left, sent)
    BY <1>1, <1>2, <1>5, <1>10, LengthRead
  <2>9. Found("l", "long")
    BY <1>3, <1>10, <2>1, <2>2 DEF Found
  <2> QED BY ONLY <1>6, <2>9
<1>11. ASSUME text = <<"l", "l">> PROVE Goal
  <2>1. text = LongLong
    BY <1>11 DEF LongLong
  <2>2. /\ p \o text \in Seq(Symbols)
        /\ Reading(p \o text, args) = PrintfState("spec", "long long", left, sent)
    BY <1>1, <1>2, <1>5, <1>11, LengthRead
  <2>3. text \in Seq(Symbols)
    BY <1>1, <1>4, <1>11
  <2>9. Found("spec", "long long")
    BY <2>1, <2>2, <2>3 DEF Found
  <2> QED BY ONLY <1>6, <2>9
<1>12. text = <<>> \/ text = <<"h">> \/ text = <<"h", "h">> \/ text = <<"l">> \/ text = <<"l", "l">>
  BY Zenon DEF Lengths
<1>13. Goal
  BY ONLY <1>7, <1>8, <1>9, <1>10, <1>11, <1>12, Zenon
<1> QED BY <1>13 DEF Goal, p

LEMMA RestWords ==
  ASSUME NEW left \in Seq(Words), NEW n \in Nat, n <= Len(left)
  PROVE  SubSeq(left, n + 1, Len(left)) \in Seq(Words)
<1>1. \A i \in n + 1 .. Len(left) : left[i] \in Words
  <2>1. Len(left) \in Nat
    BY LenProperties
  <2>2. \A i \in n + 1 .. Len(left) : i \in 1 .. Len(left)
    BY <2>1
  <2> QED BY <2>2, ElementOfSeq
<1>2. Len(left) \in Nat
  BY LenProperties
<1> QED BY <1>1, <1>2, SubSeqProperties

\* One item of a message: what printf has sent grows by its rendering.
LEMMA ItemRead ==
  ASSUME NEW f \in Seq(Symbols), NEW args, NEW left \in Seq(Words), NEW sent \in Seq(Characters),
         Reading(f, args) = Ready(left, sent), NEW item \in Items, WordsOf(item) <= Len(left)
  PROVE  /\ f \o Spelled(item) \in Seq(Symbols)
         /\ Reading(f \o Spelled(item), args) =
              Ready(SubSeq(left, WordsOf(item) + 1, Len(left)), sent \o RenderedItem(item, left))
         /\ SubSeq(left, WordsOf(item) + 1, Len(left)) \in Seq(Words)
         /\ RenderedItem(item, left) \in Seq(Characters)
<1>1. SubSeq(left, WordsOf(item) + 1, Len(left)) \in Seq(Words)
  <2>1. WordsOf(item) \in Nat
    BY DEF WordsOf
  <2> QED BY <2>1, RestWords
<1>2. ASSUME NEW c \in Characters \ {"%"}, item = Literal(c)
      PROVE  /\ f \o Spelled(item) \in Seq(Symbols)
             /\ Reading(f \o Spelled(item), args) =
                  Ready(SubSeq(left, WordsOf(item) + 1, Len(left)), sent \o RenderedItem(item, left))
             /\ RenderedItem(item, left) \in Seq(Characters)
  <2>1. item.spec = "literal" /\ item.text = <<c>>
    BY <1>2 DEF Literal
  <2>9. ~IsWide(item) /\ item.spec \notin NumberSpecs
    BY <2>1 DEF IsWide, NumberSpecs, DecimalSpecs, HexSpecs
  <2>2. Spelled(item) = <<c>> /\ RenderedItem(item, left) = <<c>>
    <3>1. Spelled(item) = item.text
      BY <2>1 DEF Spelled
    <3>2. RenderedItem(item, left) = item.text
      BY <2>1, <2>9 DEF RenderedItem
    <3> QED BY <2>1, <3>1, <3>2
  <2>3. WordsOf(item) = 0
    BY <2>1, <2>9 DEF WordsOf
  <2>4. c \in Symbols /\ c # "%" /\ <<c>> \in Seq(Characters)
    BY DEF Symbols
  <2>5. f \o <<c>> \in Seq(Symbols) /\ Reading(f \o <<c>>, args) = FormatCharacter(Ready(left, sent), c)
    BY <2>4, CharacterRead
  <2>6. FormatCharacter(Ready(left, sent), c) = Ready(left, Append(sent, c))
    BY <2>4, LiteralRead
  <2>7. Append(sent, c) = sent \o <<c>>
    BY <2>4, AppendIsConcat
  <2>8. SubSeq(left, WordsOf(item) + 1, Len(left)) = left
    BY <2>3, NoWords
  <2> QED BY <2>2, <2>4, <2>5, <2>6, <2>7, <2>8
<1>3. ASSUME NEW length \in Lengths, NEW c \in Characters \ {"h", "l"}, item = Convert(length, c)
      PROVE  /\ f \o Spelled(item) \in Seq(Symbols)
             /\ Reading(f \o Spelled(item), args) =
                  Ready(SubSeq(left, WordsOf(item) + 1, Len(left)), sent \o RenderedItem(item, left))
             /\ RenderedItem(item, left) \in Seq(Characters)
  <2>1. item.spec = c /\ item.text = length /\ c # "literal"
    BY <1>3, PrintfAssumption DEF Convert
  <2>2. Spelled(item) = (<<"%">> \o length) \o <<c>>
    BY <2>1 DEF Spelled
  <2> DEFINE g == (f \o <<"%">>) \o length
  <2>3. length \in Seq(Symbols) /\ <<"%">> \in Seq(Symbols) /\ g \in Seq(Symbols)
    BY LengthsRead
  <2>0. PICK state \in {"length", "h", "l", "spec"} : \E size :
          /\ Reading(g, args) = PrintfState(state, size, left, sent)
          /\ \A spec : Agrees(size, length, spec)
    <3>1. Converts(g, length, args, left, sent)
      BY LengthsRead
    <3> QED BY <3>1 DEF Converts
  <2>4. PICK size :
          /\ Reading(g, args) = PrintfState(state, size, left, sent)
          /\ \A spec : Agrees(size, length, spec)
    BY <2>0
  <2>5. c \in Symbols /\ <<c>> \in Seq(Symbols)
    BY DEF Symbols
  <2>6. f \o Spelled(item) = g \o <<c>>
    <3>1. <<"%">> \o length \in Seq(Symbols)
      BY <2>3, ConcatProperties
    <3>2. f \o ((<<"%">> \o length) \o <<c>>) = (f \o (<<"%">> \o length)) \o <<c>>
      BY <2>5, <3>1, ConcatAssociative
    <3>3. f \o (<<"%">> \o length) = g
      BY <2>3, ConcatAssociative
    <3> QED BY <2>2, <3>2, <3>3
  <2> HIDE DEF g
  <2>7. g \o <<c>> \in Seq(Symbols) /\ Reading(g \o <<c>>, args) = FormatCharacter(Reading(g, args), c)
    BY <2>3, <2>5, CharacterRead
  <2>8. Agrees(size, length, c) /\ WordsOf(Convert(length, c)) <= Len(left)
    BY <1>3, <2>4
  <2>9. /\ FormatCharacter(PrintfState(state, size, left, sent), c) =
              Ready(SubSeq(left, WordsOf(Convert(length, c)) + 1, Len(left)),
                    sent \o RenderedItem(Convert(length, c), left))
        /\ RenderedItem(Convert(length, c), left) \in Seq(Characters)
    BY <2>8, ConversionRead
  <2> QED BY <1>3, <2>4, <2>6, <2>7, <2>9
<1>4. (\E c \in Characters \ {"%"} : item = Literal(c))
      \/ (\E length \in Lengths, c \in Characters \ {"h", "l"} : item = Convert(length, c))
  BY DEF Items
<1> QED BY <1>1, <1>2, <1>3, <1>4

\* The items of a call up to any of them.
LEMMA ItemsRead ==
  ASSUME NEW items, NEW args, IsCall(items, args)
  PROVE  \A i \in 0 .. Len(items) :
           LET so_far == RenderedUpTo(items, args)[i]
           IN  /\ FormatUpTo(items)[i] \in Seq(Symbols)
               /\ so_far.left \in Seq(Words) /\ so_far.text \in Seq(Characters)
               /\ Reading(FormatUpTo(items)[i], args) = Ready(so_far.left, so_far.text)
<1> DEFINE R(i) == RenderedUpTo(items, args)[i]
           F(i) == FormatUpTo(items)[i]
           Read(i) == /\ F(i) \in Seq(Symbols)
                      /\ R(i).left \in Seq(Words) /\ R(i).text \in Seq(Characters)
                      /\ Reading(F(i), args) = Ready(R(i).left, R(i).text)
           S == {i \in Nat : i <= Len(items) => Read(i)}
<1>1. items \in Seq(Items) /\ args \in Seq(Words) /\ Len(items) \in Nat
  BY LenProperties DEF IsCall, Words
<1>2. \A i \in 1 .. Len(items) : WordsOf(items[i]) <= Len(R(i - 1).left)
  BY DEF IsCall
<1>3. R(0) = [text |-> <<>>, left |-> args] /\ \A i \in 1 .. Len(items) : R(i) = Render(R(i - 1), items[i])
  BY <1>1, RenderedSteps
<1>4. F(0) = <<>> /\ \A i \in 1 .. Len(items) : F(i) = F(i - 1) \o Spelled(items[i])
  BY <1>1, FormatSteps
<1> HIDE DEF R, F
<1>5. Read(0)
  <2>1. R(0).left = args /\ R(0).text = <<>>
    BY <1>3
  <2>2. F(0) \in Seq(Symbols) /\ <<>> \in Seq(Characters)
    BY <1>4, EmptySeq
  <2>3. Reading(<<>>, args) = [Fresh EXCEPT !.args = args]
    <3>1. Len(<<>>) = 0
      BY EmptySeq
    <3> QED BY <3>1, FormattingSteps DEF Reading
  <2> QED BY <1>1, <1>4, <2>1, <2>2, <2>3, FreshReady
<1>6. ASSUME NEW n \in Nat, n + 1 <= Len(items), Read(n) PROVE Read(n + 1)
  <2>1. n + 1 \in 1 .. Len(items) /\ (n + 1) - 1 = n
    BY <1>1, <1>6
  <2> DEFINE item == items[n + 1]
             left == R(n).left
             sent == R(n).text
  <2>2. item \in Items
    BY <1>1, <2>1, ElementOfSeq
  <2>3. WordsOf(item) <= Len(left)
    BY <1>2, <2>1
  <2>4. R(n + 1) = Render(R(n), item) /\ F(n + 1) = F(n) \o Spelled(item)
    BY <1>3, <1>4, <2>1
  <2>5. left \in Seq(Words) /\ sent \in Seq(Characters) /\ F(n) \in Seq(Symbols)
        /\ Reading(F(n), args) = Ready(left, sent)
    BY <1>6
  <2>6. R(n + 1).left = SubSeq(left, WordsOf(item) + 1, Len(left))
        /\ R(n + 1).text = sent \o RenderedItem(item, left)
    <3> DEFINE t == sent \o RenderedItem(item, left)
               l == SubSeq(left, WordsOf(item) + 1, Len(left))
    <3>1. R(n + 1) = [text |-> t, left |-> l]
      BY <2>4 DEF Render
    <3> HIDE DEF t, l
    <3>2. R(n + 1).left = l /\ R(n + 1).text = t
      BY <3>1
    <3> QED BY <3>2 DEF t, l
  <2> HIDE DEF item, left, sent
  <2>7. /\ F(n) \o Spelled(item) \in Seq(Symbols)
        /\ Reading(F(n) \o Spelled(item), args) =
             Ready(SubSeq(left, WordsOf(item) + 1, Len(left)), sent \o RenderedItem(item, left))
        /\ SubSeq(left, WordsOf(item) + 1, Len(left)) \in Seq(Words)
        /\ RenderedItem(item, left) \in Seq(Characters)
    BY ONLY <2>2, <2>3, <2>5, ItemRead
  <2>8. sent \o RenderedItem(item, left) \in Seq(Characters)
    BY <2>5, <2>7, ConcatProperties
  <2> QED BY <2>4, <2>6, <2>7, <2>8
<1>7. Nat \subseteq S
  <2> HIDE DEF Read
  <2>1. 0 \in S
    BY <1>5
  <2>2. \A n \in Nat : n \in S => n + 1 \in S
    BY <1>1, <1>6
  <2> HIDE DEF S
  <2> QED BY <2>1, <2>2, Induction
<1>8. \A i \in 0 .. Len(items) : Read(i)
  <2> HIDE DEF Read
  <2> QED BY <1>1, <1>7
<1> QED BY <1>8 DEF R, F

(***************************************************************************)
(* printf of stdio.c sends the rendering of the items one by one, each     *)
(* with its own arguments: for every list of literals and conversions, of  *)
(* any length, whose conversions find their words on the stack.            *)
(***************************************************************************)
THEOREM PrintfRenders ==
  ASSUME NEW items, NEW args, IsCall(items, args)
  PROVE  /\ printf(FormatOf(items), args) = Rendered(items, args)
         /\ Rendered(items, args) \in Seq(Characters)
<1> DEFINE so_far == RenderedUpTo(items, args)[Len(items)]
<1>1. Len(items) \in Nat /\ Len(items) \in 0 .. Len(items)
  <2>1. Len(items) \in Nat
    BY LenProperties DEF IsCall
  <2> QED BY <2>1
<1>2. /\ so_far.text \in Seq(Characters)
      /\ Reading(FormatUpTo(items)[Len(items)], args) = Ready(so_far.left, so_far.text)
  BY <1>1, ItemsRead
<1>3. Ready(so_far.left, so_far.text).sent = so_far.text
  BY DEF Ready, PrintfState
<1> QED BY <1>2, <1>3 DEF printf, FormatOf, Rendered, Reading

-----------------------------------------------------------------------------
(***************************************************************************)
(* The inductive invariant.  s is the context of start(), k the one of a   *)
(* handler that interrupts it, X and Y the cursor.                         *)
(***************************************************************************)
AllMessages == Messages \cup HandlerMessages \cup {BootMessage, NoMessage}
Texts == {TextOf(m) : m \in Messages \cup HandlerMessages \cup {BootMessage}} \cup {<<>>}

ContextRecord ==
  [at : Labels, message : AllMessages, text : Texts, n : Nat,
   tab : {NoTab} \cup 0 .. 4, x : Nat, y : Nat]

CrtcRecord == [index : {0, 14, 15}, low : 0 .. BYTE - 1, high : 0 .. BYTE - 1]

Progress(c) ==
  /\ c.tab = 4 => c.at = "tab"
  /\ c.at = "tab" => c.tab # NoTab
  /\ c.n >= 1
  /\ c.text = <<>> => c.n <= 2 /\ (~BetweenCharacters(c) => c.n = 1)
  /\ c.text # <<>> => c.n <= Len(c.text) + 1 /\ (~BetweenCharacters(c) => c.n <= Len(c.text))

Shape ==
  /\ contexts \in Seq(ContextRecord) /\ Running \in 1 .. 2
  /\ g_ScreenX \in Nat /\ g_ScreenY \in Nat
  /\ DOMAIN screen = Cells
  /\ crtc \in CrtcRecord
  /\ \A i \in 1 .. Running :
       /\ Progress(contexts[i])
       /\ contexts[i].at \in {"low", "index14", "high"} => crtc.index # 0
  /\ Running = 2 => iflag

LastRow(s) == IF s.at \in {"wrap", "wrapColumn", "bottom", "scroll", "scrolled"}
                THEN SCREEN_HEIGHT ELSE SCREEN_HEIGHT - 1
FirstRow(s) == IF s.at \in {"scroll", "scrolled"} THEN SCREEN_HEIGHT - 1 ELSE 0
LastColumn(s) == IF s.at \in {"wrap", "wrapLine", "wrappedLine", "wrapColumn"}
                   THEN SCREEN_WIDTH ELSE SCREEN_WIDTH - 1

AtRest(s, X, Y) ==
  /\ X <= LastColumn(s)
  /\ FirstRow(s) <= Y /\ Y <= LastRow(s)
  /\ s.at = "wrap" /\ X = SCREEN_WIDTH => Y < SCREEN_HEIGHT

StartRegisters(s) ==
  /\ s.at \in {"position", "cell", "newlined", "wrappedLine"} => s.y < SCREEN_HEIGHT
  /\ s.at \in {"cell", "advanced"} => s.x < SCREEN_WIDTH
  /\ s.at = "scrolled" => SCREEN_HEIGHT - 1 <= s.y /\ s.y <= SCREEN_HEIGHT

HandlerRegisters(k, X, Y) ==
  /\ k.at \in {"position", "cell", "newlined", "wrappedLine", "scrolled"} => k.y = Y
  /\ k.at \in {"cell", "advanced"} => k.x = X

HandlerCursor(s, k, X, Y) ==
  CASE k.at \in {"newline", "newlined"} ->
         X < SCREEN_WIDTH /\ FirstRow(s) <= Y /\ Y <= LastRow(s)
    [] k.at = "wrap" ->
         /\ X <= SCREEN_WIDTH + 1 /\ FirstRow(s) <= Y /\ Y <= LastRow(s) + 1
         /\ X >= SCREEN_WIDTH => Y <= LastRow(s)
    [] k.at \in {"wrapLine", "wrappedLine"} ->
         X <= SCREEN_WIDTH + 1 /\ FirstRow(s) <= Y /\ Y <= LastRow(s)
    [] k.at = "wrapColumn" ->
         X <= SCREEN_WIDTH + 1 /\ FirstRow(s) <= Y /\ Y <= LastRow(s) + 1
    [] k.at = "bottom" ->
         X < SCREEN_WIDTH /\ FirstRow(s) <= Y /\ Y <= LastRow(s) + 1
    [] k.at \in {"scroll", "scrolled"} ->
         X < SCREEN_WIDTH /\ SCREEN_HEIGHT <= Y /\ Y <= LastRow(s) + 1
    [] k.at \in {"cursorY", "cursorX", "index15", "low", "index14", "high"} ->
         X < SCREEN_WIDTH /\ AtRest(s, X, Y)
    [] k.at \in {"putc", "tab", "position", "cell", "advance", "advanced"} -> AtRest(s, X, Y)
    [] OTHER -> FALSE

StartInv(s, X, Y) == StartRegisters(s) /\ AtRest(s, X, Y)
HandlerInv(s, k, X, Y) ==
  StartRegisters(s) /\ HandlerRegisters(k, X, Y) /\ HandlerCursor(s, k, X, Y)

CursorInv ==
  /\ Running = 1 => StartInv(contexts[1], g_ScreenX, g_ScreenY)
  /\ Running = 2 => HandlerInv(contexts[1], contexts[2], g_ScreenX, g_ScreenY)

-----------------------------------------------------------------------------
(* The moves of one context.                                               *)

\* The character c puts: Char, of any context.
Put(c) == IF c.tab = NoTab THEN c.text[c.n] ELSE " "

\* A step of a context takes it from c to t and the cursor from X, Y to X1, Y1.
Move(c, t, X, Y, X1, Y1) ==
  \/ /\ c.at = "putc" /\ c.n <= Len(c.text) /\ Y1 = Y
     /\ \/ Put(c) = "\n" /\ X1 = 0 /\ t = [c EXCEPT !.at = "newline"]
        \/ Put(c) = "\r" /\ X1 = 0 /\ t = [c EXCEPT !.at = "wrap"]
        \/ Put(c) = "\t" /\ X1 = X /\ t = [c EXCEPT !.at = "tab", !.tab = 0]
        \/ /\ Put(c) \notin {"\n", "\r", "\t"}
           /\ X1 = X /\ t = [c EXCEPT !.at = "position", !.y = Y]
  \/ /\ c.at = "tab" /\ X1 = X /\ Y1 = Y
     /\ \/ c.tab < 4 - (X % 4) /\ c.tab < 4 /\ t = [c EXCEPT !.at = "putc"]
        \/ ~(c.tab < 4 - (X % 4)) /\ t = [c EXCEPT !.at = "wrap", !.tab = NoTab]
  \/ c.at = "position" /\ X1 = X /\ Y1 = Y /\ t = [c EXCEPT !.at = "cell", !.x = X]
  \/ c.at = "cell" /\ X1 = X /\ Y1 = Y /\ t = [c EXCEPT !.at = "advance"]
  \/ c.at = "advance" /\ X1 = X /\ Y1 = Y /\ t = [c EXCEPT !.at = "advanced", !.x = X]
  \/ c.at = "advanced" /\ X1 = c.x + 1 /\ Y1 = Y /\ t = [c EXCEPT !.at = "wrap"]
  \/ c.at = "newline" /\ X1 = X /\ Y1 = Y /\ t = [c EXCEPT !.at = "newlined", !.y = Y]
  \/ c.at = "newlined" /\ X1 = X /\ Y1 = c.y + 1 /\ t = [c EXCEPT !.at = "wrap"]
  \/ /\ c.at = "wrap" /\ X1 = X /\ Y1 = Y
     /\ \/ X >= SCREEN_WIDTH /\ t = [c EXCEPT !.at = "wrapLine"]
        \/ X < SCREEN_WIDTH /\ t = [c EXCEPT !.at = "bottom"]
  \/ c.at = "wrapLine" /\ X1 = X /\ Y1 = Y /\ t = [c EXCEPT !.at = "wrappedLine", !.y = Y]
  \/ c.at = "wrappedLine" /\ X1 = X /\ Y1 = c.y + 1 /\ t = [c EXCEPT !.at = "wrapColumn"]
  \/ c.at = "wrapColumn" /\ X1 = 0 /\ Y1 = Y /\ t = [c EXCEPT !.at = "bottom"]
  \/ /\ c.at = "bottom" /\ X1 = X /\ Y1 = Y
     /\ \/ Y >= SCREEN_HEIGHT /\ t = [c EXCEPT !.at = "scroll"]
        \/ Y < SCREEN_HEIGHT /\ t = [c EXCEPT !.at = "cursorY"]
  \/ c.at = "scroll" /\ X1 = X /\ Y1 = Y /\ t = [c EXCEPT !.at = "scrolled", !.y = Y]
  \/ c.at = "scrolled" /\ X1 = X /\ Y1 = c.y - 1 /\ t = [c EXCEPT !.at = "cursorY"]
  \/ c.at = "clear" /\ X1 = X /\ Y1 = Y /\ t = [c EXCEPT !.at = "clearX"]
  \/ c.at = "clearX" /\ X1 = 0 /\ Y1 = Y /\ t = [c EXCEPT !.at = "clearY"]
  \/ c.at = "clearY" /\ X1 = X /\ Y1 = 0 /\ t = [c EXCEPT !.at = "cursorY"]
  \/ c.at = "cursorY" /\ X1 = X /\ Y1 = Y /\ t = [c EXCEPT !.at = "cursorX", !.y = Y]
  \/ c.at = "cursorX" /\ X1 = X /\ Y1 = Y /\ t = [c EXCEPT !.at = "index15", !.x = X]
  \/ c.at = "index15" /\ X1 = X /\ Y1 = Y /\ t = [c EXCEPT !.at = "low"]
  \/ c.at = "low" /\ X1 = X /\ Y1 = Y /\ t = [c EXCEPT !.at = "index14"]
  \/ c.at = "index14" /\ X1 = X /\ Y1 = Y /\ t = [c EXCEPT !.at = "high"]
  \/ c.at = "high" /\ X1 = X /\ Y1 = Y /\ t = NextChar(c)

Constants ==
  /\ SCREEN_WIDTH \in Nat \ {0} /\ SCREEN_HEIGHT \in Nat /\ SCREEN_HEIGHT >= 2
  /\ BYTE \in Nat \ {0}

LEMMA ConstantFacts == Constants
BY ConsoleAssumption DEF Constants

\* The registers and the cursor stay natural numbers, and the context stays
\* inside its text and its tab.
LEMMA MoveProgress ==
  ASSUME Constants, NEW c \in ContextRecord, NEW t \in ContextRecord, Progress(c),
         NEW X, NEW Y, NEW X1, NEW Y1, Move(c, t, X, Y, X1, Y1), Len(c.text) \in Nat,
         c.text = <<>> => Len(c.text) = 0
  PROVE  Progress(t) /\ t.at # "idle"
<1>1. CASE c.at = "putc"
  <2>1. /\ c.n <= Len(c.text) /\ t.n = c.n /\ t.text = c.text
        /\ \/ t.at \in {"newline", "wrap", "position"} /\ t.tab = c.tab
           \/ t.at = "tab" /\ t.tab = 0
    BY <1>1 DEF Move, ContextRecord
  <2>2. c.text # <<>> /\ c.n \in Nat /\ c.n >= 1 /\ c.tab # 4
    BY <1>1, <2>1 DEF Progress, ContextRecord
  <2> QED BY <1>1, <2>1, <2>2 DEF Progress, BetweenCharacters, NoTab
<1>2. CASE c.at = "tab"
  <2>1. /\ t.n = c.n /\ t.text = c.text
        /\ \/ c.tab < 4 /\ t.at = "putc" /\ t.tab = c.tab
           \/ t.at = "wrap" /\ t.tab = NoTab
    BY <1>2 DEF Move, ContextRecord
  <2>2. ~BetweenCharacters(c) /\ c.tab # NoTab
    BY <1>2 DEF Progress, BetweenCharacters
  <2>3. c.tab < 4 => c.tab # 4
    OBVIOUS
  <2> QED BY <1>2, <2>1, <2>2, <2>3 DEF Progress, BetweenCharacters, NoTab
<1>3. CASE c.at = "position"
  BY <1>3 DEF Move, Progress, BetweenCharacters, NextChar, ContextRecord, NoTab
<1>4. CASE c.at = "cell"
  BY <1>4 DEF Move, Progress, BetweenCharacters, NextChar, ContextRecord, NoTab
<1>5. CASE c.at = "advance"
  BY <1>5 DEF Move, Progress, BetweenCharacters, NextChar, ContextRecord, NoTab
<1>6. CASE c.at = "advanced"
  BY <1>6 DEF Move, Progress, BetweenCharacters, NextChar, ContextRecord, NoTab
<1>7. CASE c.at = "newline"
  BY <1>7 DEF Move, Progress, BetweenCharacters, NextChar, ContextRecord, NoTab
<1>8. CASE c.at = "newlined"
  BY <1>8 DEF Move, Progress, BetweenCharacters, NextChar, ContextRecord, NoTab
<1>9. CASE c.at = "wrap"
  BY <1>9 DEF Move, Progress, BetweenCharacters, NextChar, ContextRecord, NoTab
<1>10. CASE c.at = "wrapLine"
  BY <1>10 DEF Move, Progress, BetweenCharacters, NextChar, ContextRecord, NoTab
<1>11. CASE c.at = "wrappedLine"
  BY <1>11 DEF Move, Progress, BetweenCharacters, NextChar, ContextRecord, NoTab
<1>12. CASE c.at = "wrapColumn"
  BY <1>12 DEF Move, Progress, BetweenCharacters, NextChar, ContextRecord, NoTab
<1>13. CASE c.at = "bottom"
  BY <1>13 DEF Move, Progress, BetweenCharacters, NextChar, ContextRecord, NoTab
<1>14. CASE c.at = "scroll"
  BY <1>14 DEF Move, Progress, BetweenCharacters, NextChar, ContextRecord, NoTab
<1>15. CASE c.at = "scrolled"
  BY <1>15 DEF Move, Progress, BetweenCharacters, NextChar, ContextRecord, NoTab
<1>16. CASE c.at = "clear"
  BY <1>16 DEF Move, Progress, BetweenCharacters, NextChar, ContextRecord, NoTab
<1>17. CASE c.at = "clearX"
  BY <1>17 DEF Move, Progress, BetweenCharacters, NextChar, ContextRecord, NoTab
<1>18. CASE c.at = "clearY"
  BY <1>18 DEF Move, Progress, BetweenCharacters, NextChar, ContextRecord, NoTab
<1>19. CASE c.at = "cursorY"
  BY <1>19 DEF Move, Progress, BetweenCharacters, NextChar, ContextRecord, NoTab
<1>20. CASE c.at = "cursorX"
  BY <1>20 DEF Move, Progress, BetweenCharacters, NextChar, ContextRecord, NoTab
<1>21. CASE c.at = "index15"
  BY <1>21 DEF Move, Progress, BetweenCharacters, NextChar, ContextRecord, NoTab
<1>22. CASE c.at = "low"
  BY <1>22 DEF Move, Progress, BetweenCharacters, NextChar, ContextRecord, NoTab
<1>23. CASE c.at = "index14"
  BY <1>23 DEF Move, Progress, BetweenCharacters, NextChar, ContextRecord, NoTab
<1>24. CASE c.at = "high"
  <2>1. ~BetweenCharacters(c) /\ c.n \in Nat /\ c.tab # 4 /\ c.tab \in {NoTab} \cup 0 .. 4
    BY <1>24 DEF BetweenCharacters, Progress, ContextRecord
  <2>2. CASE c.tab = NoTab
    <3>1. t.at = "putc" /\ t.n = c.n + 1 /\ t.tab = NoTab /\ t.text = c.text
      BY <1>24, <2>2 DEF Move, NextChar, ContextRecord
    <3> QED BY <2>1, <2>2, <3>1 DEF Progress, BetweenCharacters, NoTab
  <2>3. CASE c.tab # NoTab
    <3>1. t.at = "tab" /\ t.n = c.n /\ t.tab = c.tab + 1 /\ t.text = c.text
      BY <1>24, <2>3 DEF Move, NextChar, ContextRecord
    <3>2. c.tab + 1 # NoTab
      BY <2>1, <2>3 DEF NoTab
    <3> QED BY <2>1, <2>3, <3>1, <3>2 DEF Progress, BetweenCharacters
  <2> QED BY <2>2, <2>3
<1> QED
  BY <1>1, <1>2, <1>3, <1>4, <1>5, <1>6, <1>7, <1>8, <1>9, <1>10, <1>11, <1>12, <1>13, <1>14, <1>15, <1>16, <1>17, <1>18, <1>19, <1>20, <1>21, <1>22, <1>23, <1>24 DEF Move

\* Alone, start() keeps the cursor where handlers may print.
LEMMA StartMove ==
  ASSUME Constants, NEW c \in ContextRecord, NEW t \in ContextRecord,
         NEW X \in Nat, NEW Y \in Nat, NEW X1, NEW Y1,
         StartInv(c, X, Y), Move(c, t, X, Y, X1, Y1)
  PROVE  X1 \in Nat /\ Y1 \in Nat /\ StartInv(t, X1, Y1)
<1>1. CASE c.at = "putc"
  <2>1. /\ Y1 = Y
        /\ \/ X1 = 0 /\ t.at \in {"newline", "wrap"}
           \/ X1 = X /\ t.at = "tab"
           \/ X1 = X /\ t.at = "position" /\ t.y = Y
    BY <1>1 DEF Move, ContextRecord
  <2> QED BY <1>1, <2>1 DEF StartInv, StartRegisters, AtRest, FirstRow, LastRow, LastColumn, Constants
<1>2. CASE c.at = "tab"
  <2>1. t.at \in {"putc", "wrap"} /\ X1 = X /\ Y1 = Y
    BY <1>2 DEF Move, ContextRecord
  <2> QED BY <1>2, <2>1 DEF StartInv, StartRegisters, AtRest, FirstRow, LastRow, LastColumn, Constants
<1>3. CASE c.at = "position"
  <2>1. t.at = "cell" /\ t.x = X /\ t.y = c.y /\ X1 = X /\ Y1 = Y
    BY <1>3 DEF Move, ContextRecord
  <2> QED BY <1>3, <2>1 DEF StartInv, StartRegisters, AtRest, FirstRow, LastRow, LastColumn, Constants
<1>4. CASE c.at = "cell"
  BY <1>4 DEF Move, StartInv, StartRegisters, AtRest, FirstRow, LastRow, LastColumn,
    NextChar, Constants, ContextRecord, NoTab
<1>5. CASE c.at = "advance"
  <2>1. t.at = "advanced" /\ t.x = X /\ t.y = c.y /\ X1 = X /\ Y1 = Y
    BY <1>5 DEF Move, ContextRecord
  <2> QED BY <1>5, <2>1 DEF StartInv, StartRegisters, AtRest, FirstRow, LastRow, LastColumn, Constants
<1>6. CASE c.at = "advanced"
  BY <1>6 DEF Move, StartInv, StartRegisters, AtRest, FirstRow, LastRow, LastColumn,
    NextChar, Constants, ContextRecord, NoTab
<1>7. CASE c.at = "newline"
  <2>1. t.at = "newlined" /\ t.y = Y /\ t.x = c.x /\ X1 = X /\ Y1 = Y
    BY <1>7 DEF Move, ContextRecord
  <2> QED BY <1>7, <2>1 DEF StartInv, StartRegisters, AtRest, FirstRow, LastRow, LastColumn, Constants
<1>8. CASE c.at = "newlined"
  BY <1>8 DEF Move, StartInv, StartRegisters, AtRest, FirstRow, LastRow, LastColumn,
    NextChar, Constants, ContextRecord, NoTab
<1>9. CASE c.at = "wrap"
  BY <1>9 DEF Move, StartInv, StartRegisters, AtRest, FirstRow, LastRow, LastColumn,
    NextChar, Constants, ContextRecord, NoTab
<1>10. CASE c.at = "wrapLine"
  <2>1. t.at = "wrappedLine" /\ t.y = Y /\ t.x = c.x /\ X1 = X /\ Y1 = Y
    BY <1>10 DEF Move, ContextRecord
  <2> QED BY <1>10, <2>1 DEF StartInv, StartRegisters, AtRest, FirstRow, LastRow, LastColumn, Constants
<1>11. CASE c.at = "wrappedLine"
  BY <1>11 DEF Move, StartInv, StartRegisters, AtRest, FirstRow, LastRow, LastColumn,
    NextChar, Constants, ContextRecord, NoTab
<1>12. CASE c.at = "wrapColumn"
  BY <1>12 DEF Move, StartInv, StartRegisters, AtRest, FirstRow, LastRow, LastColumn,
    NextChar, Constants, ContextRecord, NoTab
<1>13. CASE c.at = "bottom"
  BY <1>13 DEF Move, StartInv, StartRegisters, AtRest, FirstRow, LastRow, LastColumn,
    NextChar, Constants, ContextRecord, NoTab
<1>14. CASE c.at = "scroll"
  BY <1>14 DEF Move, StartInv, StartRegisters, AtRest, FirstRow, LastRow, LastColumn,
    NextChar, Constants, ContextRecord, NoTab
<1>15. CASE c.at = "scrolled"
  BY <1>15 DEF Move, StartInv, StartRegisters, AtRest, FirstRow, LastRow, LastColumn,
    NextChar, Constants, ContextRecord, NoTab
<1>16. CASE c.at = "clear"
  BY <1>16 DEF Move, StartInv, StartRegisters, AtRest, FirstRow, LastRow, LastColumn,
    NextChar, Constants, ContextRecord, NoTab
<1>17. CASE c.at = "clearX"
  BY <1>17 DEF Move, StartInv, StartRegisters, AtRest, FirstRow, LastRow, LastColumn,
    NextChar, Constants, ContextRecord, NoTab
<1>18. CASE c.at = "clearY"
  BY <1>18 DEF Move, StartInv, StartRegisters, AtRest, FirstRow, LastRow, LastColumn,
    NextChar, Constants, ContextRecord, NoTab
<1>19. CASE c.at = "cursorY"
  BY <1>19 DEF Move, StartInv, StartRegisters, AtRest, FirstRow, LastRow, LastColumn,
    NextChar, Constants, ContextRecord, NoTab
<1>20. CASE c.at = "cursorX"
  BY <1>20 DEF Move, StartInv, StartRegisters, AtRest, FirstRow, LastRow, LastColumn,
    NextChar, Constants, ContextRecord, NoTab
<1>21. CASE c.at = "index15"
  BY <1>21 DEF Move, StartInv, StartRegisters, AtRest, FirstRow, LastRow, LastColumn,
    NextChar, Constants, ContextRecord, NoTab
<1>22. CASE c.at = "low"
  BY <1>22 DEF Move, StartInv, StartRegisters, AtRest, FirstRow, LastRow, LastColumn,
    NextChar, Constants, ContextRecord, NoTab
<1>23. CASE c.at = "index14"
  BY <1>23 DEF Move, StartInv, StartRegisters, AtRest, FirstRow, LastRow, LastColumn,
    NextChar, Constants, ContextRecord, NoTab
<1>24. CASE c.at = "high"
  BY <1>24 DEF Move, StartInv, StartRegisters, AtRest, FirstRow, LastRow, LastColumn,
    NextChar, Constants, ContextRecord, NoTab
<1> QED
  BY <1>1, <1>2, <1>3, <1>4, <1>5, <1>6, <1>7, <1>8, <1>9, <1>10, <1>11, <1>12, <1>13, <1>14, <1>15, <1>16, <1>17, <1>18, <1>19, <1>20, <1>21, <1>22, <1>23, <1>24 DEF Move

\* A handler finds the cursor there and leaves it there.
LEMMA HandlerMove ==
  ASSUME Constants, NEW s \in ContextRecord, NEW c \in ContextRecord, NEW t \in ContextRecord,
         NEW X \in Nat, NEW Y \in Nat, NEW X1, NEW Y1,
         HandlerInv(s, c, X, Y), Move(c, t, X, Y, X1, Y1)
  PROVE  X1 \in Nat /\ Y1 \in Nat /\ HandlerInv(s, t, X1, Y1)
<1>1. CASE c.at = "putc"
  <2>1. /\ Y1 = Y
        /\ \/ X1 = 0 /\ t.at \in {"newline", "wrap"}
           \/ X1 = X /\ t.at = "tab"
           \/ X1 = X /\ t.at = "position" /\ t.y = Y
    BY <1>1 DEF Move, ContextRecord
  <2> QED BY <1>1, <2>1 DEF HandlerInv, StartRegisters, HandlerRegisters, HandlerCursor, AtRest, FirstRow, LastRow,
      LastColumn, Constants
<1>2. CASE c.at = "tab"
  <2>1. t.at \in {"putc", "wrap"} /\ X1 = X /\ Y1 = Y
    BY <1>2 DEF Move, ContextRecord
  <2> QED BY <1>2, <2>1 DEF HandlerInv, StartRegisters, HandlerRegisters, HandlerCursor, AtRest, FirstRow, LastRow,
      LastColumn, Constants
<1>3. CASE c.at = "position"
  BY <1>3 DEF Move, HandlerInv, HandlerRegisters, HandlerCursor, AtRest, FirstRow, LastRow,
    LastColumn, NextChar, Constants, ContextRecord, NoTab
<1>4. CASE c.at = "cell"
  BY <1>4 DEF Move, HandlerInv, HandlerRegisters, HandlerCursor, AtRest, FirstRow, LastRow,
    LastColumn, NextChar, Constants, ContextRecord, NoTab
<1>5. CASE c.at = "advance"
  BY <1>5 DEF Move, HandlerInv, HandlerRegisters, HandlerCursor, AtRest, FirstRow, LastRow,
    LastColumn, NextChar, Constants, ContextRecord, NoTab
<1>6. CASE c.at = "advanced"
  BY <1>6 DEF Move, HandlerInv, HandlerRegisters, HandlerCursor, AtRest, FirstRow, LastRow,
    LastColumn, NextChar, Constants, ContextRecord, NoTab
<1>7. CASE c.at = "newline"
  BY <1>7 DEF Move, HandlerInv, HandlerRegisters, HandlerCursor, AtRest, FirstRow, LastRow,
    LastColumn, NextChar, Constants, ContextRecord, NoTab
<1>8. CASE c.at = "newlined"
  BY <1>8 DEF Move, HandlerInv, HandlerRegisters, HandlerCursor, AtRest, FirstRow, LastRow,
    LastColumn, NextChar, Constants, ContextRecord, NoTab
<1>9. CASE c.at = "wrap"
  BY <1>9 DEF Move, HandlerInv, HandlerRegisters, HandlerCursor, AtRest, FirstRow, LastRow,
    LastColumn, NextChar, Constants, ContextRecord, NoTab
<1>10. CASE c.at = "wrapLine"
  BY <1>10 DEF Move, HandlerInv, HandlerRegisters, HandlerCursor, AtRest, FirstRow, LastRow,
    LastColumn, NextChar, Constants, ContextRecord, NoTab
<1>11. CASE c.at = "wrappedLine"
  BY <1>11 DEF Move, HandlerInv, HandlerRegisters, HandlerCursor, AtRest, FirstRow, LastRow,
    LastColumn, NextChar, Constants, ContextRecord, NoTab
<1>12. CASE c.at = "wrapColumn"
  BY <1>12 DEF Move, HandlerInv, HandlerRegisters, HandlerCursor, AtRest, FirstRow, LastRow,
    LastColumn, NextChar, Constants, ContextRecord, NoTab
<1>13. CASE c.at = "bottom"
  BY <1>13 DEF Move, HandlerInv, HandlerRegisters, HandlerCursor, AtRest, FirstRow, LastRow,
    LastColumn, NextChar, Constants, ContextRecord, NoTab
<1>14. CASE c.at = "scroll"
  BY <1>14 DEF Move, HandlerInv, HandlerRegisters, HandlerCursor, AtRest, FirstRow, LastRow,
    LastColumn, NextChar, Constants, ContextRecord, NoTab
<1>15. CASE c.at = "scrolled"
  BY <1>15 DEF Move, HandlerInv, HandlerRegisters, HandlerCursor, AtRest, FirstRow, LastRow,
    LastColumn, NextChar, Constants, ContextRecord, NoTab
<1>16. CASE c.at = "clear"
  BY <1>16 DEF Move, HandlerInv, HandlerRegisters, HandlerCursor, AtRest, FirstRow, LastRow,
    LastColumn, NextChar, Constants, ContextRecord, NoTab
<1>17. CASE c.at = "clearX"
  BY <1>17 DEF Move, HandlerInv, HandlerRegisters, HandlerCursor, AtRest, FirstRow, LastRow,
    LastColumn, NextChar, Constants, ContextRecord, NoTab
<1>18. CASE c.at = "clearY"
  BY <1>18 DEF Move, HandlerInv, HandlerRegisters, HandlerCursor, AtRest, FirstRow, LastRow,
    LastColumn, NextChar, Constants, ContextRecord, NoTab
<1>19. CASE c.at = "cursorY"
  BY <1>19 DEF Move, HandlerInv, HandlerRegisters, HandlerCursor, AtRest, FirstRow, LastRow,
    LastColumn, NextChar, Constants, ContextRecord, NoTab
<1>20. CASE c.at = "cursorX"
  BY <1>20 DEF Move, HandlerInv, HandlerRegisters, HandlerCursor, AtRest, FirstRow, LastRow,
    LastColumn, NextChar, Constants, ContextRecord, NoTab
<1>21. CASE c.at = "index15"
  BY <1>21 DEF Move, HandlerInv, HandlerRegisters, HandlerCursor, AtRest, FirstRow, LastRow,
    LastColumn, NextChar, Constants, ContextRecord, NoTab
<1>22. CASE c.at = "low"
  BY <1>22 DEF Move, HandlerInv, HandlerRegisters, HandlerCursor, AtRest, FirstRow, LastRow,
    LastColumn, NextChar, Constants, ContextRecord, NoTab
<1>23. CASE c.at = "index14"
  BY <1>23 DEF Move, HandlerInv, HandlerRegisters, HandlerCursor, AtRest, FirstRow, LastRow,
    LastColumn, NextChar, Constants, ContextRecord, NoTab
<1>24. CASE c.at = "high"
  BY <1>24 DEF Move, HandlerInv, HandlerRegisters, HandlerCursor, AtRest, FirstRow, LastRow,
    LastColumn, NextChar, Constants, ContextRecord, NoTab
<1> QED
  BY <1>1, <1>2, <1>3, <1>4, <1>5, <1>6, <1>7, <1>8, <1>9, <1>10, <1>11, <1>12, <1>13, <1>14, <1>15, <1>16, <1>17, <1>18, <1>19, <1>20, <1>21, <1>22, <1>23, <1>24 DEF Move

-----------------------------------------------------------------------------
(* The micro-steps are moves of the running context.                       *)

\* What a step does besides: the page keeps its cells, the VGA its selection.
Frame ==
  /\ DOMAIN screen' = Cells /\ crtc' \in CrtcRecord
  /\ crtc.index # 0 => crtc'.index # 0
  /\ At("index15") => crtc'.index # 0

Becomes(t) == contexts' = [contexts EXCEPT ![Running] = t] /\ t \in ContextRecord

Stepped(t) ==
  Becomes(t) /\ Move(This, t, g_ScreenX, g_ScreenY, g_ScreenX', g_ScreenY') /\ Frame

LEMMA ThisContext ==
  ASSUME Shape
  PROVE  Running \in DOMAIN contexts /\ This \in ContextRecord /\ Progress(This)
BY DEF Shape, Running, This

LEMMA GotoBecomes ==
  ASSUME Shape, NEW l \in Labels, Goto(l)
  PROVE  Becomes([This EXCEPT !.at = l])
<1>1. Running \in DOMAIN contexts /\ This \in ContextRecord
  BY ThisContext
<1>2. [This EXCEPT !.at = l] \in ContextRecord
  BY <1>1 DEF ContextRecord
<1> QED BY <1>1, <1>2 DEF Goto, Becomes, This

LEMMA LoadXBecomes ==
  ASSUME Shape, NEW l \in Labels, LoadX(l)
  PROVE  Becomes([This EXCEPT !.at = l, !.x = g_ScreenX])
<1>1. Running \in DOMAIN contexts /\ This \in ContextRecord /\ g_ScreenX \in Nat
  BY ThisContext DEF Shape
<1>2. [This EXCEPT !.at = l, !.x = g_ScreenX] \in ContextRecord
  BY <1>1 DEF ContextRecord
<1> QED BY <1>1, <1>2 DEF LoadX, Becomes, This

LEMMA LoadYBecomes ==
  ASSUME Shape, NEW l \in Labels, LoadY(l)
  PROVE  Becomes([This EXCEPT !.at = l, !.y = g_ScreenY])
<1>1. Running \in DOMAIN contexts /\ This \in ContextRecord /\ g_ScreenY \in Nat
  BY ThisContext DEF Shape
<1>2. [This EXCEPT !.at = l, !.y = g_ScreenY] \in ContextRecord
  BY <1>1 DEF ContextRecord
<1> QED BY <1>1, <1>2 DEF LoadY, Becomes, This

LEMMA TabBecomes ==
  ASSUME Shape, NEW l \in Labels, NEW n \in {NoTab} \cup 0 .. 4,
         contexts' = [contexts EXCEPT ![Running].at = l, ![Running].tab = n]
  PROVE  Becomes([This EXCEPT !.at = l, !.tab = n])
<1>1. Running \in DOMAIN contexts /\ This \in ContextRecord
  BY ThisContext
<1>2. [This EXCEPT !.at = l, !.tab = n] \in ContextRecord
  BY <1>1 DEF ContextRecord
<1> QED BY <1>1, <1>2 DEF Becomes, This

LEMMA SameFrame ==
  ASSUME Shape, UNCHANGED <<screen, crtc>>, ~At("index15")
  PROVE  Frame
BY DEF Shape, Frame

LEMMA PutcSteps ==
  ASSUME Shape, PutcChar
  PROVE  \E t : Stepped(t)
<1>1. At("putc") /\ This.n <= Len(This.text) /\ ~At("index15") /\ Char = Put(This)
  BY DEF Char, Put, PutcChar, PutcNewline, PutcReturn, PutcTab, PutcDefault, At
<1>2. CASE PutcNewline
  <2>1. Becomes([This EXCEPT !.at = "newline"])
    BY <1>2, GotoBecomes DEF PutcNewline, Labels
  <2>2. Frame
    BY <1>1, <1>2, SameFrame DEF PutcNewline, SetX
  <2>3. Stepped([This EXCEPT !.at = "newline"])
    BY <1>1, <1>2, <2>1, <2>2 DEF Stepped, Move, PutcNewline, SetX, At
  <2> QED BY <2>3
<1>3. CASE PutcReturn
  <2>1. Becomes([This EXCEPT !.at = "wrap"])
    BY <1>3, GotoBecomes DEF PutcReturn, Labels
  <2>2. Frame
    BY <1>1, <1>3, SameFrame DEF PutcReturn, SetX
  <2>3. Stepped([This EXCEPT !.at = "wrap"])
    BY <1>1, <1>3, <2>1, <2>2 DEF Stepped, Move, PutcReturn, SetX, At
  <2> QED BY <2>3
<1>4. CASE PutcTab
  <2>1. Becomes([This EXCEPT !.at = "tab", !.tab = 0])
    <3>1. 0 \in {NoTab} \cup 0 .. 4 /\ "tab" \in Labels
      BY DEF Labels
    <3> QED BY <1>4, <3>1, TabBecomes DEF PutcTab
  <2>2. Frame
    BY <1>1, <1>4, SameFrame DEF PutcTab, Keep
  <2>3. Stepped([This EXCEPT !.at = "tab", !.tab = 0])
    BY <1>1, <1>4, <2>1, <2>2 DEF Stepped, Move, PutcTab, Keep, cursorVars, At
  <2> QED BY <2>3
<1>5. CASE PutcDefault
  <2>1. Becomes([This EXCEPT !.at = "position", !.y = g_ScreenY])
    BY <1>5, LoadYBecomes DEF PutcDefault, Labels
  <2>2. Frame
    BY <1>1, <1>5, SameFrame DEF PutcDefault, Keep
  <2>3. Stepped([This EXCEPT !.at = "position", !.y = g_ScreenY])
    BY <1>1, <1>5, <2>1, <2>2 DEF Stepped, Move, PutcDefault, Keep, cursorVars, At
  <2> QED BY <2>3
<1> QED BY <1>2, <1>3, <1>4, <1>5 DEF PutcChar

LEMMA TabSteps ==
  ASSUME Shape, TabLoop
  PROVE  \E t : Stepped(t)
<1>1. At("tab") /\ Keep /\ ~At("index15")
  BY DEF TabLoop, At
<1>2. Frame
  BY <1>1, SameFrame DEF Keep
<1>3. CASE This.tab < 4 - (g_ScreenX % 4)
  <2>1. Becomes([This EXCEPT !.at = "putc"])
    BY <1>3, GotoBecomes DEF TabLoop, Labels
  <2>2. This.tab < 4
    <3>1. This.tab \in Int /\ g_ScreenX \in Nat
      BY ThisContext DEF Shape, ContextRecord, NoTab
    <3>2. g_ScreenX % 4 \in 0 .. 3
      BY <3>1
    <3> QED BY <1>3, <3>1, <3>2
  <2>3. Stepped([This EXCEPT !.at = "putc"])
    BY <1>3, <1>1, <1>2, <2>1, <2>2 DEF Stepped, Move, Keep, cursorVars, At
  <2> QED BY <2>3
<1>4. CASE ~(This.tab < 4 - (g_ScreenX % 4))
  <2>1. Becomes([This EXCEPT !.at = "wrap", !.tab = NoTab])
    BY <1>4, TabBecomes DEF TabLoop, Labels
  <2>2. Stepped([This EXCEPT !.at = "wrap", !.tab = NoTab])
    BY <1>4, <1>1, <1>2, <2>1 DEF Stepped, Move, Keep, cursorVars, At
  <2> QED BY <2>2
<1> QED BY <1>3, <1>4

LEMMA PositionSteps ==
  ASSUME Shape, Position
  PROVE  \E t : Stepped(t)
<1>1. CASE At("position")
  <2>1. Becomes([This EXCEPT !.at = "cell", !.x = g_ScreenX])
    BY <1>1, LoadXBecomes DEF Position, At, Labels
  <2>2. Frame
    BY <1>1, SameFrame DEF Position, At, Keep, cursorVars
  <2>3. Stepped([This EXCEPT !.at = "cell", !.x = g_ScreenX])
    BY <1>1, <2>1, <2>2, ThisContext DEF Stepped, Move, Position, At, Keep, cursorVars, ContextRecord, Shape
  <2> QED BY <2>3
<1> QED BY <1>1 DEF Position, At

LEMMA PutchrSteps ==
  ASSUME Shape, putchr
  PROVE  \E t : Stepped(t)
<1>1. CASE At("cell")
  <2>1. Becomes([This EXCEPT !.at = "advance"])
    BY <1>1, GotoBecomes DEF putchr, At, Labels
  <2>2. Frame
    BY <1>1 DEF putchr, At, cursorVars, Frame, Shape
  <2>3. Stepped([This EXCEPT !.at = "advance"])
    BY <1>1, <2>1, <2>2, ThisContext DEF Stepped, Move, putchr, At, cursorVars, ContextRecord, Shape
  <2> QED BY <2>3
<1> QED BY <1>1 DEF putchr, At

LEMMA AdvanceSteps ==
  ASSUME Shape, Advance
  PROVE  \E t : Stepped(t)
<1>1. CASE At("advance")
  <2>1. Becomes([This EXCEPT !.at = "advanced", !.x = g_ScreenX])
    BY <1>1, LoadXBecomes DEF Advance, At, Labels
  <2>2. Frame
    BY <1>1, SameFrame DEF Advance, At, Keep, cursorVars
  <2>3. Stepped([This EXCEPT !.at = "advanced", !.x = g_ScreenX])
    BY <1>1, <2>1, <2>2, ThisContext DEF Stepped, Move, Advance, At, Keep, cursorVars, ContextRecord, Shape
  <2> QED BY <2>3
<1>2. CASE At("advanced")
  <2>1. Becomes([This EXCEPT !.at = "wrap"])
    BY <1>2, GotoBecomes DEF Advance, At, Labels
  <2>2. Frame
    BY <1>2, SameFrame DEF Advance, At, SetX
  <2>3. Stepped([This EXCEPT !.at = "wrap"])
    BY <1>2, <2>1, <2>2, ThisContext DEF Stepped, Move, Advance, At, SetX, ContextRecord, Shape
  <2> QED BY <2>3
<1> QED BY <1>1, <1>2 DEF Advance, At

LEMMA NewlineSteps ==
  ASSUME Shape, Newline
  PROVE  \E t : Stepped(t)
<1>1. CASE At("newline")
  <2>1. Becomes([This EXCEPT !.at = "newlined", !.y = g_ScreenY])
    BY <1>1, LoadYBecomes DEF Newline, At, Labels
  <2>2. Frame
    BY <1>1, SameFrame DEF Newline, At, Keep, cursorVars
  <2>3. Stepped([This EXCEPT !.at = "newlined", !.y = g_ScreenY])
    BY <1>1, <2>1, <2>2, ThisContext DEF Stepped, Move, Newline, At, Keep, cursorVars, ContextRecord, Shape
  <2> QED BY <2>3
<1>2. CASE At("newlined")
  <2>1. Becomes([This EXCEPT !.at = "wrap"])
    BY <1>2, GotoBecomes DEF Newline, At, Labels
  <2>2. Frame
    BY <1>2, SameFrame DEF Newline, At, SetY
  <2>3. Stepped([This EXCEPT !.at = "wrap"])
    BY <1>2, <2>1, <2>2, ThisContext DEF Stepped, Move, Newline, At, SetY, ContextRecord, Shape
  <2> QED BY <2>3
<1> QED BY <1>1, <1>2 DEF Newline, At

LEMMA WrapSteps ==
  ASSUME Shape, Wrap
  PROVE  \E t : Stepped(t)
<1>1. CASE At("wrap") /\ PastEdge
  <2>1. Becomes([This EXCEPT !.at = "wrapLine"])
    BY <1>1, GotoBecomes DEF Wrap, At, Labels, PastEdge
  <2>2. Frame
    BY <1>1, SameFrame DEF Wrap, At, Keep, cursorVars, PastEdge
  <2>3. Stepped([This EXCEPT !.at = "wrapLine"])
    BY <1>1, <2>1, <2>2, ThisContext DEF Stepped, Move, Wrap, At, Keep, cursorVars, ContextRecord, Shape, PastEdge
  <2> QED BY <2>3
<1>2. CASE At("wrap") /\ ~PastEdge
  <2>1. Becomes([This EXCEPT !.at = "bottom"])
    BY <1>2, GotoBecomes DEF Wrap, At, Labels, PastEdge
  <2>2. Frame
    BY <1>2, SameFrame DEF Wrap, At, Keep, cursorVars, PastEdge
  <2>3. Stepped([This EXCEPT !.at = "bottom"])
    BY <1>2, <2>1, <2>2, ConsoleAssumption DEF Stepped, Move, Wrap, At, Keep, cursorVars, ContextRecord, Shape, PastEdge
  <2> QED BY <2>3
<1>3. CASE At("wrapLine")
  <2>1. Becomes([This EXCEPT !.at = "wrappedLine", !.y = g_ScreenY])
    BY <1>3, LoadYBecomes DEF Wrap, At, Labels
  <2>2. Frame
    BY <1>3, SameFrame DEF Wrap, At, Keep, cursorVars
  <2>3. Stepped([This EXCEPT !.at = "wrappedLine", !.y = g_ScreenY])
    BY <1>3, <2>1, <2>2, ThisContext DEF Stepped, Move, Wrap, At, Keep, cursorVars, ContextRecord, Shape
  <2> QED BY <2>3
<1>4. CASE At("wrappedLine")
  <2>1. Becomes([This EXCEPT !.at = "wrapColumn"])
    BY <1>4, GotoBecomes DEF Wrap, At, Labels
  <2>2. Frame
    BY <1>4, SameFrame DEF Wrap, At, SetY
  <2>3. Stepped([This EXCEPT !.at = "wrapColumn"])
    BY <1>4, <2>1, <2>2, ThisContext DEF Stepped, Move, Wrap, At, SetY, ContextRecord, Shape
  <2> QED BY <2>3
<1>5. CASE At("wrapColumn")
  <2>1. Becomes([This EXCEPT !.at = "bottom"])
    BY <1>5, GotoBecomes DEF Wrap, At, Labels
  <2>2. Frame
    BY <1>5, SameFrame DEF Wrap, At, SetX
  <2>3. Stepped([This EXCEPT !.at = "bottom"])
    BY <1>5, <2>1, <2>2, ThisContext DEF Stepped, Move, Wrap, At, SetX, ContextRecord, Shape
  <2> QED BY <2>3
<1> QED BY <1>1, <1>2, <1>3, <1>4, <1>5 DEF Wrap, At

LEMMA BottomSteps ==
  ASSUME Shape, Bottom
  PROVE  \E t : Stepped(t)
<1>1. CASE At("bottom") /\ PastBottom
  <2>1. Becomes([This EXCEPT !.at = "scroll"])
    BY <1>1, GotoBecomes DEF Bottom, At, Labels, PastBottom
  <2>2. Frame
    BY <1>1, SameFrame DEF Bottom, At, Keep, cursorVars, PastBottom
  <2>3. Stepped([This EXCEPT !.at = "scroll"])
    BY <1>1, <2>1, <2>2, ThisContext DEF Stepped, Move, Bottom, At, Keep, cursorVars, ContextRecord, Shape, PastBottom
  <2> QED BY <2>3
<1>2. CASE At("bottom") /\ ~PastBottom
  <2>1. Becomes([This EXCEPT !.at = "cursorY"])
    BY <1>2, GotoBecomes DEF Bottom, At, Labels, PastBottom
  <2>2. Frame
    BY <1>2, SameFrame DEF Bottom, At, Keep, cursorVars, PastBottom
  <2>3. Stepped([This EXCEPT !.at = "cursorY"])
    BY <1>2, <2>1, <2>2, ConsoleAssumption DEF Stepped, Move, Bottom, At, Keep, cursorVars, ContextRecord, Shape, PastBottom
  <2> QED BY <2>3
<1> QED BY <1>1, <1>2 DEF Bottom, At

LEMMA ScrollSteps ==
  ASSUME Shape, scrollback
  PROVE  \E t : Stepped(t)
<1>1. CASE At("scroll")
  <2>1. Becomes([This EXCEPT !.at = "scrolled", !.y = g_ScreenY])
    BY <1>1, LoadYBecomes DEF scrollback, At, Labels
  <2>2. Frame
    BY <1>1 DEF scrollback, Scrolled, At, cursorVars, Frame, Shape
  <2>3. Stepped([This EXCEPT !.at = "scrolled", !.y = g_ScreenY])
    BY <1>1, <2>1, <2>2, ThisContext DEF Stepped, Move, scrollback, At, cursorVars, ContextRecord, Shape
  <2> QED BY <2>3
<1>2. CASE At("scrolled")
  <2>1. Becomes([This EXCEPT !.at = "cursorY"])
    BY <1>2, GotoBecomes DEF scrollback, At, Labels
  <2>2. Frame
    BY <1>2, SameFrame DEF scrollback, At, SetY
  <2>3. Stepped([This EXCEPT !.at = "cursorY"])
    BY <1>2, <2>1, <2>2, ThisContext DEF Stepped, Move, scrollback, At, SetY, ContextRecord, Shape
  <2> QED BY <2>3
<1> QED BY <1>1, <1>2 DEF scrollback, At

LEMMA ClearSteps ==
  ASSUME Shape, clrscr
  PROVE  \E t : Stepped(t)
<1>1. CASE At("clear")
  <2>1. Becomes([This EXCEPT !.at = "clearX"])
    BY <1>1, GotoBecomes DEF clrscr, At, Labels
  <2>2. Frame
    BY <1>1 DEF clrscr, Blank, At, cursorVars, Frame, Shape
  <2>3. Stepped([This EXCEPT !.at = "clearX"])
    BY <1>1, <2>1, <2>2, ThisContext DEF Stepped, Move, clrscr, At, cursorVars, ContextRecord, Shape
  <2> QED BY <2>3
<1>2. CASE At("clearX")
  <2>1. Becomes([This EXCEPT !.at = "clearY"])
    BY <1>2, GotoBecomes DEF clrscr, At, Labels
  <2>2. Frame
    BY <1>2, SameFrame DEF clrscr, At, SetX
  <2>3. Stepped([This EXCEPT !.at = "clearY"])
    BY <1>2, <2>1, <2>2, ThisContext DEF Stepped, Move, clrscr, At, SetX, ContextRecord, Shape
  <2> QED BY <2>3
<1>3. CASE At("clearY")
  <2>1. Becomes([This EXCEPT !.at = "cursorY"])
    BY <1>3, GotoBecomes DEF clrscr, At, Labels
  <2>2. Frame
    BY <1>3, SameFrame DEF clrscr, At, SetY
  <2>3. Stepped([This EXCEPT !.at = "cursorY"])
    BY <1>3, <2>1, <2>2, ThisContext DEF Stepped, Move, clrscr, At, SetY, ContextRecord, Shape
  <2> QED BY <2>3
<1> QED BY <1>1, <1>2, <1>3 DEF clrscr, At

\* What setcursor writes to a register of the VGA is a byte.
LEMMA WriteFrame ==
  ASSUME Shape, NEW value \in 0 .. BYTE - 1, WriteRegister(value),
         This.at \in {"low", "index14", "high"}
  PROVE  Frame
<1>1. crtc.index \in {14, 15} /\ crtc \in CrtcRecord
  <2>1. crtc.index # 0
    BY DEF Shape, This
  <2> QED BY <2>1 DEF Shape, CrtcRecord
<1>2. crtc' = [crtc EXCEPT !.low = value] \/ crtc' = [crtc EXCEPT !.high = value]
  BY <1>1 DEF WriteRegister
<1>3. crtc' \in CrtcRecord /\ crtc'.index = crtc.index
  BY <1>1, <1>2 DEF CrtcRecord
<1>4. DOMAIN screen' = Cells
  BY DEF WriteRegister, Shape
<1> QED BY <1>1, <1>3, <1>4 DEF Frame

LEMMA Bytes ==
  ASSUME Shape
  PROVE  CellOf(This) % BYTE \in 0 .. BYTE - 1 /\ (CellOf(This) \div BYTE) % BYTE \in 0 .. BYTE - 1
<1> DEFINE b == BYTE
           n == CellOf(This)
<1>1. b \in Nat \ {0} /\ n \in Nat
  <2>1. This.x \in Nat /\ This.y \in Nat /\ SCREEN_WIDTH \in Nat
    BY ThisContext, ConsoleAssumption DEF ContextRecord
  <2>2. This.y * SCREEN_WIDTH \in Nat
    BY <2>1
  <2> QED BY <2>1, <2>2, ConsoleAssumption DEF CellOf
<1> HIDE DEF b, n
<1>2. n % b \in 0 .. b - 1 /\ n \div b \in Nat
  BY <1>1
<1>3. (n \div b) % b \in 0 .. b - 1
  BY <1>1, <1>2
<1> QED BY <1>2, <1>3 DEF b, n

LEMMA SelectFrame ==
  ASSUME Shape, NEW index \in {14, 15}, SelectRegister(index)
  PROVE  Frame
<1>1. crtc' \in CrtcRecord /\ crtc'.index = index
  BY DEF SelectRegister, Shape, CrtcRecord
<1> QED BY <1>1 DEF Frame, SelectRegister, Shape

LEMMA SetcursorSteps ==
  ASSUME Shape, setcursor
  PROVE  \E t : Stepped(t)
<1>1. CASE At("cursorY")
  <2>1. Becomes([This EXCEPT !.at = "cursorX", !.y = g_ScreenY])
    BY <1>1, LoadYBecomes DEF setcursor, At, Labels
  <2>2. Frame
    BY <1>1, SameFrame DEF setcursor, At, Keep
  <2>3. Stepped([This EXCEPT !.at = "cursorX", !.y = g_ScreenY])
    BY <1>1, <2>1, <2>2 DEF Stepped, Move, setcursor, At, Keep, cursorVars
  <2> QED BY <2>3
<1>2. CASE At("cursorX")
  <2>1. Becomes([This EXCEPT !.at = "index15", !.x = g_ScreenX])
    BY <1>2, LoadXBecomes DEF setcursor, At, Labels
  <2>2. Frame
    BY <1>2, SameFrame DEF setcursor, At, Keep
  <2>3. Stepped([This EXCEPT !.at = "index15", !.x = g_ScreenX])
    BY <1>2, <2>1, <2>2 DEF Stepped, Move, setcursor, At, Keep, cursorVars
  <2> QED BY <2>3
<1>3. CASE At("index15")
  <2>1. Becomes([This EXCEPT !.at = "low"])
    BY <1>3, GotoBecomes DEF setcursor, At, Labels
  <2>2. Frame
    BY <1>3, SelectFrame DEF setcursor, At
  <2>3. Stepped([This EXCEPT !.at = "low"])
    BY <1>3, <2>1, <2>2 DEF Stepped, Move, setcursor, At, SelectRegister, cursorVars
  <2> QED BY <2>3
<1>4. CASE At("low")
  <2>1. Becomes([This EXCEPT !.at = "index14"])
    BY <1>4, GotoBecomes DEF setcursor, At, Labels
  <2>2. Frame
    BY <1>4, Bytes, WriteFrame DEF setcursor, At
  <2>3. Stepped([This EXCEPT !.at = "index14"])
    BY <1>4, <2>1, <2>2 DEF Stepped, Move, setcursor, At, WriteRegister, cursorVars
  <2> QED BY <2>3
<1>5. CASE At("index14")
  <2>1. Becomes([This EXCEPT !.at = "high"])
    BY <1>5, GotoBecomes DEF setcursor, At, Labels
  <2>2. Frame
    BY <1>5, SelectFrame DEF setcursor, At
  <2>3. Stepped([This EXCEPT !.at = "high"])
    BY <1>5, <2>1, <2>2 DEF Stepped, Move, setcursor, At, SelectRegister, cursorVars
  <2> QED BY <2>3
<1> QED BY <1>1, <1>2, <1>3, <1>4, <1>5 DEF setcursor, At

LEMMA ReturnSteps ==
  ASSUME Shape, PutcReturns
  PROVE  \E t : Stepped(t)
<1>1. This \in ContextRecord /\ Progress(This) /\ At("high") /\ Running \in DOMAIN contexts
  BY ThisContext DEF PutcReturns
<1>2. NextChar(This) \in ContextRecord
  <2>1. CASE This.tab = NoTab
    <3>1. NextChar(This) = [This EXCEPT !.at = "putc", !.n = This.n + 1]
      BY <2>1 DEF NextChar
    <3>2. This.n + 1 \in Nat /\ "putc" \in Labels
      BY <1>1 DEF ContextRecord, Labels
    <3> QED BY <1>1, <3>1, <3>2 DEF ContextRecord
  <2>2. CASE This.tab # NoTab
    <3>1. This.tab + 1 \in {NoTab} \cup 0 .. 4
      BY <1>1, <2>2 DEF At, Progress, ContextRecord, NoTab
    <3> QED BY <1>1, <2>2, <3>1 DEF NextChar, ContextRecord, Labels
  <2> QED BY <2>1, <2>2
<1>3. Becomes(NextChar(This))
  BY <1>2 DEF PutcReturns, Becomes
<1>4. Frame
  BY <1>1, Bytes, WriteFrame DEF PutcReturns, At
<1>5. Stepped(NextChar(This))
  BY <1>1, <1>3, <1>4 DEF Stepped, Move, PutcReturns, At, WriteRegister, cursorVars
<1> QED BY <1>5

LEMMA MicroSteps ==
  ASSUME Shape, MicroStep \/ PutcReturns
  PROVE  \E t : Stepped(t)
BY PutcSteps, TabSteps, PositionSteps, PutchrSteps, AdvanceSteps, NewlineSteps, WrapSteps,
   BottomSteps, ScrollSteps, ClearSteps, SetcursorSteps, ReturnSteps DEF MicroStep

-----------------------------------------------------------------------------
(* The inductive invariant.                                                *)

\* What printf puts of a message is its rendering.
LEMMA MessageRendered ==
  ASSUME NEW m \in Messages \cup HandlerMessages \cup {BootMessage}
  PROVE  TextOf(m) = Rendered(m.items, m.args) /\ TextOf(m) \in Seq(Characters)
<1>1. IsCall(m.items, m.args)
  BY MessageAssumption
<1> QED BY <1>1, PrintfRenders DEF TextOf

LEMMA TextLength ==
  ASSUME NEW c \in ContextRecord
  PROVE  Len(c.text) \in Nat /\ (c.text = <<>> => Len(c.text) = 0)
<1>1. CASE c.text = <<>>
  BY <1>1
<1>2. CASE c.text # <<>>
  <2>1. c.text \in Texts
    BY DEF ContextRecord
  <2>2. PICK m \in Messages \cup HandlerMessages \cup {BootMessage} : c.text = TextOf(m)
    BY <1>2, <2>1 DEF Texts
  <2>3. c.text \in Seq(Characters)
    BY <2>2, MessageRendered
  <2> QED BY <1>2, <2>3, LenProperties
<1> QED BY <1>1, <1>2

\* A move of the running context keeps everything in shape and the cursor
\* within what its context and the interrupted one allow.
LEMMA SteppedKeeps ==
  ASSUME Shape, CursorInv, NEW t, Stepped(t), iflag' = iflag
  PROVE  Shape' /\ CursorInv'
<1>1. /\ contexts \in Seq(ContextRecord) /\ Running \in 1 .. 2 /\ Running = Len(contexts)
      /\ t \in ContextRecord /\ This \in ContextRecord /\ This = contexts[Running]
      /\ contexts' = [contexts EXCEPT ![Running] = t]
  BY ThisContext DEF Shape, Stepped, Becomes, Running, This
<1>2. /\ contexts' \in Seq(ContextRecord) /\ Running' = Running
      /\ \A i \in 1 .. Running : contexts'[i] = IF i = Running THEN t ELSE contexts[i]
  BY <1>1 DEF Running
<1>3. Progress(t) /\ t.at # "idle"
  BY <1>1, ThisContext, TextLength, ConstantFacts, MoveProgress DEF Stepped
<1>4. /\ DOMAIN screen' = Cells /\ crtc' \in CrtcRecord
      /\ \A i \in 1 .. Running :
           /\ Progress(contexts'[i])
           /\ contexts'[i].at \in {"low", "index14", "high"} => crtc'.index # 0
  <2>1. t.at \in {"low", "index14", "high"} => crtc'.index # 0
    <3>1. t.at \in {"low", "index14", "high"} => This.at \in {"index15", "low", "index14"}
      BY <1>1 DEF Stepped, Move, NextChar, ContextRecord
    <3> QED BY <1>1, <3>1 DEF Stepped, Frame, Shape, At
  <2> QED BY <1>1, <1>2, <1>3, <2>1 DEF Shape, Stepped, Frame
<1>5. CASE Running = 1
  <2>1. g_ScreenX' \in Nat /\ g_ScreenY' \in Nat /\ StartInv(t, g_ScreenX', g_ScreenY')
    BY <1>1, <1>5, ConstantFacts, StartMove DEF CursorInv, Shape, Stepped
  <2>2. contexts'[1] = t
    BY <1>2, <1>5
  <2> QED BY <1>1, <1>2, <1>4, <1>5, <2>1, <2>2 DEF Shape, CursorInv
<1>6. CASE Running = 2
  <2>1. /\ g_ScreenX' \in Nat /\ g_ScreenY' \in Nat
        /\ HandlerInv(contexts[1], t, g_ScreenX', g_ScreenY')
    <3>1. contexts[1] \in ContextRecord
      BY <1>1
    <3> QED BY <1>1, <1>6, <3>1, ConstantFacts, HandlerMove DEF CursorInv, Shape, Stepped
  <2>2. contexts'[1] = contexts[1] /\ contexts'[2] = t
    BY <1>2, <1>6
  <2> QED BY <1>1, <1>2, <1>4, <1>6, <2>1, <2>2 DEF Shape, CursorInv
<1> QED BY <1>1, <1>5, <1>6

LEMMA NewContext ==
  ASSUME NEW at \in {"idle", "putc", "clear"}, NEW m \in AllMessages, NEW text \in Texts,
         at = "clear" => text = <<>>
  PROVE  /\ Context(at, m, text) \in ContextRecord /\ Progress(Context(at, m, text))
         /\ Context(at, m, text).at = at
<1> DEFINE c == Context(at, m, text)
<1>1. /\ c.at = at /\ c.text = text /\ c.n = 1 /\ c.tab = NoTab
      /\ c \in ContextRecord
  <2>1. at \in Labels /\ NoTab \in {NoTab} \cup 0 .. 4 /\ 0 \in Nat /\ 1 \in Nat
    BY DEF Labels
  <2> QED BY <2>1 DEF Context, ContextRecord
<1> HIDE DEF c
<1>2. Len(c.text) \in Nat
  BY <1>1, TextLength
<1>3. c.at # "clear" => BetweenCharacters(c)
  BY <1>1 DEF BetweenCharacters
<1>4. Progress(c)
  BY <1>1, <1>2, <1>3 DEF Progress, NoTab
<1> QED BY <1>1, <1>4 DEF c

\* start() with a new call under way, or with none.
LEMMA CallBegins ==
  ASSUME Shape, CursorInv, Running = 1, contexts[1].at \in {"idle", "putc"},
         UNCHANGED <<cursorVars, screen, crtc>>,
         NEW at \in {"idle", "putc", "clear"}, NEW m \in AllMessages, NEW text \in Texts,
         at = "clear" => text = <<>>, contexts' = <<Context(at, m, text)>>
  PROVE  Shape' /\ CursorInv'
<1> DEFINE c == Context(at, m, text)
           s == contexts[1]
<1>1. c \in ContextRecord /\ Progress(c) /\ c.at = at
  BY NewContext
<1> HIDE DEF c
<1>2. /\ contexts' \in Seq(ContextRecord) /\ Running' = 1 /\ contexts'[1] = c
  BY <1>1 DEF c, Running
<1>3. Shape'
  BY <1>1, <1>2 DEF Shape, cursorVars
<1>4. StartInv(c, g_ScreenX, g_ScreenY)
  BY <1>1 DEF CursorInv, StartInv, StartRegisters, AtRest, FirstRow, LastRow, LastColumn
<1> QED BY <1>2, <1>3, <1>4 DEF CursorInv, cursorVars

LEMMA MessageTexts ==
  /\ NoMessage \in AllMessages /\ <<>> \in Texts
  /\ \A m \in Messages \cup HandlerMessages \cup {BootMessage} :
       m \in AllMessages /\ TextOf(m) \in Texts
BY DEF AllMessages, Texts

LEMMA ReturnKeeps ==
  ASSUME Shape, CursorInv, CallReturns
  PROVE  Shape' /\ CursorInv'
<1>1. Running \in 1 .. 2 /\ This.at = "putc" /\ This = contexts[Running]
  BY DEF CallReturns, At, Shape, This
<1>2. CASE Running = 1
  <2>1. contexts' = <<Context("idle", NoMessage, <<>>)>>
    BY <1>2 DEF CallReturns, IdleContext
  <2> QED BY <1>1, <1>2, <2>1, CallBegins, MessageTexts DEF CallReturns
<1>3. CASE Running = 2
  <2>1. /\ contexts \in Seq(ContextRecord) /\ Len(contexts) = 2
        /\ contexts' = SubSeq(contexts, 1, 1)
    BY <1>3 DEF CallReturns, Shape, Running, Front
  <2>2. contexts' \in Seq(ContextRecord) /\ Len(contexts') = 1 /\ contexts'[1] = contexts[1]
    BY <2>1
  <2>3. Shape'
    <3>1. /\ Progress(contexts[1])
          /\ contexts[1].at \in {"low", "index14", "high"} => crtc.index # 0
      BY <1>3 DEF Shape
    <3>2. Running' = 1 /\ \A i \in 1 .. 1 : contexts'[i] = contexts[1]
      BY <2>2 DEF Running
    <3> QED BY <2>2, <3>1, <3>2 DEF Shape, CallReturns, cursorVars
  <2>4. contexts[2].at = "putc" /\ HandlerInv(contexts[1], contexts[2], g_ScreenX, g_ScreenY)
    BY <1>1, <1>3 DEF CursorInv
  <2>5. StartInv(contexts[1], g_ScreenX, g_ScreenY)
    BY <2>4 DEF HandlerInv, HandlerCursor, StartInv
  <2> QED BY <2>2, <2>3, <2>5 DEF CursorInv, Running, CallReturns, cursorVars
<1> QED BY <1>1, <1>2, <1>3

\* A handler starts with the cursor where start() left it.
LEMMA TickKeeps ==
  ASSUME Shape, CursorInv, Tick
  PROVE  Shape' /\ CursorInv'
<1>1. PICK m \in HandlerMessages : contexts' = Append(contexts, Printing(m))
  BY DEF Tick
<1> DEFINE c == Printing(m)
<1>2. c \in ContextRecord /\ Progress(c) /\ c.at = "putc"
  BY NewContext, MessageTexts DEF Printing
<1> HIDE DEF c
<1>3. contexts \in Seq(ContextRecord) /\ Len(contexts) = 1
  BY DEF Shape, Tick, Running
<1>4. /\ contexts' \in Seq(ContextRecord) /\ Len(contexts') = 2
      /\ contexts'[1] = contexts[1] /\ contexts'[2] = c
  <2>1. contexts' = Append(contexts, c)
    BY <1>1 DEF c
  <2>2. contexts' \in Seq(ContextRecord) /\ Len(contexts') = Len(contexts) + 1
    BY ONLY <1>2, <1>3, <2>1, AppendProperties
  <2>3. contexts'[Len(contexts) + 1] = c
    BY ONLY <1>2, <1>3, <2>1, AppendProperties
  <2>4. \A i \in 1 .. Len(contexts) : contexts'[i] = contexts[i]
    BY ONLY <1>2, <1>3, <2>1, AppendProperties
  <2> QED BY <1>3, <2>2, <2>3, <2>4
<1>5. Shape'
  BY <1>2, <1>3, <1>4 DEF Shape, Running, Tick, cursorVars
<1>6. StartInv(contexts[1], g_ScreenX, g_ScreenY)
  BY DEF CursorInv, Tick
<1>7. HandlerInv(contexts[1], c, g_ScreenX, g_ScreenY)
  BY <1>2, <1>6 DEF StartInv, HandlerInv, HandlerCursor, HandlerRegisters
<1> QED BY <1>4, <1>5, <1>7 DEF CursorInv, Running, Tick, cursorVars

LEMMA InitKeeps ==
  ASSUME Init
  PROVE  Shape /\ CursorInv
<1> DEFINE c == Context("idle", NoMessage, <<>>)
<1>1. c \in ContextRecord /\ Progress(c) /\ c.at = "idle"
  BY NewContext, MessageTexts
<1> HIDE DEF c
<1>2. contexts = <<c>>
  BY DEF Init, IdleContext, c
<1>3. contexts \in Seq(ContextRecord) /\ Running = 1 /\ contexts[1] = c
  BY <1>1, <1>2 DEF Running
<1>4. crtc \in CrtcRecord
  BY ConsoleAssumption DEF Init, CrtcRecord
<1>5. Shape
  BY <1>1, <1>3, <1>4 DEF Shape, Init
<1>6. StartInv(c, 0, 0)
  BY <1>1, ConsoleAssumption DEF StartInv, StartRegisters, AtRest, FirstRow, LastRow, LastColumn
<1> QED BY <1>3, <1>5, <1>6 DEF CursorInv, Init

LEMMA NextKeeps ==
  ASSUME Shape, CursorInv, [Next]_vars
  PROVE  Shape' /\ CursorInv'
<1>1. CASE MicroStep /\ UNCHANGED clientVars
  <2>1. \E t : Stepped(t)
    BY <1>1, MicroSteps
  <2> QED BY <1>1, <2>1, SteppedKeeps DEF clientVars
<1>2. CASE PutcReturns /\ UNCHANGED clientVars
  <2>1. \E t : Stepped(t)
    BY <1>2, MicroSteps
  <2> QED BY <1>2, <2>1, SteppedKeeps DEF clientVars
<1>3. CASE CallReturns
  BY <1>3, ReturnKeeps
<1>4. CASE PrintBoot
  <2>1. Running = 1 /\ contexts[1].at = "idle"
    BY <1>4 DEF PrintBoot, Calling, At, This
  <2>2. contexts' = <<Context("putc", BootMessage, TextOf(BootMessage))>>
    BY <1>4 DEF PrintBoot, Printing
  <2> QED BY <1>4, <2>1, <2>2, CallBegins, MessageTexts DEF PrintBoot
<1>5. CASE EnableInterrupts
  BY <1>5 DEF EnableInterrupts, Calling, Shape, CursorInv, Running, cursorVars
<1>6. CASE ClearScreen
  <2>1. Running = 1 /\ contexts[1].at = "idle"
    BY <1>6 DEF ClearScreen, Calling, At, This
  <2>2. contexts' = <<Context("clear", NoMessage, <<>>)>>
    BY <1>6 DEF ClearScreen, Clearing
  <2> QED BY <1>6, <2>1, <2>2, CallBegins, MessageTexts DEF ClearScreen
<1>7. CASE PrintMessage
  <2>1. Running = 1 /\ contexts[1].at = "idle"
    BY <1>7 DEF PrintMessage, Calling, At, This
  <2>2. PICK m \in Messages : contexts' = <<Context("putc", m, TextOf(m))>>
    BY <1>7 DEF PrintMessage, Printing
  <2> QED BY <1>7, <2>1, <2>2, CallBegins, MessageTexts DEF PrintMessage
<1>8. CASE Tick
  BY <1>8, TickKeeps
<1>9. CASE Idle \/ UNCHANGED vars
  BY <1>9 DEF Idle, vars, cursorVars, clientVars, Shape, CursorInv, Running
<1> QED BY <1>1, <1>2, <1>3, <1>4, <1>5, <1>6, <1>7, <1>8, <1>9 DEF Next, Console, MicroStep

LEMMA Invariance == Spec => [](Shape /\ CursorInv)
<1>1. Init => Shape /\ CursorInv
  BY InitKeeps
<1>2. Shape /\ CursorInv /\ [Next]_vars => (Shape /\ CursorInv)'
  BY NextKeeps
<1> QED BY <1>1, <1>2, PTL DEF Spec

-----------------------------------------------------------------------------
(* The display: what of the text is on the screen while a character is     *)
(* under way.                                                              *)

\* Labels at which the character in progress is not on the screen yet.
Behind == {"idle", "putc", "tab", "position", "cell"}

\* The page before and after the character, or the blank of a tab, in progress,
\* and the one the screen shows.
Before(c, p) == IF c.tab = NoTab THEN p ELSE Fill(p, " ", c.tab)
After(c, p) == IF c.tab # NoTab THEN Fill(p, " ", c.tab + 1)
               ELSE IF c.n <= Len(c.text) THEN Type(p, c.text[c.n]) ELSE p
Seen(c, p) == IF c.at \in Behind THEN Before(c, p) ELSE After(c, p)

\* Where on the screen the page shown ends, while the cursor is at X, Y.
Moved(c, X, Y) ==
  CASE c.at \in {"advance", "advanced"}     -> Y * SCREEN_WIDTH + (X + 1)
    [] c.at \in {"newline", "newlined"}     -> (Y + 1) * SCREEN_WIDTH + X
    [] c.at \in {"wrapLine", "wrappedLine"} -> (Y + 1) * SCREEN_WIDTH
    [] c.at = "wrapColumn"                  -> Y * SCREEN_WIDTH
    [] c.at = "scrolled"                    -> (Y - 1) * SCREEN_WIDTH + X
    [] OTHER                                -> Y * SCREEN_WIDTH + X

\* The screen shows the cells but for the first r rows, and there are none
\* behind it.
Window(cells, r, scr) ==
  /\ \A i \in DOMAIN cells : i \in Nat /\ i < (r + SCREEN_HEIGHT) * SCREEN_WIDTH
  /\ scr = [i \in Cells |-> IF r * SCREEN_WIDTH + i \in DOMAIN cells
                              THEN cells[r * SCREEN_WIDTH + i] ELSE NUL]

\* The registers hold the cursor when they are used.
Loaded(c, X, Y) ==
  /\ c.at \in {"position", "cell", "newlined", "wrappedLine", "scrolled", "cursorX",
               "index15", "low", "index14", "high"} => c.y = Y
  /\ c.at \in {"cell", "advanced", "index15", "low", "index14", "high"} => c.x = X

\* The character in progress is one that its place in putc is for, and a tab
\* never takes more blanks than the page gives it.
Typing(c, p) ==
  /\ c.at = "idle" => c.tab = NoTab
  /\ c.tab # NoTab => /\ c.n <= Len(c.text) /\ c.text[c.n] = "\t"
                      /\ c.tab <= Blanks(p.at) /\ (c.at # "tab" => c.tab < Blanks(p.at))
  /\ c.at \in {"position", "cell", "advance", "advanced"} =>
       c.n <= Len(c.text) /\ Put(c) \notin {"\n", "\r", "\t"}
  /\ c.at \in {"newline", "newlined"} => c.n <= Len(c.text) /\ c.tab = NoTab /\ Put(c) = "\n"

\* Inside clrscr, before the cursor is at the top.
Wiping(c, X, scr, p) ==
  /\ p.at = 0 /\ p.cells = Blank
  /\ c.tab = NoTab /\ c.n > Len(c.text)
  /\ c.at # "clear" => scr = Blank
  /\ c.at = "clearY" => X = 0

\* Elsewhere: the screen shows the page without its first r rows.
Showing(r, c, X, Y, scr, p) ==
  /\ r # 0 => Y >= SCREEN_HEIGHT - 1
  /\ c.at \in {"scroll", "scrolled"} => Y >= SCREEN_HEIGHT
  /\ Window(Seen(c, p).cells, r, scr)
  /\ Seen(c, p).at = r * SCREEN_WIDTH + Moved(c, X, Y)

\* The cursor of the VGA, between characters and on the way there.
Marked(c, X, Y, crt, p) ==
  /\ BetweenCharacters(c) /\ p.shown => crt.low + BYTE * crt.high = Y * SCREEN_WIDTH + X
  /\ c.at = "low" => crt.index = 15
  /\ c.at \in {"index14", "high"} => crt.low = (Y * SCREEN_WIDTH + X) % BYTE
  /\ c.at = "high" => crt.index = 14

Display(r, c, X, Y, scr, crt, p) ==
  /\ p.at \in Nat /\ Loaded(c, X, Y) /\ Typing(c, p) /\ Marked(c, X, Y, crt, p)
  /\ IF c.at \in {"clear", "clearX", "clearY"}
       THEN Wiping(c, X, scr, p) ELSE Showing(r, c, X, Y, scr, p)

\* What a step draws: the screen and the registers of the VGA after it.
Lifted(scr) == [i \in Cells |-> LET from == i + 1 * SCREEN_WIDTH
                                IN  IF from \in Cells THEN scr[from] ELSE NUL]
Draws(c, scr, scr1, crt, crt1) ==
  /\ scr1 = CASE c.at = "cell"   -> [i \in Cells |-> IF i = CellOf(c) THEN Put(c) ELSE scr[i]]
              [] c.at = "scroll" -> Lifted(scr)
              [] c.at = "clear"  -> Blank
              [] OTHER           -> scr
  /\ c.at = "index15" => crt1 = [crt EXCEPT !.index = 15]
  /\ c.at = "low" /\ crt.index = 15 => crt1 = [crt EXCEPT !.low = CellOf(c) % BYTE]
  /\ c.at = "index14" => crt1 = [crt EXCEPT !.index = 14]
  /\ c.at = "high" /\ crt.index = 14 =>
       crt1 = [crt EXCEPT !.high = (CellOf(c) \div BYTE) % BYTE]
  /\ c.at \notin {"index15", "low", "index14", "high"} => crt1 = crt

LEMMA MicroDraws ==
  ASSUME MicroStep \/ PutcReturns
  PROVE  Draws(This, screen, screen', crtc, crtc')
<1>1. Char = Put(This)
  BY DEF Char, Put
<1>2. CASE PutcChar
  BY <1>2 DEF PutcChar, PutcNewline, PutcReturn, PutcTab, PutcDefault, At, SetX, Keep, Draws
<1>3. CASE TabLoop
  BY <1>3 DEF TabLoop, At, Keep, Draws
<1>4. CASE Position \/ Advance \/ Newline
  BY <1>4 DEF Position, Advance, Newline, At, Keep, SetX, SetY, Draws
<1>5. CASE putchr
  <2>1. /\ This.at = "cell" /\ crtc' = crtc
        /\ screen' = [i \in Cells |-> IF i = CellOf(This) THEN Put(This) ELSE screen[i]]
    BY <1>1, <1>5 DEF putchr, At
  <2> QED BY <2>1 DEF Draws
<1>6. CASE Wrap \/ Bottom
  BY <1>6 DEF Wrap, Bottom, At, Keep, SetX, SetY, Draws
<1>7. CASE scrollback
  BY <1>7 DEF scrollback, Scrolled, Lifted, At, Keep, SetY, Draws
<1>8. CASE clrscr
  BY <1>8 DEF clrscr, Blank, At, SetX, SetY, Draws
<1>9. CASE setcursor
  BY <1>9 DEF setcursor, At, Keep, SelectRegister, WriteRegister, Draws
<1>10. CASE PutcReturns
  BY <1>10 DEF PutcReturns, At, WriteRegister, Draws
<1> QED BY <1>2, <1>3, <1>4, <1>5, <1>6, <1>7, <1>8, <1>9, <1>10 DEF MicroStep

\* A number of two digits is what its digits say.
LEMMA TwoBytes ==
  ASSUME NEW b \in Nat \ {0}, NEW n \in Nat, n < b * b
  PROVE  (n % b) + b * ((n \div b) % b) = n
<1> DEFINE q == n \div b
           z == n % b
<1>1. q \in Nat /\ z \in 0 .. b - 1 /\ n = b * q + z
  OBVIOUS
<1> HIDE DEF q, z
<1>2. q < b
  <2>1. CASE q >= b
    <3>1. b * q >= b * b
      BY <1>1, <2>1
    <3> QED BY <1>1, <3>1
  <2> QED BY <1>1, <2>1
<1>3. q % b = q
  BY <1>1, <1>2
<1> QED BY <1>1, <1>3 DEF q, z

\* The bound of the tab loop, computed again before each blank, makes 2, 2, 1
\* or 3 blanks of a tab, by the column it starts in.
LEMMA TabStops ==
  ASSUME NEW w \in Nat, w % 4 = 0, NEW r \in Nat, NEW X \in Nat, NEW Y \in Nat,
         NEW a \in Nat, NEW k \in Nat, a + k = r * w + (Y * w + X), k <= Blanks(a)
  PROVE  Blanks(a) \in 1 .. 3 /\ (k < 4 - (X % 4) <=> k < Blanks(a))
<1>1. PICK u \in Nat : w = 4 * u
  <2>1. w = 4 * (w \div 4) /\ w \div 4 \in Nat
    OBVIOUS
  <2> QED BY <2>1
<1>2. PICK v \in Nat : a + k = 4 * v + X
  <2>1. r * w = 4 * (r * u) /\ Y * w = 4 * (Y * u) /\ r * u \in Nat /\ Y * u \in Nat
    BY <1>1
  <2> DEFINE v == r * u + Y * u
  <2>2. v \in Nat /\ r * w + (Y * w + X) = 4 * v + X
    BY <2>1
  <2> QED BY <2>2
<1>3. X % 4 = (a + k) % 4
  BY <1>2
<1>4. a % 4 \in 0 .. 3
  OBVIOUS
<1>5. CASE a % 4 = 0
  <2>1. Blanks(a) = 2
    BY <1>5 DEF Blanks
  <2> QED BY <1>3, <1>5, <2>1
<1>6. CASE a % 4 = 1
  <2>1. Blanks(a) = 2
    BY <1>6 DEF Blanks
  <2> QED BY <1>3, <1>6, <2>1
<1>7. CASE a % 4 = 2
  <2>1. Blanks(a) = 1
    BY <1>7 DEF Blanks
  <2> QED BY <1>3, <1>7, <2>1
<1>8. CASE a % 4 = 3
  <2>1. Blanks(a) = 3
    BY <1>8 DEF Blanks
  <2> QED BY <1>3, <1>8, <2>1
<1> QED BY <1>4, <1>5, <1>6, <1>7, <1>8

-----------------------------------------------------------------------------
(* The page without bottom.                                                *)

Inked(p, char, n) ==
  [i \in DOMAIN p.cells \cup (p.at .. p.at + n - 1) |->
     IF i \in p.at .. p.at + n - 1 THEN char ELSE p.cells[i]]

LEMMA Filled ==
  ASSUME NEW p, NEW char, NEW n
  PROVE  Fill(p, char, n) = Sheet(Inked(p, char, n), p.at + n)
BY DEF Fill, Inked

LEMMA TypedNewline ==
  ASSUME NEW p
  PROVE  Type(p, "\n") = Sheet(p.cells, (p.at \div SCREEN_WIDTH + 1) * SCREEN_WIDTH)
BY DEF Type

LEMMA TypedReturn ==
  ASSUME NEW p
  PROVE  Type(p, "\r") = Sheet(p.cells, p.at - (p.at % SCREEN_WIDTH))
BY DEF Type

LEMMA TypedTab ==
  ASSUME NEW p
  PROVE  Type(p, "\t") = Fill(p, " ", Blanks(p.at))
BY DEF Type

LEMMA TypedOther ==
  ASSUME NEW p, NEW char, char \notin {"\n", "\r", "\t"}
  PROVE  Type(p, char) = Fill(p, char, 1)
BY DEF Type

LEMMA BlanksNat ==
  ASSUME NEW a \in Nat
  PROVE  Blanks(a) \in 1 .. 3
<1>1. a % 4 \in 0 .. 3
  OBVIOUS
<1>2. CASE a % 4 = 0
  BY <1>2 DEF Blanks
<1>3. CASE a % 4 = 1
  BY <1>3 DEF Blanks
<1>4. CASE a % 4 = 2
  BY <1>4 DEF Blanks
<1>5. CASE a % 4 = 3
  BY <1>5 DEF Blanks
<1> QED BY <1>1, <1>2, <1>3, <1>4, <1>5

\* What is typed is a page again.
LEMMA TypedAt ==
  ASSUME NEW p, p.at \in Nat, NEW char
  PROVE  Type(p, char).at \in Nat
<1>1. SCREEN_WIDTH \in Nat \ {0}
  BY ConsoleAssumption
<1>2. CASE char = "\n"
  <2>1. (p.at \div SCREEN_WIDTH + 1) * SCREEN_WIDTH \in Nat
    BY <1>1
  <2> QED BY <1>2, <2>1, TypedNewline DEF Sheet
<1>3. CASE char = "\r"
  <2>1. ASSUME NEW n \in Nat, NEW w \in Nat \ {0} PROVE n - (n % w) \in Nat
    <3> DEFINE q == n \div w
               z == n % w
    <3>1. q \in Nat /\ z \in 0 .. w - 1 /\ n = w * q + z
      OBVIOUS
    <3> HIDE DEF q, z
    <3>2. w * q \in Nat
      BY <3>1
    <3>3. n - z \in Nat
      BY <3>1, <3>2
    <3> QED BY <3>3 DEF z
  <2>2. p.at - (p.at % SCREEN_WIDTH) \in Nat
    BY <1>1, <2>1
  <2> QED BY <1>3, <2>2, TypedReturn DEF Sheet
<1>4. CASE char = "\t"
  <2> DEFINE b == Blanks(p.at)
  <2>1. Type(p, char).at = p.at + b
    <3>1. Fill(p, " ", b).at = p.at + b
      BY Filled DEF Sheet
    <3> QED BY <1>4, <3>1, TypedTab
  <2> QED BY <2>1, BlanksNat
<1>5. CASE char \notin {"\n", "\r", "\t"}
  BY <1>5, TypedOther, Filled DEF Sheet
<1> QED BY <1>2, <1>3, <1>4, <1>5

\* No blank is nothing.
LEMMA NoBlank ==
  ASSUME NEW p, p.at \in Nat
  PROVE  /\ Fill(p, " ", 0).at = p.at /\ DOMAIN Fill(p, " ", 0).cells = DOMAIN p.cells
         /\ \A i \in DOMAIN p.cells : Fill(p, " ", 0).cells[i] = p.cells[i]
<1>1. Fill(p, " ", 0).cells = Inked(p, " ", 0) /\ Fill(p, " ", 0).at = p.at
  <2>1. p.at + 0 = p.at
    OBVIOUS
  <2> QED BY <2>1, Filled DEF Sheet
<1>2. p.at .. p.at + 0 - 1 = {}
  OBVIOUS
<1>3. DOMAIN Inked(p, " ", 0) = DOMAIN p.cells
  BY <1>2 DEF Inked
<1>4. ASSUME NEW i \in DOMAIN p.cells PROVE Inked(p, " ", 0)[i] = p.cells[i]
  BY <1>2 DEF Inked
<1> QED BY <1>1, <1>3, <1>4

\* One character after what is there: its cell, and the others as before.
Adds(before, after, char) ==
  /\ after.at = before.at + 1
  /\ DOMAIN after.cells = DOMAIN before.cells \cup {before.at}
  /\ after.cells[before.at] = char
  /\ \A i \in DOMAIN before.cells \ {before.at} : after.cells[i] = before.cells[i]

LEMMA CharAdds ==
  ASSUME NEW p, p.at \in Nat, NEW char, char \notin {"\n", "\r", "\t"}
  PROVE  Adds(p, Type(p, char), char)
<1>1. Type(p, char).cells = Inked(p, char, 1) /\ Type(p, char).at = p.at + 1
  BY TypedOther, Filled DEF Sheet
<1>2. p.at .. p.at + 1 - 1 = {p.at}
  OBVIOUS
<1>3. DOMAIN Inked(p, char, 1) = DOMAIN p.cells \cup {p.at} /\ Inked(p, char, 1)[p.at] = char
  BY <1>2 DEF Inked
<1>4. ASSUME NEW i \in DOMAIN p.cells \ {p.at} PROVE Inked(p, char, 1)[i] = p.cells[i]
  BY <1>2 DEF Inked
<1> QED BY <1>1, <1>3, <1>4 DEF Adds

LEMMA BlankAdds ==
  ASSUME NEW p, p.at \in Nat, NEW k \in Nat
  PROVE  Adds(Fill(p, " ", k), Fill(p, " ", k + 1), " ")
<1>1. p.at .. p.at + (k + 1) - 1 = (p.at .. p.at + k - 1) \cup {p.at + k}
  OBVIOUS
<1>2. /\ Fill(p, " ", k).cells = Inked(p, " ", k) /\ Fill(p, " ", k).at = p.at + k
      /\ Fill(p, " ", k + 1).cells = Inked(p, " ", k + 1)
      /\ Fill(p, " ", k + 1).at = (p.at + k) + 1
  <2>1. p.at + (k + 1) = (p.at + k) + 1
    OBVIOUS
  <2> QED BY <2>1, Filled DEF Sheet
<1>3. /\ DOMAIN Inked(p, " ", k) = DOMAIN p.cells \cup (p.at .. p.at + k - 1)
      /\ DOMAIN Inked(p, " ", k + 1) = DOMAIN Inked(p, " ", k) \cup {p.at + k}
  BY <1>1 DEF Inked
<1>4. Inked(p, " ", k + 1)[p.at + k] = " "
  BY <1>1 DEF Inked
<1>5. ASSUME NEW i \in DOMAIN Inked(p, " ", k) \ {p.at + k}
      PROVE  Inked(p, " ", k + 1)[i] = Inked(p, " ", k)[i]
  <2>1. i \in p.at .. p.at + (k + 1) - 1 <=> i \in p.at .. p.at + k - 1
    BY <1>1, <1>5
  <2>2. i \in DOMAIN Inked(p, " ", k + 1)
    BY <1>3
  <2> QED BY <1>3, <2>1, <2>2 DEF Inked
<1> QED BY <1>2, <1>3, <1>4, <1>5 DEF Adds

-----------------------------------------------------------------------------
(* The window on it.                                                       *)

\* Of cells that are the same the window is the same.
LEMMA SameWindow ==
  ASSUME NEW f, NEW g, NEW r, NEW scr, Window(f, r, scr), DOMAIN g = DOMAIN f,
         \A i \in DOMAIN f : g[i] = f[i]
  PROVE  Window(g, r, scr)
BY DEF Window

\* putchr, seen through the window.
LEMMA WindowPutchr ==
  ASSUME NEW before, NEW after, NEW char, Adds(before, after, char),
         NEW r \in Nat, NEW scr, Window(before.cells, r, scr),
         NEW X \in Nat, NEW Y \in Nat, X < SCREEN_WIDTH, Y < SCREEN_HEIGHT,
         before.at = r * SCREEN_WIDTH + (Y * SCREEN_WIDTH + X)
  PROVE  Window(after.cells, r, [i \in Cells |-> IF i = Y * SCREEN_WIDTH + X THEN char ELSE scr[i]])
<1> DEFINE w == SCREEN_WIDTH
           h == SCREEN_HEIGHT
           n == Y * w + X
           b == r * w
           e == (r + h) * w
           f == before.cells
           g == after.cells
           a == before.at
           scr1 == [i \in Cells |-> IF i = n THEN char ELSE scr[i]]
<1>0. DOMAIN g = DOMAIN f \cup {a} /\ g[a] = char /\ \A i \in DOMAIN f \ {a} : g[i] = f[i]
  BY DEF Adds
<1>1. w \in Nat \ {0} /\ h \in Nat
  BY ConsoleAssumption
<1>2. n \in Nat /\ b \in Nat /\ n < h * w
  <2>1. PICK d \in Nat : h = Y + 1 + d
    <3>1. h - (Y + 1) \in Nat /\ h = Y + 1 + (h - (Y + 1))
      BY <1>1
    <3> QED BY <3>1
  <2>2. h * w = Y * w + w + d * w /\ d * w \in Nat /\ Y * w \in Nat /\ b \in Nat
    BY <1>1, <2>1
  <2> QED BY <1>1, <2>2
<1>3. a = b + n /\ a \in Nat /\ a < e
  <2>1. e = b + h * w /\ h * w \in Nat
    BY <1>1
  <2> HIDE DEF b, n, e
  <2>2. b + n \in Nat /\ b + n < e
    BY <1>2, <2>1
  <2> QED BY <2>2 DEF b, n
<1>4. \A i \in DOMAIN f : i \in Nat /\ i < e
  BY DEF Window
<1>5. scr = [i \in Cells |-> IF b + i \in DOMAIN f THEN f[b + i] ELSE NUL]
  BY DEF Window
<1>6. \A i \in DOMAIN g : i \in Nat /\ i < e
  BY <1>0, <1>3, <1>4
<1>7. \A i \in Cells : i \in Nat
  BY <1>1 DEF Cells
<1> HIDE DEF b, n, e, f, g, a
<1>8. scr1 = [i \in Cells |-> IF b + i \in DOMAIN g THEN g[b + i] ELSE NUL]
  <2>1. ASSUME NEW i \in Cells
        PROVE  (IF i = n THEN char ELSE scr[i]) = (IF b + i \in DOMAIN g THEN g[b + i] ELSE NUL)
    <3>1. b + i = a <=> i = n
      BY <1>2, <1>3, <1>7
    <3>2. CASE i = n
      BY <1>0, <3>1, <3>2
    <3>3. CASE i # n
      BY <1>0, <1>5, <3>1, <3>3
    <3> QED BY <3>2, <3>3
  <2> QED BY <2>1
<1> QED BY <1>6, <1>8 DEF Window, b, e, n, g

\* scrollback, seen through the window: it moves a row down.
LEMMA WindowScroll ==
  ASSUME NEW f, NEW r \in Nat, NEW scr, Window(f, r, scr)
  PROVE  Window(f, r + 1, Lifted(scr))
<1> DEFINE w == SCREEN_WIDTH
           h == SCREEN_HEIGHT
           b == r * w
           b1 == (r + 1) * w
           e == (r + h) * w
           e1 == (r + 1 + h) * w
           s == 1 * w
           m == w * h
<1>1. w \in Nat \ {0} /\ h \in Nat
  BY ConsoleAssumption
<1>2. b \in Nat /\ b1 = b + w /\ e = b + m /\ e1 = e + w /\ s = w /\ m \in Nat
  BY <1>1
<1>3. \A i \in Cells : i \in Nat /\ i < m
  BY <1>1, <1>2 DEF Cells
<1>4. \A i \in Nat : i < m => i \in Cells
  BY <1>1, <1>2 DEF Cells
<1>5. \A i \in DOMAIN f : i \in Nat /\ i < e
  BY DEF Window
<1>6. scr = [i \in Cells |-> IF b + i \in DOMAIN f THEN f[b + i] ELSE NUL]
  BY DEF Window
<1>7. Lifted(scr) = [i \in Cells |-> IF i + s \in Cells THEN scr[i + s] ELSE NUL]
  BY DEF Lifted
<1> HIDE DEF b, b1, e, e1, s, m, w
<1>8. \A i \in DOMAIN f : i \in Nat /\ i < e1
  BY <1>1, <1>2, <1>5
<1>9. ASSUME NEW i \in Cells
      PROVE  (IF i + s \in Cells THEN scr[i + s] ELSE NUL)
               = (IF b1 + i \in DOMAIN f THEN f[b1 + i] ELSE NUL)
  <2>1. b1 + i = b + (i + s) /\ i + s \in Nat
    BY <1>1, <1>2, <1>3
  <2>2. CASE i + s \in Cells
    BY <1>6, <2>1, <2>2
  <2>3. CASE i + s \notin Cells
    <3>1. i + s >= m
      BY <1>2, <1>4, <2>1, <2>3
    <3>2. b1 + i \notin DOMAIN f
      BY <1>2, <1>5, <2>1, <3>1
    <3> QED BY <2>3, <3>2
  <2> QED BY <2>2, <2>3
<1>10. Lifted(scr) = [i \in Cells |-> IF b1 + i \in DOMAIN f THEN f[b1 + i] ELSE NUL]
  BY <1>7, <1>9
<1> QED BY <1>8, <1>10 DEF Window, b1, e1, w

LEMMA WindowBlank ==
  Window(Blank, 0, Blank)
<1> DEFINE w == SCREEN_WIDTH
           h == SCREEN_HEIGHT
           e == (0 + h) * w
           b == 0 * w
<1>1. w \in Nat \ {0} /\ h \in Nat
  BY ConsoleAssumption
<1>2. \A i \in Cells : i \in Nat /\ i < e
  BY <1>1 DEF Cells
<1>3. Blank = [i \in Cells |-> IF b + i \in DOMAIN Blank THEN Blank[b + i] ELSE NUL]
  <2>1. \A i \in Cells : b + i = i
    BY <1>1, <1>2
  <2> QED BY <2>1 DEF Blank
<1> QED BY <1>2, <1>3 DEF Window, Blank

\* A screen is its own page.
LEMMA WindowItself ==
  ASSUME NEW scr, scr = [i \in Cells |-> scr[i]]
  PROVE  Window(scr, 0, scr)
<1> DEFINE w == SCREEN_WIDTH
           h == SCREEN_HEIGHT
           e == (0 + h) * w
           b == 0 * w
<1>1. w \in Nat \ {0} /\ h \in Nat
  BY ConsoleAssumption
<1>2. \A i \in Cells : i \in Nat /\ i < e
  BY <1>1 DEF Cells
<1>3. scr = [i \in Cells |-> IF b + i \in DOMAIN scr THEN scr[b + i] ELSE NUL]
  <2>1. \A i \in Cells : b + i = i
    BY <1>1, <1>2
  <2>2. DOMAIN scr = Cells
    OBVIOUS
  <2> QED BY <2>1, <2>2
<1>4. DOMAIN scr = Cells
  OBVIOUS
<1> QED BY <1>2, <1>3, <1>4 DEF Window

-----------------------------------------------------------------------------
(* What a move does to the display.                                        *)

\* Registers hold what they were loaded with: alone, nobody moves the cursor.
LEMMA LoadedMove ==
  ASSUME NEW c \in ContextRecord, NEW t \in ContextRecord, NEW X, NEW Y, NEW X1, NEW Y1,
         Loaded(c, X, Y), Move(c, t, X, Y, X1, Y1)
  PROVE  Loaded(t, X1, Y1)
<1>1. CASE c.at \in {"putc", "tab", "newline", "newlined", "wrap", "wrapLine"}
  BY <1>1 DEF Move, Loaded, ContextRecord
<1>2. CASE c.at \in {"position", "cell", "advance", "advanced"}
  BY <1>2 DEF Move, Loaded, ContextRecord
<1>3. CASE c.at \in {"wrappedLine", "wrapColumn", "bottom", "scroll", "scrolled",
                     "clear", "clearX", "clearY"}
  BY <1>3 DEF Move, Loaded, ContextRecord
<1>4. CASE c.at \in {"cursorY", "cursorX", "index15", "low", "index14"}
  BY <1>4 DEF Move, Loaded, ContextRecord
<1>5. CASE c.at = "high"
  <2>1. t.at \in {"putc", "tab"}
    BY <1>5 DEF Move, NextChar, ContextRecord
  <2> QED BY <2>1 DEF Loaded
<1> QED BY <1>1, <1>2, <1>3, <1>4, <1>5 DEF Move

\* The character in progress stays the one it is, and a tab takes the blanks
\* that Blanks says.
LEMMA TypingMove ==
  ASSUME NEW c \in ContextRecord, NEW t \in ContextRecord, NEW p, p.at \in Nat,
         NEW r \in Nat, NEW X \in Nat, NEW Y \in Nat, NEW X1, NEW Y1,
         Progress(c), Typing(c, p), Move(c, t, X, Y, X1, Y1),
         c.at = "tab" => p.at + c.tab = r * SCREEN_WIDTH + (Y * SCREEN_WIDTH + X),
         c.at = "high" => c.tab # NoTab
  PROVE  Typing(t, p)
<1>0. Blanks(p.at) \in 1 .. 3 /\ c.tab \in {NoTab} \cup 0 .. 4 /\ NoTab = -1
  BY BlanksNat DEF ContextRecord, NoTab
<1>1. CASE c.at = "putc"
  <2>1. CASE Put(c) = "\t" /\ t = [c EXCEPT !.at = "tab", !.tab = 0]
    <3>1. t.at = "tab" /\ t.tab = 0 /\ t.n = c.n /\ t.text = c.text /\ c.n <= Len(c.text)
      BY <1>1, <2>1 DEF Move, ContextRecord
    <3>2. c.tab = NoTab /\ c.text[c.n] = "\t"
      BY <2>1 DEF Put
    <3> QED BY <1>0, <3>1, <3>2 DEF Typing
  <2>2. CASE ~(Put(c) = "\t" /\ t = [c EXCEPT !.at = "tab", !.tab = 0])
    <3>1. /\ t.at \in {"newline", "wrap", "position"} /\ t.tab = c.tab /\ t.n = c.n /\ t.text = c.text
          /\ c.n <= Len(c.text)
          /\ t.at = "newline" => Put(c) = "\n"
          /\ t.at = "position" => Put(c) \notin {"\n", "\r", "\t"}
      BY <1>1, <2>2 DEF Move, ContextRecord
    <3>2. Put(t) = Put(c) /\ (t.at = "newline" => t.tab = NoTab)
      BY <3>1 DEF Put
    <3> QED BY <1>1, <3>1, <3>2 DEF Typing
  <2> QED BY <2>1, <2>2
<1>2. CASE c.at = "tab"
  <2>1. c.tab \in Nat /\ c.tab <= Blanks(p.at) /\ c.tab # NoTab
    BY <1>0, <1>2 DEF Typing, Progress
  <2>2. c.tab < 4 - (X % 4) <=> c.tab < Blanks(p.at)
    <3> DEFINE k == c.tab
               a == p.at
               w == SCREEN_WIDTH
    <3>1. w \in Nat /\ w % 4 = 0 /\ k \in Nat /\ a \in Nat /\ k <= Blanks(a)
      BY <2>1, ConsoleAssumption
    <3>2. a + k = r * w + (Y * w + X)
      BY <1>2
    <3> HIDE DEF k, a, w
    <3>3. k < 4 - (X % 4) <=> k < Blanks(a)
      BY <3>1, <3>2, TabStops
    <3> QED BY <3>3 DEF k, a
  <2>3. /\ t.n = c.n /\ t.text = c.text
        /\ \/ c.tab < 4 - (X % 4) /\ t.at = "putc" /\ t.tab = c.tab
           \/ t.at = "wrap" /\ t.tab = NoTab
    BY <1>2 DEF Move, ContextRecord
  <2> QED BY <2>1, <2>2, <2>3 DEF Typing
<1>3. CASE c.at = "high"
  <2>1. t = [c EXCEPT !.at = "tab", !.tab = @ + 1]
    BY <1>3 DEF Move, NextChar
  <2>2. t.at = "tab" /\ t.tab = c.tab + 1 /\ t.n = c.n /\ t.text = c.text
    BY <2>1 DEF ContextRecord
  <2>3. c.tab \in Nat /\ c.tab < Blanks(p.at)
    BY <1>0, <1>3 DEF Typing
  <2> QED BY <1>0, <1>3, <2>2, <2>3 DEF Typing
<1>4. CASE c.at \notin {"putc", "tab", "high"}
  <2>1. /\ t.tab = c.tab /\ t.n = c.n /\ t.text = c.text /\ t.at \notin {"idle", "tab", "newline", "position"}
        /\ t.at = "newlined" => c.at = "newline"
        /\ t.at \in {"cell", "advance", "advanced"} => c.at \in {"position", "cell", "advance"}
    <3>1. CASE c.at \in {"position", "cell", "advance", "advanced", "newline", "newlined", "wrap"}
      BY <3>1 DEF Move, ContextRecord
    <3>2. CASE c.at \in {"wrapLine", "wrappedLine", "wrapColumn", "bottom", "scroll", "scrolled"}
      BY <3>2 DEF Move, ContextRecord
    <3>3. CASE c.at \in {"clear", "clearX", "clearY", "cursorY", "cursorX", "index15", "low", "index14"}
      BY <3>3 DEF Move, ContextRecord
    <3> QED BY <1>4, <3>1, <3>2, <3>3 DEF Move
  <2>2. Put(t) = Put(c)
    BY <2>1 DEF Put
  <2> QED BY <1>4, <2>1, <2>2 DEF Typing
<1> QED BY <1>1, <1>2, <1>3, <1>4

\* The registers of the VGA, but for the last write.
LEMMA MarkedMove ==
  ASSUME NEW c \in ContextRecord, NEW t \in ContextRecord, NEW p, NEW scr, NEW scr1,
         NEW X \in Nat, NEW Y \in Nat, NEW X1, NEW Y1, NEW crt \in CrtcRecord, NEW crt1,
         Progress(c), Typing(c, p), Move(c, t, X, Y, X1, Y1), Draws(c, scr, scr1, crt, crt1),
         Loaded(c, X, Y), Marked(c, X, Y, crt, p), c.at = "high" => c.tab # NoTab
  PROVE  Marked(t, X1, Y1, crt1, p)
<1>1. CASE c.at = "index15"
  <2>1. t.at = "low" /\ crt1.index = 15
    BY <1>1 DEF Move, Draws, ContextRecord, CrtcRecord
  <2> QED BY <2>1 DEF Marked, BetweenCharacters
<1>2. CASE c.at = "low"
  <2>1. t.at = "index14" /\ X1 = X /\ Y1 = Y
    BY <1>2 DEF Move, ContextRecord
  <2>2. crt1.low = CellOf(c) % BYTE
    BY <1>2 DEF Draws, Marked, CrtcRecord
  <2>3. CellOf(c) = Y * SCREEN_WIDTH + X
    BY <1>2 DEF Loaded, CellOf
  <2> QED BY <2>1, <2>2, <2>3 DEF Marked, BetweenCharacters
<1>3. CASE c.at = "index14"
  <2>1. t.at = "high" /\ X1 = X /\ Y1 = Y
    BY <1>3 DEF Move, ContextRecord
  <2>2. crt1.low = crt.low /\ crt1.index = 14
    BY <1>3 DEF Draws, CrtcRecord
  <2> QED BY <1>3, <2>1, <2>2 DEF Marked, BetweenCharacters
<1>4. CASE c.at = "high"
  <2>1. t.at = "tab"
    BY <1>4 DEF Move, NextChar, ContextRecord
  <2> QED BY <2>1 DEF Marked, BetweenCharacters
<1>5. CASE c.at = "tab"
  <2>1. \/ c.tab < 4 - (X % 4) /\ t.at = "putc" /\ t.tab = c.tab
        \/ t.at = "wrap"
    BY <1>5 DEF Move, ContextRecord
  <2>2. c.tab # NoTab
    BY <1>5 DEF Progress
  <2> QED BY <2>1, <2>2 DEF Marked, BetweenCharacters
<1>6. CASE c.at \notin {"index15", "low", "index14", "high", "tab"}
  <2>1. t.at \notin {"idle", "putc", "low", "index14", "high"}
    <3>1. CASE c.at \in {"putc", "position", "cell", "advance", "advanced", "newline", "newlined", "wrap"}
      BY <3>1 DEF Move, ContextRecord
    <3>2. CASE c.at \in {"wrapLine", "wrappedLine", "wrapColumn", "bottom", "scroll", "scrolled"}
      BY <3>2 DEF Move, ContextRecord
    <3>3. CASE c.at \in {"clear", "clearX", "clearY", "cursorY", "cursorX"}
      BY <3>3 DEF Move, ContextRecord
    <3> QED BY <1>6, <3>1, <3>2, <3>3 DEF Move
  <2> QED BY <2>1 DEF Marked, BetweenCharacters
<1> QED BY <1>1, <1>2, <1>3, <1>4, <1>5, <1>6

\* Steps that neither draw nor move the place to type.
LEMMA Glides ==
  ASSUME NEW c, NEW t, NEW p, NEW r, NEW X, NEW Y, NEW scr, Showing(r, c, X, Y, scr, p),
         t.tab = c.tab, t.n = c.n, t.text = c.text, t.at \in Behind <=> c.at \in Behind,
         Moved(t, X, Y) = Moved(c, X, Y),
         t.at \in {"scroll", "scrolled"} => Y >= SCREEN_HEIGHT
  PROVE  Showing(r, t, X, Y, scr, p)
<1>1. Seen(t, p) = Seen(c, p)
  BY DEF Seen, Before, After
<1> QED BY <1>1 DEF Showing

\* A line feed and a carriage return.
LEMMA LineFeeds ==
  ASSUME NEW r \in Nat, NEW X \in Nat, NEW Y \in Nat, X < SCREEN_WIDTH,
         NEW p, p.at = r * SCREEN_WIDTH + (Y * SCREEN_WIDTH + X)
  PROVE  /\ Type(p, "\n").cells = p.cells /\ Type(p, "\r").cells = p.cells
         /\ Type(p, "\n").at = r * SCREEN_WIDTH + ((Y + 1) * SCREEN_WIDTH + 0)
         /\ Type(p, "\r").at = r * SCREEN_WIDTH + (Y * SCREEN_WIDTH + 0)
<1> DEFINE w == SCREEN_WIDTH
           q == r + Y
           a == p.at
<1>1. w \in Nat \ {0} /\ q \in Nat
  BY ConsoleAssumption
<1>2. a = q * w + X /\ a \in Nat
  <2>1. q * w = r * w + Y * w /\ r * w \in Nat /\ Y * w \in Nat
    BY <1>1
  <2> QED BY <2>1
<1>3. (a \div w + 1) * w = r * w + ((Y + 1) * w + 0) /\ a - (a % w) = r * w + (Y * w + 0)
  <2> HIDE DEF w, q, a
  <2>1. a \div w = q /\ a % w = X
    BY <1>1, <1>2, DivUnique DEF w
  <2>2. (q + 1) * w = r * w + (Y + 1) * w /\ q * w = r * w + Y * w
    <3> USE DEF q
    <3> QED BY <1>1
  <2>3. q * w \in Nat /\ r * w \in Nat /\ (Y + 1) * w \in Nat /\ Y * w \in Nat
    BY <1>1
  <2> QED BY <1>2, <2>1, <2>2, <2>3
<1>4. Type(p, "\n").cells = p.cells /\ Type(p, "\n").at = (a \div w + 1) * w
  BY TypedNewline DEF Sheet
<1>5. Type(p, "\r").cells = p.cells /\ Type(p, "\r").at = a - (a % w)
  BY TypedReturn DEF Sheet
<1> HIDE DEF a, q
<1> QED BY <1>3, <1>4, <1>5

\* putchr puts the next character where the page has it.
LEMMA PutchrShows ==
  ASSUME NEW c \in ContextRecord, NEW t \in ContextRecord, NEW p, p.at \in Nat,
         NEW r \in Nat, NEW X \in Nat, NEW Y \in Nat, NEW scr,
         X < SCREEN_WIDTH, Y < SCREEN_HEIGHT, c.at = "cell", t = [c EXCEPT !.at = "advance"],
         Typing(c, p), Loaded(c, X, Y), Showing(r, c, X, Y, scr, p)
  PROVE  Showing(r, t, X, Y, [i \in Cells |-> IF i = CellOf(c) THEN Put(c) ELSE scr[i]], p)
<1>1. t.at = "advance" /\ t.tab = c.tab /\ t.n = c.n /\ t.text = c.text
  BY DEF ContextRecord
<1>2. Seen(c, p) = Before(c, p) /\ Seen(t, p) = After(c, p)
  BY <1>1 DEF Seen, Before, After, Behind
<1>3. Adds(Before(c, p), After(c, p), Put(c))
  <2>1. CASE c.tab = NoTab
    <3>1. c.n <= Len(c.text) /\ Put(c) \notin {"\n", "\r", "\t"} /\ Put(c) = c.text[c.n]
      BY <2>1 DEF Typing, Put
    <3> QED BY <2>1, <3>1, CharAdds DEF Before, After
  <2>2. CASE c.tab # NoTab
    <3>1. c.tab \in Nat /\ Put(c) = " "
      BY <2>2 DEF ContextRecord, Put
    <3> QED BY <2>2, <3>1, BlankAdds DEF Before, After
  <2> QED BY <2>1, <2>2
<1> DEFINE a == Before(c, p).at
           scr1 == [i \in Cells |-> IF i = CellOf(c) THEN Put(c) ELSE scr[i]]
<1>4. a = r * SCREEN_WIDTH + (Y * SCREEN_WIDTH + X) /\ Window(Before(c, p).cells, r, scr)
  BY <1>2 DEF Showing, Moved
<1>5. CellOf(c) = Y * SCREEN_WIDTH + X
  BY DEF Loaded, CellOf
<1>6. Window(After(c, p).cells, r, scr1)
  <2>1. Window(After(c, p).cells, r,
               [i \in Cells |-> IF i = Y * SCREEN_WIDTH + X THEN Put(c) ELSE scr[i]])
    BY <1>3, <1>4, WindowPutchr
  <2> QED BY <1>5, <2>1
<1>7. After(c, p).at = r * SCREEN_WIDTH + Moved(t, X, Y)
  <2>1. After(c, p).at = a + 1
    BY <1>3 DEF Adds
  <2>2. Moved(t, X, Y) = Y * SCREEN_WIDTH + (X + 1)
    BY <1>1 DEF Moved
  <2>3. r * SCREEN_WIDTH \in Nat /\ Y * SCREEN_WIDTH \in Nat
    BY ConsoleAssumption
  <2> HIDE DEF a
  <2> QED BY <1>4, <2>1, <2>2, <2>3
<1> QED BY <1>1, <1>2, <1>6, <1>7 DEF Showing

LEMMA ShowingMove ==
  ASSUME NEW c \in ContextRecord, NEW t \in ContextRecord, NEW p, p.at \in Nat,
         NEW r \in Nat, NEW X \in Nat, NEW Y \in Nat, NEW X1, NEW Y1,
         NEW scr, NEW scr1, NEW crt, NEW crt1,
         Progress(c), Typing(c, p), StartInv(c, X, Y), Loaded(c, X, Y),
         Move(c, t, X, Y, X1, Y1), Draws(c, scr, scr1, crt, crt1),
         c.at \notin {"clear", "clearX", "clearY"}, c.at = "high" => c.tab # NoTab,
         Showing(r, c, X, Y, scr, p)
  PROVE  \E r1 \in Nat : Showing(r1, t, X1, Y1, scr1, p)
<1> DEFINE w == SCREEN_WIDTH
<1>0. w \in Nat \ {0} /\ SCREEN_HEIGHT \in Nat /\ SCREEN_HEIGHT >= 2
  BY ConsoleAssumption
<1>a. c.at \notin {"cell", "scroll"} => scr1 = scr
  BY DEF Draws
<1>b. Seen(c, p).at = r * w + Moved(c, X, Y) /\ Window(Seen(c, p).cells, r, scr)
  BY DEF Showing
<1>1. CASE c.at = "putc"
  <2>1. X < w /\ Y1 = Y /\ c.n <= Len(c.text) /\ Moved(c, X, Y) = Y * w + X /\ scr1 = scr
        /\ Seen(c, p) = Before(c, p)
    BY <1>0, <1>1, <1>a DEF StartInv, AtRest, LastColumn, Move, Moved, Seen, Behind
  <2>2. CASE Put(c) = "\n" /\ X1 = 0 /\ t = [c EXCEPT !.at = "newline"]
    <3>1. t.at = "newline" /\ t.tab = NoTab /\ t.n = c.n /\ t.text = c.text
          /\ c.tab = NoTab /\ c.text[c.n] = "\n"
      BY <2>2 DEF ContextRecord, Put
    <3>2. Seen(c, p) = p /\ Seen(t, p) = Type(p, "\n")
      BY <2>1, <3>1 DEF Seen, Before, After, Behind
    <3>3. Seen(t, p).cells = p.cells /\ Seen(t, p).at = r * w + ((Y + 1) * w + 0)
      BY <1>b, <2>1, <3>2, LineFeeds
    <3>4. Moved(t, X1, Y1) = (Y + 1) * w + 0
      BY <2>1, <2>2, <3>1 DEF Moved
    <3>5. Showing(r, t, X1, Y1, scr1, p)
      BY <1>b, <2>1, <3>1, <3>2, <3>3, <3>4 DEF Showing
    <3> QED BY <3>5
  <2>3. CASE Put(c) = "\r" /\ X1 = 0 /\ t = [c EXCEPT !.at = "wrap"]
    <3>1. t.at = "wrap" /\ t.tab = NoTab /\ t.n = c.n /\ t.text = c.text
          /\ c.tab = NoTab /\ c.text[c.n] = "\r"
      BY <2>3 DEF ContextRecord, Put
    <3>2. Seen(c, p) = p /\ Seen(t, p) = Type(p, "\r")
      BY <2>1, <3>1 DEF Seen, Before, After, Behind
    <3>3. Seen(t, p).cells = p.cells /\ Seen(t, p).at = r * w + (Y * w + 0)
      BY <1>b, <2>1, <3>2, LineFeeds
    <3>4. Moved(t, X1, Y1) = Y * w + 0
      BY <2>1, <2>3, <3>1 DEF Moved
    <3>5. Showing(r, t, X1, Y1, scr1, p)
      BY <1>b, <2>1, <3>1, <3>2, <3>3, <3>4 DEF Showing
    <3> QED BY <3>5
  <2>4. CASE Put(c) = "\t" /\ X1 = X /\ t = [c EXCEPT !.at = "tab", !.tab = 0]
    <3>1. t.at = "tab" /\ t.tab = 0 /\ c.tab = NoTab
      BY <2>4 DEF ContextRecord, Put
    <3>2. Seen(c, p) = p /\ Seen(t, p) = Fill(p, " ", 0)
      BY <2>1, <3>1 DEF Seen, Before, Behind, NoTab
    <3>3. Moved(t, X1, Y1) = Y * w + X
      BY <2>1, <2>4, <3>1 DEF Moved
    <3>4. Window(Seen(t, p).cells, r, scr1)
      <4> DEFINE f == p.cells
                 g == Fill(p, " ", 0).cells
      <4>1. Window(f, r, scr) /\ DOMAIN g = DOMAIN f /\ \A i \in DOMAIN f : g[i] = f[i]
        BY <1>b, <3>2, NoBlank
      <4> HIDE DEF f, g
      <4>2. Window(g, r, scr)
        BY <4>1, SameWindow
      <4> QED BY <2>1, <3>2, <4>2 DEF g
    <3>5. Seen(t, p).at = p.at
      BY <3>2, NoBlank
    <3>6. Showing(r, t, X1, Y1, scr1, p)
      BY <1>b, <2>1, <3>1, <3>2, <3>3, <3>4, <3>5 DEF Showing
    <3> QED BY <3>6
  <2>5. CASE X1 = X /\ t = [c EXCEPT !.at = "position", !.y = Y]
    <3>1. t.at = "position" /\ t.tab = c.tab /\ t.n = c.n /\ t.text = c.text
      BY <2>5 DEF ContextRecord
    <3>2. Showing(r, t, X, Y, scr, p)
      BY <1>1, <3>1, Glides DEF Behind, Moved
    <3> QED BY <2>1, <2>5, <3>2
  <2> QED BY <1>1, <2>2, <2>3, <2>4, <2>5 DEF Move
<1>2. CASE c.at = "tab"
  <2>1. X1 = X /\ Y1 = Y /\ scr1 = scr /\ Moved(c, X, Y) = Y * w + X /\ Seen(c, p) = Before(c, p)
    BY <1>2, <1>a DEF Move, Moved, Seen, Behind
  <2>2. CASE c.tab < 4 - (X % 4) /\ t = [c EXCEPT !.at = "putc"]
    <3>1. t.at = "putc" /\ t.tab = c.tab /\ t.n = c.n /\ t.text = c.text
      BY <2>2 DEF ContextRecord
    <3>2. Showing(r, t, X, Y, scr, p)
      BY <1>2, <3>1, Glides DEF Behind, Moved
    <3> QED BY <2>1, <3>2
  <2>3. CASE ~(c.tab < 4 - (X % 4)) /\ t = [c EXCEPT !.at = "wrap", !.tab = NoTab]
    <3>1. t.at = "wrap" /\ t.tab = NoTab /\ t.n = c.n /\ t.text = c.text
      BY <2>3 DEF ContextRecord
    <3>2. c.tab # NoTab /\ c.n <= Len(c.text) /\ c.text[c.n] = "\t" /\ c.tab <= Blanks(p.at)
          /\ c.tab \in Nat
      BY <1>2 DEF Progress, Typing, ContextRecord
    <3>3. Seen(c, p) = Fill(p, " ", c.tab)
      BY <2>1, <3>2 DEF Before
    <3>4. p.at + c.tab = r * w + (Y * w + X)
      <4>1. Fill(p, " ", c.tab).at = p.at + c.tab
        BY Filled DEF Sheet
      <4> QED BY <1>b, <2>1, <3>3, <4>1
    <3>5. c.tab = Blanks(p.at)
      <4> DEFINE k == c.tab
                 a == p.at
      <4>1. w \in Nat /\ w % 4 = 0 /\ k \in Nat /\ a \in Nat /\ k <= Blanks(a)
        BY <3>2, ConsoleAssumption
      <4>2. a + k = r * w + (Y * w + X)
        BY <3>4
      <4>3. ~(k < 4 - (X % 4))
        BY <2>3
      <4> HIDE DEF k, a, w
      <4>4. Blanks(a) \in 1 .. 3 /\ ~(k < Blanks(a))
        BY <4>1, <4>2, <4>3, TabStops
      <4>5. k = Blanks(a)
        BY <4>1, <4>4
      <4> QED BY <4>5 DEF k, a
    <3>6. Seen(t, p) = Type(p, "\t")
      BY <3>1, <3>2 DEF Seen, After, Behind
    <3>7. Seen(t, p) = Seen(c, p)
      BY <3>3, <3>5, <3>6, TypedTab
    <3>8. Moved(t, X, Y) = Y * w + X
      BY <3>1 DEF Moved
    <3>9. Showing(r, t, X, Y, scr, p)
      BY <1>b, <2>1, <3>1, <3>7, <3>8 DEF Showing
    <3> QED BY <2>1, <3>9
  <2> QED BY <1>2, <2>2, <2>3 DEF Move
<1>3. CASE c.at = "cell"
  <2>1. X1 = X /\ Y1 = Y /\ t = [c EXCEPT !.at = "advance"] /\ X < w /\ Y < SCREEN_HEIGHT
    BY <1>0, <1>3 DEF Move, StartInv, AtRest, LastColumn, LastRow
  <2>2. scr1 = [i \in Cells |-> IF i = CellOf(c) THEN Put(c) ELSE scr[i]]
    BY <1>3 DEF Draws
  <2>3. Showing(r, t, X, Y, scr1, p)
    BY <1>3, <2>1, <2>2, PutchrShows
  <2> QED BY <2>1, <2>3
<1>4. CASE c.at = "advanced"
  <2>1. X1 = X + 1 /\ Y1 = Y /\ t = [c EXCEPT !.at = "wrap"] /\ scr1 = scr
    BY <1>4, <1>a DEF Move, Loaded
  <2>2. t.at = "wrap" /\ t.tab = c.tab /\ t.n = c.n /\ t.text = c.text
    BY <2>1 DEF ContextRecord
  <2>3. Moved(c, X, Y) = Y * w + (X + 1) /\ Moved(t, X1, Y1) = Y * w + (X + 1)
    BY <1>4, <2>1, <2>2 DEF Moved
  <2>4. Seen(t, p) = Seen(c, p)
    BY <1>4, <2>2 DEF Seen, After, Behind
  <2>5. Showing(r, t, X1, Y1, scr1, p)
    BY <1>b, <2>1, <2>2, <2>3, <2>4 DEF Showing
  <2> QED BY <2>5
<1>5. CASE c.at = "newlined"
  <2>1. X1 = X /\ Y1 = Y + 1 /\ t = [c EXCEPT !.at = "wrap"] /\ scr1 = scr
    BY <1>5, <1>a DEF Move, Loaded
  <2>2. t.at = "wrap" /\ t.tab = c.tab /\ t.n = c.n /\ t.text = c.text
    BY <2>1 DEF ContextRecord
  <2>3. Moved(c, X, Y) = (Y + 1) * w + X /\ Moved(t, X1, Y1) = (Y + 1) * w + X
    BY <1>5, <2>1, <2>2 DEF Moved
  <2>4. Seen(t, p) = Seen(c, p)
    BY <1>5, <2>2 DEF Seen, After, Behind
  <2>5. r # 0 => Y1 >= SCREEN_HEIGHT - 1
    BY <1>0, <2>1 DEF Showing
  <2>6. Showing(r, t, X1, Y1, scr1, p)
    BY <1>b, <2>1, <2>2, <2>3, <2>4, <2>5 DEF Showing
  <2> QED BY <2>6
<1>6. CASE c.at = "wrap"
  <2>1. X1 = X /\ Y1 = Y /\ scr1 = scr /\ Moved(c, X, Y) = Y * w + X
    BY <1>6, <1>a DEF Move, Moved
  <2>2. /\ t.at \in {"wrapLine", "bottom"} /\ t.tab = c.tab /\ t.n = c.n /\ t.text = c.text
        /\ t.at = "wrapLine" => X >= w
    BY <1>6 DEF Move, ContextRecord
  <2>3. Moved(t, X, Y) = Moved(c, X, Y)
    <3>1. CASE t.at = "bottom"
      BY <2>1, <3>1 DEF Moved
    <3>2. CASE t.at = "wrapLine"
      <4>1. X = w
        BY <1>0, <1>6, <2>2, <3>2 DEF StartInv, AtRest, LastColumn
      <4>2. (Y + 1) * w = Y * w + w
        BY <1>0
      <4>3. Moved(t, X, Y) = (Y + 1) * w
        BY <3>2 DEF Moved
      <4> QED BY <2>1, <4>1, <4>2, <4>3
    <3> QED BY <2>2, <3>1, <3>2
  <2>4. Showing(r, t, X, Y, scr, p)
    BY <1>6, <2>2, <2>3, Glides DEF Behind
  <2> QED BY <2>1, <2>4
<1>7. CASE c.at = "wrappedLine"
  <2>1. X1 = X /\ Y1 = Y + 1 /\ t = [c EXCEPT !.at = "wrapColumn"] /\ scr1 = scr
    BY <1>7, <1>a DEF Move, Loaded
  <2>2. t.at = "wrapColumn" /\ t.tab = c.tab /\ t.n = c.n /\ t.text = c.text
    BY <2>1 DEF ContextRecord
  <2>3. Moved(c, X, Y) = (Y + 1) * w /\ Moved(t, X1, Y1) = (Y + 1) * w
    BY <1>7, <2>1, <2>2 DEF Moved
  <2>4. Seen(t, p) = Seen(c, p)
    BY <1>7, <2>2 DEF Seen, After, Behind
  <2>5. r # 0 => Y1 >= SCREEN_HEIGHT - 1
    BY <1>0, <2>1 DEF Showing
  <2>6. Showing(r, t, X1, Y1, scr1, p)
    BY <1>b, <2>1, <2>2, <2>3, <2>4, <2>5 DEF Showing
  <2> QED BY <2>6
<1>8. CASE c.at = "wrapColumn"
  <2>1. X1 = 0 /\ Y1 = Y /\ t = [c EXCEPT !.at = "bottom"] /\ scr1 = scr
    BY <1>8, <1>a DEF Move
  <2>2. t.at = "bottom" /\ t.tab = c.tab /\ t.n = c.n /\ t.text = c.text
    BY <2>1 DEF ContextRecord
  <2>3. Moved(c, X, Y) = Y * w /\ Moved(t, X1, Y1) = Y * w
    <3>1. Y * w \in Nat
      BY <1>0
    <3>2. Moved(t, X1, Y1) = Y * w + 0
      BY <2>1, <2>2 DEF Moved
    <3> QED BY <1>8, <3>1, <3>2 DEF Moved
  <2>4. Seen(t, p) = Seen(c, p)
    BY <1>8, <2>2 DEF Seen, After, Behind
  <2>5. Showing(r, t, X1, Y1, scr1, p)
    BY <1>b, <2>1, <2>2, <2>3, <2>4 DEF Showing
  <2> QED BY <2>5
<1>9. CASE c.at = "scroll"
  <2>1. X1 = X /\ Y1 = Y /\ t = [c EXCEPT !.at = "scrolled", !.y = Y] /\ scr1 = Lifted(scr)
    BY <1>9 DEF Move, Draws
  <2>2. t.at = "scrolled" /\ t.tab = c.tab /\ t.n = c.n /\ t.text = c.text
    BY <2>1 DEF ContextRecord
  <2>3. Seen(t, p) = Seen(c, p) /\ Y >= SCREEN_HEIGHT
    BY <1>9, <2>2 DEF Seen, After, Behind, Showing
  <2>4. Window(Seen(t, p).cells, r + 1, scr1)
    BY <1>b, <2>1, <2>3, WindowScroll
  <2>5. r * w + Moved(c, X, Y) = (r + 1) * w + Moved(t, X, Y)
    <3>1. Moved(c, X, Y) = Y * w + X /\ Moved(t, X, Y) = (Y - 1) * w + X
      BY <1>9, <2>2 DEF Moved
    <3>2. /\ (r + 1) * w = r * w + w /\ (Y - 1) * w = Y * w - w
          /\ r * w \in Nat /\ Y * w \in Nat
      BY <1>0
    <3> HIDE DEF w
    <3> QED BY <1>0, <3>1, <3>2
  <2>6. Showing(r + 1, t, X, Y, scr1, p)
    <3>1. Y >= SCREEN_HEIGHT - 1
      BY <1>0, <2>3
    <3> QED BY <1>b, <2>3, <2>4, <2>5, <3>1 DEF Showing
  <2> QED BY <2>1, <2>6
<1>10. CASE c.at = "scrolled"
  <2>1. X1 = X /\ Y1 = Y - 1 /\ t = [c EXCEPT !.at = "cursorY"] /\ scr1 = scr
    BY <1>10, <1>a DEF Move, Loaded
  <2>2. t.at = "cursorY" /\ t.tab = c.tab /\ t.n = c.n /\ t.text = c.text
    BY <2>1 DEF ContextRecord
  <2>3. Moved(c, X, Y) = (Y - 1) * w + X /\ Moved(t, X1, Y1) = (Y - 1) * w + X
    BY <1>10, <2>1, <2>2 DEF Moved
  <2>4. Seen(t, p) = Seen(c, p)
    BY <1>10, <2>2 DEF Seen, After, Behind
  <2>5. Y1 >= SCREEN_HEIGHT - 1
    <3>1. Y >= SCREEN_HEIGHT
      BY <1>10 DEF Showing
    <3> QED BY <1>0, <2>1, <3>1
  <2>6. Showing(r, t, X1, Y1, scr1, p)
    BY <1>b, <2>1, <2>2, <2>3, <2>4, <2>5 DEF Showing
  <2> QED BY <2>6
<1>11. CASE c.at = "high"
  <2>1. t = [c EXCEPT !.at = "tab", !.tab = @ + 1] /\ X1 = X /\ Y1 = Y /\ scr1 = scr
    BY <1>11, <1>a DEF Move, NextChar
  <2>2. t.at = "tab" /\ t.tab = c.tab + 1 /\ c.tab \in Nat /\ c.tab # NoTab /\ t.tab # NoTab
    BY <1>11, <2>1 DEF ContextRecord, NoTab
  <2>3. Seen(t, p) = Fill(p, " ", c.tab + 1) /\ Seen(c, p) = Fill(p, " ", c.tab + 1)
    BY <1>11, <2>2 DEF Seen, Before, After, Behind
  <2>4. Moved(t, X, Y) = Moved(c, X, Y)
    BY <1>11, <2>2 DEF Moved
  <2>5. Showing(r, t, X, Y, scr, p)
    BY <1>b, <2>2, <2>3, <2>4 DEF Showing
  <2> QED BY <2>1, <2>5
<1>12. CASE c.at \in {"position", "advance", "newline", "wrapLine"}
  <2>1. /\ X1 = X /\ Y1 = Y /\ scr1 = scr
        /\ t.at = CASE c.at = "position" -> "cell" [] c.at = "advance" -> "advanced"
                    [] c.at = "newline" -> "newlined" [] c.at = "wrapLine" -> "wrappedLine"
        /\ t.tab = c.tab /\ t.n = c.n /\ t.text = c.text
    BY <1>12, <1>a DEF Move, ContextRecord
  <2>2. Showing(r, t, X, Y, scr, p)
    BY <1>12, <2>1, Glides DEF Behind, Moved
  <2> QED BY <2>1, <2>2
<1>13. CASE c.at \in {"bottom", "cursorY", "cursorX", "index15", "low", "index14"}
  <2>1. /\ X1 = X /\ Y1 = Y /\ scr1 = scr
        /\ t.at \in {"scroll", "cursorY", "cursorX", "index15", "low", "index14", "high"}
        /\ t.at = "scroll" => Y >= SCREEN_HEIGHT
        /\ t.tab = c.tab /\ t.n = c.n /\ t.text = c.text
    BY <1>13, <1>a DEF Move, ContextRecord
  <2>2. Showing(r, t, X, Y, scr, p)
    BY <1>13, <2>1, Glides DEF Behind, Moved
  <2> QED BY <2>1, <2>2
<1> QED
  BY <1>1, <1>2, <1>3, <1>4, <1>5, <1>6, <1>7, <1>8, <1>9, <1>10, <1>11, <1>12, <1>13 DEF Move

\* A move of start(), or of a handler between two of its characters, keeps the
\* display, but for the last write of setcursor.
LEMMA DisplayMove ==
  ASSUME NEW c \in ContextRecord, NEW t \in ContextRecord, NEW p,
         NEW r \in Nat, NEW X \in Nat, NEW Y \in Nat, NEW X1, NEW Y1,
         NEW scr, NEW scr1, NEW crt \in CrtcRecord, NEW crt1,
         Progress(c), StartInv(c, X, Y), Move(c, t, X, Y, X1, Y1),
         Draws(c, scr, scr1, crt, crt1), c.at = "high" => c.tab # NoTab,
         Display(r, c, X, Y, scr, crt, p)
  PROVE  \E r1 \in Nat : Display(r1, t, X1, Y1, scr1, crt1, p)
<1>1. p.at \in Nat /\ Loaded(c, X, Y) /\ Typing(c, p) /\ Marked(c, X, Y, crt, p)
  BY DEF Display
<1>2. Loaded(t, X1, Y1)
  BY <1>1, LoadedMove
<1>3. Marked(t, X1, Y1, crt1, p)
  BY <1>1, MarkedMove
<1>4. CASE c.at \in {"clear", "clearX", "clearY"}
  <2>1. Wiping(c, X, scr, p) /\ c.n \in Nat /\ Len(c.text) \in Nat
    BY <1>4, TextLength DEF Display, ContextRecord
  <2>2. /\ t.at \in {"clearX", "clearY", "cursorY"} /\ t.tab = c.tab /\ t.n = c.n /\ t.text = c.text
        /\ c.at = "clear" => t.at = "clearX" /\ scr1 = Blank
        /\ c.at = "clearX" => t.at = "clearY" /\ X1 = 0 /\ scr1 = scr
        /\ c.at = "clearY" => t.at = "cursorY" /\ X1 = X /\ Y1 = 0 /\ scr1 = scr
    BY <1>4 DEF Move, Draws, ContextRecord
  <2>3. Typing(t, p)
    BY <2>1, <2>2 DEF Wiping, Typing
  <2>4. CASE c.at \in {"clear", "clearX"}
    <3>1. Wiping(t, X1, scr1, p) /\ t.at \in {"clearX", "clearY"}
      BY <2>1, <2>2, <2>4 DEF Wiping
    <3>2. Display(r, t, X1, Y1, scr1, crt1, p)
      BY <1>1, <1>2, <1>3, <2>3, <3>1 DEF Display
    <3> QED BY <3>2
  <2>5. CASE c.at = "clearY"
    <3>1. t.at = "cursorY" /\ X1 = 0 /\ Y1 = 0 /\ scr1 = Blank /\ p.at = 0 /\ p.cells = Blank
      BY <2>1, <2>2, <2>5 DEF Wiping
    <3>2. Seen(t, p) = p
      BY <2>1, <2>2, <3>1 DEF Seen, After, Behind, Wiping
    <3>3. Moved(t, X1, Y1) = 0 * SCREEN_WIDTH + 0
      BY <3>1 DEF Moved
    <3>4. 0 * SCREEN_WIDTH + (0 * SCREEN_WIDTH + 0) = 0
      BY ConsoleAssumption
    <3>5. Showing(0, t, X1, Y1, scr1, p)
      BY <3>1, <3>2, <3>3, <3>4, WindowBlank DEF Showing
    <3>6. Display(0, t, X1, Y1, scr1, crt1, p)
      BY <1>1, <1>2, <1>3, <2>3, <3>1, <3>5 DEF Display
    <3> QED BY <3>6
  <2> QED BY <1>4, <2>4, <2>5
<1>5. CASE c.at \notin {"clear", "clearX", "clearY"}
  <2>1. Showing(r, c, X, Y, scr, p)
    BY <1>5 DEF Display
  <2>2. PICK r1 \in Nat : Showing(r1, t, X1, Y1, scr1, p)
    BY <1>1, <1>5, <2>1, ShowingMove
  <2>3. c.at = "tab" => p.at + c.tab = r * SCREEN_WIDTH + (Y * SCREEN_WIDTH + X)
    <3>1. SUFFICES ASSUME c.at = "tab"
                   PROVE  p.at + c.tab = r * SCREEN_WIDTH + (Y * SCREEN_WIDTH + X)
      OBVIOUS
    <3>2. c.tab # NoTab
      BY <3>1 DEF Progress
    <3>3. Seen(c, p) = Fill(p, " ", c.tab) /\ Moved(c, X, Y) = Y * SCREEN_WIDTH + X
      BY <3>1, <3>2 DEF Seen, Before, Behind, Moved
    <3>4. Fill(p, " ", c.tab).at = p.at + c.tab
      BY Filled DEF Sheet
    <3> QED BY <2>1, <3>3, <3>4 DEF Showing
  <2>4. Typing(t, p)
    BY <1>1, <2>3, TypingMove
  <2>5. t.at \notin {"clear", "clearX", "clearY"}
    <3>1. CASE c.at \in {"putc", "tab", "position", "cell", "advance", "advanced", "newline", "newlined", "wrap"}
      BY <3>1 DEF Move, ContextRecord
    <3>2. CASE c.at \in {"wrapLine", "wrappedLine", "wrapColumn", "bottom", "scroll", "scrolled"}
      BY <3>2 DEF Move, ContextRecord
    <3>3. CASE c.at \in {"cursorY", "cursorX", "index15", "low", "index14", "high"}
      BY <3>3 DEF Move, NextChar, ContextRecord
    <3> QED BY <1>5, <3>1, <3>2, <3>3 DEF Move
  <2>6. Display(r1, t, X1, Y1, scr1, crt1, p)
    BY <1>1, <1>2, <1>3, <2>2, <2>4, <2>5 DEF Display
  <2> QED BY <2>6
<1> QED BY <1>4, <1>5

\* With its last write, setcursor shows where the cursor is.
LEMMA CursorShown ==
  ASSUME NEW c \in ContextRecord, NEW X \in Nat, NEW Y \in Nat, NEW p, NEW scr, NEW scr1,
         NEW crt \in CrtcRecord, NEW crt1, c.at = "high", StartInv(c, X, Y),
         Loaded(c, X, Y), Marked(c, X, Y, crt, p), Draws(c, scr, scr1, crt, crt1)
  PROVE  crt1.low + BYTE * crt1.high = Y * SCREEN_WIDTH + X
<1> DEFINE w == SCREEN_WIDTH
           h == SCREEN_HEIGHT
           b == BYTE
           n == Y * w + X
<1>1. w \in Nat \ {0} /\ h \in Nat /\ h >= 2 /\ b \in Nat \ {0} /\ w * h <= b * b
  BY ConsoleAssumption
<1>2. X < w /\ Y < h
  BY <1>1 DEF StartInv, AtRest, LastColumn, LastRow
<1>3. n \in Nat /\ n < b * b
  <2>1. PICK d \in Nat : h = Y + 1 + d
    <3>1. h - (Y + 1) \in Nat /\ h = Y + 1 + (h - (Y + 1))
      BY <1>1, <1>2
    <3> QED BY <3>1
  <2>2. w * h = Y * w + w + d * w /\ d * w \in Nat /\ Y * w \in Nat
    BY <1>1, <2>1
  <2>3. b * b \in Nat
    BY <1>1
  <2> HIDE DEF w, h, b
  <2> QED BY <1>1, <1>2, <2>2, <2>3
<1>4. CellOf(c) = n
  BY DEF Loaded, CellOf
<1>5. crt1.low = n % b /\ crt1.high = (n \div b) % b
  <2>1. crt.low = n % b /\ crt.index = 14
    BY DEF Marked
  <2>2. crt1 = [crt EXCEPT !.high = (CellOf(c) \div BYTE) % BYTE]
    BY <2>1 DEF Draws
  <2> QED BY <1>4, <2>1, <2>2 DEF CrtcRecord
<1> HIDE DEF n, b
<1> QED BY <1>1, <1>3, <1>5, TwoBytes DEF n, b

\* The display after a character: what the character types is on the page.
LEMMA DisplayNext ==
  ASSUME NEW c \in ContextRecord, NEW t \in ContextRecord, NEW p,
         NEW r \in Nat, NEW X \in Nat, NEW Y \in Nat, NEW X1, NEW Y1,
         NEW scr, NEW scr1, NEW crt \in CrtcRecord, NEW crt1,
         StartInv(c, X, Y), Move(c, t, X, Y, X1, Y1),
         Draws(c, scr, scr1, crt, crt1), c.at = "high", c.tab = NoTab,
         Display(r, c, X, Y, scr, crt, p)
  PROVE  Display(r, t, X1, Y1, scr1, crt1, After(c, p))
<1>1. /\ p.at \in Nat /\ Loaded(c, X, Y) /\ Marked(c, X, Y, crt, p) /\ Showing(r, c, X, Y, scr, p)
  BY DEF Display
<1>2. X1 = X /\ Y1 = Y /\ scr1 = scr /\ t.at = "putc" /\ t.tab = NoTab
  BY DEF Move, NextChar, Draws, ContextRecord
<1>3. After(c, p).at \in Nat
  BY <1>1, TypedAt DEF After
<1>4. Loaded(t, X1, Y1) /\ Typing(t, After(c, p))
  BY <1>2 DEF Loaded, Typing
<1>5. Marked(t, X1, Y1, crt1, After(c, p))
  BY <1>1, <1>2, CursorShown DEF Marked
<1>6. Showing(r, t, X1, Y1, scr1, After(c, p))
  <2>1. Seen(c, p) = After(c, p) /\ Seen(t, After(c, p)) = After(c, p)
    BY <1>2 DEF Seen, Before, Behind
  <2>2. Moved(t, X, Y) = Moved(c, X, Y)
    BY <1>2 DEF Moved
  <2> QED BY <1>1, <1>2, <2>1, <2>2 DEF Showing
<1> QED BY <1>2, <1>3, <1>4, <1>5, <1>6 DEF Display

\* Between two characters it does not matter whose they are.
LEMMA DisplayRest ==
  ASSUME NEW c, NEW d, NEW p, NEW r, NEW X, NEW Y, NEW scr, NEW crt,
         BetweenCharacters(c), BetweenCharacters(d), Display(r, c, X, Y, scr, crt, p)
  PROVE  Display(r, d, X, Y, scr, crt, p)
<1>1. c.at \in {"idle", "putc"} /\ d.at \in {"idle", "putc"} /\ c.tab = NoTab /\ d.tab = NoTab
  BY DEF BetweenCharacters
<1>2. Loaded(d, X, Y) /\ Typing(d, p)
  BY <1>1 DEF Loaded, Typing
<1>3. Marked(d, X, Y, crt, p)
  BY <1>1 DEF Display, Marked, BetweenCharacters
<1>4. Showing(r, c, X, Y, scr, p)
  BY <1>1 DEF Display
<1>5. Seen(c, p) = Seen(d, p) /\ Moved(c, X, Y) = Moved(d, X, Y)
  BY <1>1 DEF Seen, Before, Behind, Moved
<1>6. Showing(r, d, X, Y, scr, p)
  BY <1>1, <1>4, <1>5 DEF Showing
<1> QED BY <1>1, <1>2, <1>3, <1>6 DEF Display

\* A screen nothing is known about is a page to go on typing on.
LEMMA DisplaySnapshot ==
  ASSUME NEW c, BetweenCharacters(c), NEW X \in Nat, NEW Y \in Nat, NEW crt, NEW p,
         NEW scr, scr = [i \in Cells |-> scr[i]],
         p.cells = scr, p.at = Y * SCREEN_WIDTH + X, p.shown = FALSE
  PROVE  Display(0, c, X, Y, scr, crt, p)
<1>1. c.at \in {"idle", "putc"} /\ c.tab = NoTab
  BY DEF BetweenCharacters
<1>2. Loaded(c, X, Y) /\ Typing(c, p) /\ Marked(c, X, Y, crt, p)
  BY <1>1 DEF Loaded, Typing, Marked
<1>3. Y * SCREEN_WIDTH + X \in Nat /\ 0 * SCREEN_WIDTH + (Y * SCREEN_WIDTH + X) = Y * SCREEN_WIDTH + X
  <2>1. Y * SCREEN_WIDTH \in Nat /\ 0 * SCREEN_WIDTH = 0
    BY ConsoleAssumption
  <2> QED BY <2>1
<1>4. Seen(c, p) = p /\ Moved(c, X, Y) = Y * SCREEN_WIDTH + X
  BY <1>1 DEF Seen, Before, Behind, Moved
<1>5. Showing(0, c, X, Y, scr, p)
  BY <1>1, <1>3, <1>4, WindowItself DEF Showing
<1> QED BY <1>1, <1>2, <1>3, <1>5 DEF Display

(***************************************************************************)
(* The inductive invariant: while nothing is spoilt, whoever is printing   *)
(* shows the page, r rows of it being above the screen.                    *)
(***************************************************************************)
Displayed ==
  \E r \in Nat : Display(r, This, g_ScreenX, g_ScreenY, screen, crtc, page)

TextInv ==
  /\ screen = [i \in Cells |-> screen[i]]
  /\ ~disturbed =>
       /\ Running = 2 => BetweenCharacters(contexts[1])
       /\ StartInv(This, g_ScreenX, g_ScreenY)
       /\ Displayed

LEMMA DrawsScreen ==
  ASSUME NEW c, NEW scr, NEW scr1, NEW crt, NEW crt1, scr = [i \in Cells |-> scr[i]],
         Draws(c, scr, scr1, crt, crt1)
  PROVE  scr1 = [i \in Cells |-> scr1[i]]
<1>1. CASE c.at = "cell"
  <2>1. scr1 = [i \in Cells |-> IF i = CellOf(c) THEN Put(c) ELSE scr[i]]
    BY <1>1 DEF Draws
  <2> QED BY <2>1
<1>2. CASE c.at = "scroll"
  <2>1. scr1 = Lifted(scr)
    BY <1>2 DEF Draws
  <2> QED BY <2>1 DEF Lifted
<1>3. CASE c.at = "clear"
  <2>1. scr1 = Blank
    BY <1>3 DEF Draws
  <2> QED BY <2>1 DEF Blank
<1>4. CASE c.at \notin {"cell", "scroll", "clear"}
  <2>1. scr1 = scr
    BY <1>4 DEF Draws
  <2> QED BY <2>1
<1> QED BY <1>1, <1>2, <1>3, <1>4

\* What a step of the running context is: a move of it, that draws.
LEMMA Steps ==
  ASSUME Shape, MicroStep \/ PutcReturns
  PROVE  /\ This \in ContextRecord /\ Progress(This) /\ This' \in ContextRecord
         /\ Move(This, This', g_ScreenX, g_ScreenY, g_ScreenX', g_ScreenY')
         /\ Draws(This, screen, screen', crtc, crtc')
         /\ crtc \in CrtcRecord /\ g_ScreenX \in Nat /\ g_ScreenY \in Nat
         /\ Running' = Running /\ (Running = 1 => This = contexts[1] /\ This' = contexts'[1])
         /\ Running = 2 => contexts'[1] = contexts[1]
<1>1. PICK t : Stepped(t)
  BY MicroSteps
<1>2. /\ contexts \in Seq(ContextRecord) /\ Running \in 1 .. 2 /\ Running = Len(contexts)
      /\ t \in ContextRecord /\ contexts' = [contexts EXCEPT ![Running] = t]
  BY <1>1 DEF Shape, Stepped, Becomes, Running
<1>3. /\ Running' = Running /\ contexts'[Running] = t
      /\ Running = 2 => contexts'[1] = contexts[1]
  BY <1>2 DEF Running
<1>4. This' = t
  BY <1>3 DEF This
<1>5. Running = 1 => This = contexts[1] /\ This' = contexts'[1]
  BY <1>3 DEF This
<1> QED BY <1>1, <1>2, <1>3, <1>4, <1>5, ThisContext, MicroDraws DEF Stepped, Shape

LEMMA MicroStepText ==
  ASSUME Shape, CursorInv, TextInv, MicroStep \/ PutcReturns,
         At("high") => This.tab # NoTab, UNCHANGED ghostVars
  PROVE  TextInv'
<1>1. screen' = [i \in Cells |-> screen'[i]]
  BY Steps, DrawsScreen DEF TextInv
<1>2. ASSUME ~disturbed
      PROVE  /\ Running' = 2 => BetweenCharacters(contexts'[1])
             /\ StartInv(This', g_ScreenX', g_ScreenY')
             /\ \E r \in Nat : Display(r, This', g_ScreenX', g_ScreenY', screen', crtc', page)
  <2>1. PICK r \in Nat : Display(r, This, g_ScreenX, g_ScreenY, screen, crtc, page)
    BY <1>2 DEF TextInv, Displayed
  <2>2. StartInv(This, g_ScreenX, g_ScreenY)
    BY <1>2 DEF TextInv
  <2>3. StartInv(This', g_ScreenX', g_ScreenY')
    BY <2>2, Steps, StartMove, ConstantFacts
  <2>4. This.at = "high" => This.tab # NoTab
    BY DEF At
  <2>5. \E r1 \in Nat : Display(r1, This', g_ScreenX', g_ScreenY', screen', crtc', page)
    BY <2>1, <2>2, <2>4, Steps, DisplayMove
  <2>6. Running' = 2 => BetweenCharacters(contexts'[1])
    BY <1>2, Steps DEF TextInv
  <2> QED BY <2>3, <2>5, <2>6
<1>3. page' = page /\ disturbed' = disturbed
  BY DEF ghostVars
<1> QED BY <1>1, <1>2, <1>3 DEF TextInv, Displayed

LEMMA CharacterText ==
  ASSUME Shape, CursorInv, TextInv, PutcReturns, This.tab = NoTab, UNCHANGED clientVars
  PROVE  TextInv'
<1>1. screen' = [i \in Cells |-> screen'[i]]
  BY Steps, DrawsScreen DEF TextInv
<1>2. This.at = "high" /\ Char = Put(This)
  BY DEF PutcReturns, At, Char, Put
<1>3. BetweenCharacters(This') /\ g_ScreenX' = g_ScreenX /\ g_ScreenY' = g_ScreenY
  <2>1. Move(This, This', g_ScreenX, g_ScreenY, g_ScreenX', g_ScreenY') /\ This \in ContextRecord
    BY Steps
  <2> QED BY <1>2, <2>1 DEF Move, NextChar, ContextRecord, BetweenCharacters
<1>4. CASE ~disturbed
  <2>1. PICK r \in Nat : Display(r, This, g_ScreenX, g_ScreenY, screen, crtc, page)
    BY <1>4 DEF TextInv, Displayed
  <2>2. StartInv(This, g_ScreenX, g_ScreenY)
    BY <1>4 DEF TextInv
  <2>3. StartInv(This', g_ScreenX', g_ScreenY')
    BY <2>2, Steps, StartMove, ConstantFacts
  <2>4. page' = After(This, page) /\ disturbed' = disturbed
    BY <1>2, <1>4 DEF PutcReturns, After, Put
  <2>5. Display(r, This', g_ScreenX', g_ScreenY', screen', crtc', page')
    BY <1>2, <2>1, <2>2, <2>4, Steps, DisplayNext
  <2>6. Running' = 2 => BetweenCharacters(contexts'[1])
    BY <1>4, Steps DEF TextInv
  <2> QED BY <1>1, <2>3, <2>5, <2>6 DEF TextInv, Displayed
<1>5. CASE disturbed /\ Running = 1
  <2>1. page' = Snapshot /\ disturbed' = FALSE
    BY <1>5 DEF PutcReturns
  <2>2. /\ This = contexts[1] /\ This' = contexts'[1] /\ Running' = 1
        /\ g_ScreenX \in Nat /\ g_ScreenY \in Nat
    BY <1>5, Steps
  <2>3. StartInv(This, g_ScreenX, g_ScreenY)
    BY <1>5, <2>2 DEF CursorInv
  <2>4. StartInv(This', g_ScreenX', g_ScreenY')
    BY <2>3, Steps, StartMove, ConstantFacts
  <2>5. screen' = screen
    BY DEF PutcReturns, WriteRegister
  <2>6. /\ page'.cells = screen' /\ page'.shown = FALSE
        /\ page'.at = g_ScreenY' * SCREEN_WIDTH + g_ScreenX'
    BY <1>3, <2>1, <2>5 DEF Snapshot
  <2>7. Display(0, This', g_ScreenX', g_ScreenY', screen', crtc', page')
    BY <1>1, <1>3, <2>2, <2>6, DisplaySnapshot
  <2> QED BY <1>1, <2>2, <2>4, <2>7 DEF TextInv, Displayed
<1>6. CASE disturbed /\ Running # 1
  <2>1. disturbed'
    BY <1>6 DEF PutcReturns, ghostVars
  <2> QED BY <1>1, <2>1 DEF TextInv
<1> QED BY <1>4, <1>5, <1>6

\* Calls begin and return, and handlers start, between two characters.
LEMMA RestText ==
  ASSUME TextInv, ~disturbed, BetweenCharacters(This), BetweenCharacters(This'),
         UNCHANGED <<cursorVars, screen, crtc, page>>
  PROVE  StartInv(This', g_ScreenX', g_ScreenY') /\ Displayed'
<1>1. PICK r \in Nat : Display(r, This, g_ScreenX, g_ScreenY, screen, crtc, page)
  BY DEF TextInv, Displayed
<1>2. Display(r, This', g_ScreenX, g_ScreenY, screen, crtc, page)
  BY <1>1, DisplayRest
<1>3. Displayed'
  BY <1>2 DEF Displayed, cursorVars
<1>4. StartInv(This, g_ScreenX, g_ScreenY)
  BY DEF TextInv
<1>5. StartInv(This', g_ScreenX, g_ScreenY)
  BY <1>4 DEF StartInv, StartRegisters, AtRest, FirstRow, LastRow, LastColumn, BetweenCharacters
<1> QED BY <1>3, <1>5 DEF cursorVars

LEMMA CallText ==
  ASSUME Shape, TextInv, Running = 1, contexts[1].at = "idle" \/ CallReturns,
         UNCHANGED <<cursorVars, screen, crtc, ghostVars>>,
         NEW at \in {"idle", "putc"}, NEW m, NEW text, contexts' = <<Context(at, m, text)>>
  PROVE  TextInv'
<1>1. Running' = 1 /\ This' = Context(at, m, text) /\ This = contexts[1]
  BY DEF Running, This
<1>2. BetweenCharacters(This')
  BY <1>1 DEF BetweenCharacters, Context
<1>3. ASSUME ~disturbed PROVE BetweenCharacters(This)
  <2>1. PICK r \in Nat : Display(r, This, g_ScreenX, g_ScreenY, screen, crtc, page)
    BY <1>3 DEF TextInv, Displayed
  <2>2. This.at \in {"idle", "putc"} /\ (This.at = "idle" \/ This.n > Len(This.text))
    BY <1>1 DEF CallReturns, At
  <2>3. This \in ContextRecord /\ Progress(This) /\ Len(This.text) \in Nat /\ This.n \in Nat
    BY ThisContext, TextLength DEF ContextRecord
  <2>4. This.tab = NoTab
    <3>1. /\ This.tab # NoTab => This.n <= Len(This.text)
          /\ This.at = "idle" => This.tab = NoTab
      BY <2>1 DEF Display, Typing
    <3> QED BY <2>2, <2>3, <3>1
  <2> QED BY <2>2, <2>4 DEF BetweenCharacters
<1>4. screen' = screen /\ disturbed' = disturbed
  BY DEF ghostVars
<1>5. ASSUME ~disturbed PROVE StartInv(This', g_ScreenX', g_ScreenY') /\ Displayed'
  BY <1>2, <1>3, <1>5, RestText DEF ghostVars
<1> QED BY <1>1, <1>4, <1>5 DEF TextInv

LEMMA ReturnText ==
  ASSUME Shape, TextInv, CallReturns, Running = 2
  PROVE  TextInv'
<1>1. /\ contexts \in Seq(ContextRecord) /\ Len(contexts) = 2
      /\ contexts' = SubSeq(contexts, 1, 1) /\ This = contexts[2]
  BY DEF CallReturns, Shape, Running, Front, This
<1>2. contexts' \in Seq(ContextRecord) /\ Len(contexts') = 1 /\ contexts'[1] = contexts[1]
  BY <1>1
<1>3. Running' = 1 /\ This' = contexts[1]
  BY <1>2 DEF Running, This
<1>4. UNCHANGED <<cursorVars, screen, crtc, ghostVars>>
  BY DEF CallReturns
<1>5. ASSUME ~disturbed PROVE BetweenCharacters(This) /\ BetweenCharacters(This')
  <2>1. PICK r \in Nat : Display(r, This, g_ScreenX, g_ScreenY, screen, crtc, page)
    BY <1>5 DEF TextInv, Displayed
  <2>2. This.at = "putc" /\ This.n > Len(This.text)
    BY DEF CallReturns, At
  <2>3. This \in ContextRecord /\ Len(This.text) \in Nat /\ This.n \in Nat
    BY ThisContext, TextLength DEF ContextRecord
  <2>4. This.tab = NoTab
    <3>1. This.tab # NoTab => This.n <= Len(This.text)
      BY <2>1 DEF Display, Typing
    <3> QED BY <2>2, <2>3, <3>1
  <2>5. BetweenCharacters(contexts[1])
    BY <1>5 DEF TextInv
  <2> QED BY <1>3, <2>2, <2>4, <2>5 DEF BetweenCharacters
<1>6. screen' = screen /\ disturbed' = disturbed
  BY <1>4 DEF ghostVars
<1>7. ASSUME ~disturbed PROVE StartInv(This', g_ScreenX', g_ScreenY') /\ Displayed'
  BY <1>4, <1>5, <1>7, RestText DEF ghostVars
<1> QED BY <1>3, <1>6, <1>7 DEF TextInv

LEMMA TickText ==
  ASSUME Shape, TextInv, Tick
  PROVE  TextInv'
<1>1. PICK m \in HandlerMessages : contexts' = Append(contexts, Printing(m))
  BY DEF Tick
<1> DEFINE c == Printing(m)
<1>2. c \in ContextRecord /\ c.at = "putc" /\ BetweenCharacters(c)
  BY NewContext, MessageTexts DEF Printing, BetweenCharacters, Context
<1> HIDE DEF c
<1>3. contexts \in Seq(ContextRecord) /\ Len(contexts) = 1 /\ This = contexts[1]
  BY DEF Shape, Tick, Running, This
<1>4. Len(contexts') = 2 /\ contexts'[1] = contexts[1] /\ contexts'[2] = c
  <2>1. contexts' = Append(contexts, c)
    BY <1>1 DEF c
  <2>2. contexts' \in Seq(ContextRecord) /\ Len(contexts') = Len(contexts) + 1
    BY ONLY <1>2, <1>3, <2>1, AppendProperties
  <2>3. contexts'[Len(contexts) + 1] = c
    BY ONLY <1>2, <1>3, <2>1, AppendProperties
  <2>4. \A i \in 1 .. Len(contexts) : contexts'[i] = contexts[i]
    BY ONLY <1>2, <1>3, <2>1, AppendProperties
  <2> QED BY <1>3, <2>2, <2>3, <2>4
<1>5. This' = c
  BY <1>4 DEF This, Running
<1>6. UNCHANGED <<cursorVars, screen, crtc, page>>
  BY DEF Tick
<1>7. ASSUME ~disturbed'
      PROVE  /\ BetweenCharacters(contexts'[1])
             /\ StartInv(This', g_ScreenX', g_ScreenY') /\ Displayed'
  <2>1. ~disturbed /\ BetweenCharacters(contexts[1])
    BY <1>7 DEF Tick
  <2> QED BY <1>2, <1>3, <1>4, <1>5, <1>6, <2>1, RestText
<1> QED BY <1>6, <1>7 DEF TextInv

LEMMA ClearText ==
  ASSUME Shape, CursorInv, TextInv, ClearScreen
  PROVE  TextInv'
<1>1. /\ contexts' = <<Clearing>> /\ page' = Sheet(Blank, 0) /\ Running = 1
      /\ UNCHANGED <<cursorVars, screen, crtc>> /\ This.at = "idle" /\ This = contexts[1]
  BY DEF ClearScreen, Calling, At, This
<1>2. Running' = 1 /\ This' = Clearing
  BY <1>1 DEF Running, This
<1>3. Clearing.at = "clear" /\ Clearing.tab = NoTab /\ Clearing.n = 1 /\ Clearing.text = <<>>
  BY DEF Clearing, Context
<1>4. page'.at = 0 /\ page'.cells = Blank
  BY <1>1 DEF Sheet
<1>5. Wiping(This', g_ScreenX', screen', page')
  BY <1>2, <1>3, <1>4 DEF Wiping
<1>6. /\ Loaded(This', g_ScreenX', g_ScreenY') /\ Typing(This', page')
      /\ Marked(This', g_ScreenX', g_ScreenY', crtc', page')
  BY <1>2, <1>3 DEF Loaded, Typing, Marked, BetweenCharacters
<1>7. Display(0, This', g_ScreenX', g_ScreenY', screen', crtc', page')
  BY <1>2, <1>3, <1>4, <1>5, <1>6 DEF Display
<1>8. StartInv(This', g_ScreenX', g_ScreenY')
  BY <1>1, <1>2, <1>3 DEF CursorInv, StartInv, StartRegisters, AtRest, FirstRow, LastRow,
     LastColumn, cursorVars
<1> QED BY <1>1, <1>2, <1>7, <1>8 DEF TextInv, Displayed

LEMMA InitText ==
  ASSUME Init
  PROVE  TextInv
<1>1. contexts = <<IdleContext>> /\ Running = 1 /\ This = IdleContext
  BY DEF Init, Running, This
<1>2. IdleContext.at = "idle" /\ BetweenCharacters(IdleContext)
  BY DEF IdleContext, Context, BetweenCharacters
<1>3. screen = [i \in Cells |-> screen[i]]
  <2>1. screen = [i \in Cells |-> "?"]
    BY DEF Init
  <2> QED BY <2>1
<1>4. /\ g_ScreenX = 0 /\ g_ScreenY = 0
      /\ page.cells = screen /\ page.at = 0 /\ page.shown = FALSE
  BY DEF Init
<1>5. page.at = g_ScreenY * SCREEN_WIDTH + g_ScreenX
  <2>1. 0 * SCREEN_WIDTH + 0 = 0
    BY ConsoleAssumption
  <2> QED BY <1>4, <2>1
<1>6. Display(0, This, g_ScreenX, g_ScreenY, screen, crtc, page)
  <2>1. g_ScreenX \in Nat /\ g_ScreenY \in Nat /\ BetweenCharacters(This)
    BY <1>1, <1>2, <1>4
  <2>2. page.cells = screen /\ page.shown = FALSE
    BY <1>4
  <2> QED BY ONLY <1>3, <1>5, <2>1, <2>2, DisplaySnapshot
<1>7. StartInv(This, g_ScreenX, g_ScreenY)
  BY <1>1, InitKeeps DEF CursorInv, This
<1> QED BY <1>1, <1>3, <1>6, <1>7 DEF TextInv, Displayed

LEMMA NextText ==
  ASSUME Shape, CursorInv, TextInv, [Next]_vars
  PROVE  TextInv'
<1>1. CASE MicroStep /\ UNCHANGED ghostVars
  <2>1. ~At("high")
    BY <1>1 DEF MicroStep, PutcChar, PutcNewline, PutcReturn, PutcTab, PutcDefault, TabLoop,
       Position, putchr, Advance, Newline, Wrap, Bottom, scrollback, clrscr, setcursor, At
  <2> QED BY <1>1, <2>1, MicroStepText
<1>2. CASE PutcReturns /\ UNCHANGED clientVars
  <2>1. CASE This.tab # NoTab
    <3>1. UNCHANGED ghostVars
      BY <1>2, <2>1 DEF PutcReturns
    <3> QED BY <1>2, <2>1, <3>1, MicroStepText
  <2>2. CASE This.tab = NoTab
    BY <1>2, <2>2, CharacterText
  <2> QED BY <2>1, <2>2
<1>3. CASE CallReturns
  <2>1. UNCHANGED <<cursorVars, screen, crtc, ghostVars>>
    BY <1>3 DEF CallReturns
  <2>2. CASE Running = 1
    <3>1. contexts' = <<Context("idle", NoMessage, <<>>)>>
      BY <1>3, <2>2 DEF CallReturns, IdleContext
    <3> QED BY <1>3, <2>1, <2>2, <3>1, CallText
  <2>3. CASE Running = 2
    BY <1>3, <2>3, ReturnText
  <2> QED BY <2>2, <2>3 DEF Shape
<1>4. CASE PrintBoot
  <2>1. /\ Running = 1 /\ contexts[1].at = "idle"
        /\ UNCHANGED <<cursorVars, screen, crtc, ghostVars>>
        /\ contexts' = <<Context("putc", BootMessage, TextOf(BootMessage))>>
    BY <1>4 DEF PrintBoot, Calling, At, This, Printing
  <2> QED BY <2>1, CallText
<1>5. CASE PrintMessage
  <2>1. PICK m \in Messages : contexts' = <<Context("putc", m, TextOf(m))>>
    BY <1>5 DEF PrintMessage, Printing
  <2>2. /\ Running = 1 /\ contexts[1].at = "idle"
        /\ UNCHANGED <<cursorVars, screen, crtc, ghostVars>>
    BY <1>5 DEF PrintMessage, Calling, At, This
  <2> QED BY <2>1, <2>2, CallText
<1>6. CASE ClearScreen
  BY <1>6, ClearText
<1>7. CASE Tick
  BY <1>7, TickText
<1>8. CASE EnableInterrupts \/ Idle \/ UNCHANGED vars
  <2>1. UNCHANGED <<cursorVars, screen, crtc, contexts, ghostVars>>
    BY <1>8 DEF EnableInterrupts, Idle, vars
  <2>2. This' = This /\ Running' = Running
    BY <2>1 DEF This, Running
  <2> QED BY <2>1, <2>2 DEF TextInv, Displayed, cursorVars, ghostVars
<1> QED BY <1>1, <1>2, <1>3, <1>4, <1>5, <1>6, <1>7, <1>8 DEF Next, Console, MicroStep

\* How many rows of a page are above the screen follows from where it ends.
LEMMA RowsAboveScreen ==
  ASSUME NEW r \in Nat, NEW X \in Nat, NEW Y \in Nat, X < SCREEN_WIDTH, Y < SCREEN_HEIGHT,
         r # 0 => Y >= SCREEN_HEIGHT - 1,
         NEW p, p.at = r * SCREEN_WIDTH + (Y * SCREEN_WIDTH + X)
  PROVE  RowsAbove(p) = r
<1> DEFINE w == SCREEN_WIDTH
           h == SCREEN_HEIGHT
           q == r + Y
           a == p.at
<1>1. w \in Nat \ {0} /\ h \in Nat /\ h >= 2 /\ q \in Nat
  BY ConsoleAssumption
<1>2. a = q * w + X /\ a \in Nat
  <2>1. q * w = r * w + Y * w /\ r * w \in Nat /\ Y * w \in Nat
    BY <1>1
  <2> QED BY <2>1
<1>3. a \div w = q
  <2> HIDE DEF w, q, a
  <2> QED BY <1>1, <1>2, DivUnique DEF w
<1>4. RowsAbove(p) = IF q >= h THEN q - (h - 1) ELSE 0
  BY <1>3 DEF RowsAbove
<1>5. CASE q >= h
  <2>1. Y = h - 1 /\ q - (h - 1) = r
    BY <1>1, <1>5
  <2> QED BY <1>4, <1>5, <2>1
<1>6. CASE q < h
  <2>1. r = 0
    BY <1>1, <1>6
  <2> QED BY <1>1, <1>4, <1>6, <2>1
<1> QED BY <1>1, <1>5, <1>6

-----------------------------------------------------------------------------
(* The texts of the contexts.                                              *)

Faithful(c) == c.text = Rendered(c.message.items, c.message.args)
MessageInv == \A i \in 1 .. Running : Faithful(contexts[i])

LEMMA NothingFaithful ==
  ASSUME NEW at
  PROVE  Faithful(Context(at, NoMessage, <<>>))
<1>1. NoMessage.items = <<>> /\ NoMessage.args = <<>> /\ Len(<<>>) = 0
  BY DEF NoMessage
<1>2. RenderedUpTo(<<>>, <<>>)[0] = [text |-> <<>>, left |-> <<>>]
  BY <1>1, RenderedSteps
<1>3. Rendered(<<>>, <<>>) = <<>>
  BY <1>1, <1>2 DEF Rendered
<1>4. Context(at, NoMessage, <<>>).text = <<>> /\ Context(at, NoMessage, <<>>).message = NoMessage
  BY DEF Context
<1> QED BY <1>1, <1>3, <1>4 DEF Faithful

LEMMA PrintingFaithful ==
  ASSUME NEW m \in Messages \cup HandlerMessages \cup {BootMessage}
  PROVE  Faithful(Printing(m))
<1>1. Printing(m).text = TextOf(m) /\ Printing(m).message = m
  BY DEF Printing, Context
<1> QED BY <1>1, MessageRendered DEF Faithful

LEMMA MoveKeepsMessage ==
  ASSUME NEW c \in ContextRecord, NEW t \in ContextRecord, NEW X, NEW Y, NEW X1, NEW Y1,
         Move(c, t, X, Y, X1, Y1)
  PROVE  t.text = c.text /\ t.message = c.message
<1>1. CASE c.at \in {"putc", "tab", "newline", "newlined", "wrap", "wrapLine"}
  BY <1>1 DEF Move, ContextRecord
<1>2. CASE c.at \in {"position", "cell", "advance", "advanced"}
  BY <1>2 DEF Move, ContextRecord
<1>3. CASE c.at \in {"wrappedLine", "wrapColumn", "bottom", "scroll", "scrolled",
                     "clear", "clearX", "clearY"}
  BY <1>3 DEF Move, ContextRecord
<1>4. CASE c.at \in {"cursorY", "cursorX", "index15", "low", "index14"}
  BY <1>4 DEF Move, ContextRecord
<1>5. CASE c.at = "high"
  BY <1>5 DEF Move, NextChar, ContextRecord
<1> QED BY <1>1, <1>2, <1>3, <1>4, <1>5 DEF Move

LEMMA MicroStepMessages ==
  ASSUME Shape, MessageInv, MicroStep \/ PutcReturns
  PROVE  MessageInv'
<1>1. /\ This \in ContextRecord /\ This' \in ContextRecord
      /\ Move(This, This', g_ScreenX, g_ScreenY, g_ScreenX', g_ScreenY')
      /\ Running' = Running /\ (Running = 2 => contexts'[1] = contexts[1])
  BY Steps
<1>2. This'.text = This.text /\ This'.message = This.message
  BY <1>1, MoveKeepsMessage
<1>3. Running \in 1 .. 2 /\ This = contexts[Running] /\ This' = contexts'[Running]
  BY <1>1 DEF Shape, This
<1>4. Faithful(contexts'[Running])
  BY <1>2, <1>3 DEF MessageInv, Faithful
<1>5. Running = 2 => Faithful(contexts'[1])
  BY <1>1 DEF MessageInv
<1> QED BY <1>1, <1>3, <1>4, <1>5 DEF MessageInv

LEMMA OneMessage ==
  ASSUME NEW c, Faithful(c), contexts' = <<c>>
  PROVE  MessageInv'
BY DEF MessageInv, Running

LEMMA NextMessages ==
  ASSUME Shape, MessageInv, [Next]_vars
  PROVE  MessageInv'
<1>1. CASE MicroStep \/ PutcReturns
  BY <1>1, MicroStepMessages
<1>2. CASE CallReturns
  <2>1. CASE Running = 1
    BY <1>2, <2>1, NothingFaithful, OneMessage DEF CallReturns, IdleContext
  <2>2. CASE Running = 2
    <3>1. contexts \in Seq(ContextRecord) /\ Len(contexts) = 2 /\ contexts' = SubSeq(contexts, 1, 1)
      BY <1>2, <2>2 DEF CallReturns, Shape, Running, Front
    <3>2. Len(contexts') = 1 /\ contexts'[1] = contexts[1]
      BY <3>1
    <3> QED BY <2>2, <3>2 DEF MessageInv, Running
  <2> QED BY <2>1, <2>2 DEF Shape
<1>3. CASE PrintBoot
  BY <1>3, PrintingFaithful, OneMessage DEF PrintBoot
<1>4. CASE ClearScreen
  BY <1>4, NothingFaithful, OneMessage DEF ClearScreen, Clearing
<1>5. CASE PrintMessage
  BY <1>5, PrintingFaithful, OneMessage DEF PrintMessage
<1>6. CASE Tick
  <2>1. PICK m \in HandlerMessages : contexts' = Append(contexts, Printing(m))
    BY <1>6 DEF Tick
  <2> DEFINE c == Printing(m)
  <2>2. Faithful(c) /\ c \in ContextRecord
    BY PrintingFaithful, NewContext, MessageTexts DEF Printing
  <2> HIDE DEF c
  <2>3. contexts \in Seq(ContextRecord) /\ Len(contexts) = 1
    BY <1>6 DEF Shape, Tick, Running
  <2>4. Len(contexts') = 2 /\ contexts'[1] = contexts[1] /\ contexts'[2] = c
    <3>1. contexts' = Append(contexts, c)
      BY <2>1 DEF c
    <3>2. Len(contexts') = Len(contexts) + 1 /\ contexts'[Len(contexts) + 1] = c
      BY ONLY <2>2, <2>3, <3>1, AppendProperties
    <3>3. \A i \in 1 .. Len(contexts) : contexts'[i] = contexts[i]
      BY ONLY <2>2, <2>3, <3>1, AppendProperties
    <3> QED BY <2>3, <3>2, <3>3
  <2> QED BY <2>2, <2>3, <2>4 DEF MessageInv, Running
<1>7. CASE EnableInterrupts \/ Idle \/ UNCHANGED vars
  BY <1>7 DEF EnableInterrupts, Idle, vars, MessageInv, Running, Faithful
<1> QED BY <1>1, <1>2, <1>3, <1>4, <1>5, <1>6, <1>7 DEF Next, Console

-----------------------------------------------------------------------------
(* Theorems.                                                               *)

(***************************************************************************)
(* Types hold, the cursor is never further out than a column and two rows  *)
(* past the last, and no call runs past the end of its text: for every     *)
(* page, every text and every handler that prints (putc, putchr, clrscr,   *)
(* scrollback and setcursor of stdio.c, an access at a time).              *)
(***************************************************************************)
THEOREM ConsoleTypes == Spec => []ConsoleInv
<1>1. Shape /\ CursorInv => ConsoleInv
  <2> SUFFICES ASSUME Shape, CursorInv PROVE ConsoleInv
    OBVIOUS
  <2>1. Running \in 1 .. 2 /\ contexts \in Seq(ContextRecord) /\ Running = Len(contexts)
    BY DEF Shape, Running
  <2>2. g_ScreenX \in 0 .. SCREEN_WIDTH + 1 /\ g_ScreenY \in 0 .. SCREEN_HEIGHT + 1
    <3>1. g_ScreenX \in Nat /\ g_ScreenY \in Nat
      BY DEF Shape
    <3>2. CASE Running = 1
      BY <3>1, <3>2, ConsoleAssumption
         DEF CursorInv, StartInv, AtRest, LastRow, LastColumn
    <3>3. CASE Running = 2
      <4>1. g_ScreenX <= SCREEN_WIDTH + 1
        BY <3>1, <3>3, ConsoleAssumption
           DEF CursorInv, HandlerInv, HandlerCursor, AtRest, LastColumn
      <4>2. g_ScreenY <= SCREEN_HEIGHT + 1
        BY <3>1, <3>3, ConsoleAssumption
           DEF CursorInv, HandlerInv, HandlerCursor, AtRest, LastRow
      <4> QED BY <3>1, <4>1, <4>2, ConsoleAssumption
    <3> QED BY <2>1, <3>2, <3>3
  <2>3. crtc.index \in {0, 14, 15} /\ {crtc.low, crtc.high} \subseteq 0 .. BYTE - 1
    BY DEF Shape, CrtcRecord
  <2>4. ASSUME NEW i \in 1 .. Running
        PROVE  /\ contexts[i].at \in Labels
               /\ contexts[i].tab \in {NoTab} \cup 0 .. 4
               /\ contexts[i].n \in 1 .. (IF contexts[i].text = <<>> THEN 2
                                          ELSE Len(contexts[i].text) + 1)
    <3>1. contexts[i] \in ContextRecord /\ Progress(contexts[i])
      BY <2>1 DEF Shape
    <3>2. Len(contexts[i].text) \in Nat /\ contexts[i].n \in Nat
      BY <3>1, TextLength DEF ContextRecord
    <3>3. contexts[i].at \in Labels /\ contexts[i].tab \in {NoTab} \cup 0 .. 4
      BY <3>1 DEF ContextRecord
    <3> QED BY <3>1, <3>2, <3>3 DEF Progress
  <2>5. Running = 2 => iflag /\ contexts[2].at # "idle"
    BY DEF Shape, CursorInv, HandlerInv, HandlerCursor
  <2> QED BY <2>1, <2>2, <2>3, <2>4, <2>5 DEF ConsoleInv, Shape
<1> QED BY <1>1, Invariance, PTL

(***************************************************************************)
(* Whenever start() is between two characters, the cursor is on the page,  *)
(* whatever handlers printed in the middle of the characters before (putc  *)
(* of stdio.c checks the edges only after it moved, with no lock).         *)
(***************************************************************************)
THEOREM CursorStaysOnScreen == Spec => []CursorOnScreen
<1>1. Shape /\ CursorInv => CursorOnScreen
  <2> SUFFICES ASSUME Shape, CursorInv, Running = 1, BetweenCharacters(contexts[1])
               PROVE  /\ g_ScreenX \in 0 .. SCREEN_WIDTH - 1
                      /\ g_ScreenY \in 0 .. SCREEN_HEIGHT - 1
    BY DEF CursorOnScreen
  <2>1. contexts[1].at \in {"idle", "putc"}
    BY DEF BetweenCharacters
  <2> QED BY <2>1, ConsoleAssumption
             DEF Shape, CursorInv, StartInv, AtRest, LastRow, LastColumn
<1> QED BY <1>1, Invariance, PTL

(***************************************************************************)
(* putchr never stores further behind the page than a row and one cell,    *)
(* wherever handlers moved the cursor since putc loaded it.                *)
(***************************************************************************)
THEOREM PutchrStaysNearScreen == Spec => []StoresNearScreen
<1>1. ASSUME NEW x \in Nat, NEW y \in Nat, NEW w \in Nat \ {0}, NEW h \in Nat,
             y <= h, x <= w
      PROVE  y * w + x <= (h + 1) * w
  <2>1. PICK d \in Nat : h = y + d
    <3>1. h - y \in Nat
      BY <1>1
    <3> QED BY <3>1
  <2>2. (h + 1) * w = y * w + d * w + w /\ d * w \in Nat /\ y * w \in Nat
    BY <2>1
  <2> QED BY <1>1, <2>2
<1>2. Shape /\ CursorInv => StoresNearScreen
  <2> SUFFICES ASSUME Shape, CursorInv, NEW i \in 1 .. Running, contexts[i].at = "cell"
               PROVE  CellOf(contexts[i]) <= (SCREEN_HEIGHT + 1) * SCREEN_WIDTH
    BY DEF StoresNearScreen
  <2>1. /\ contexts[i] \in ContextRecord /\ Running \in 1 .. 2
        /\ g_ScreenX \in Nat /\ g_ScreenY \in Nat
    BY DEF Shape, Running
  <2>2. contexts[i].y <= SCREEN_HEIGHT /\ contexts[i].x <= SCREEN_WIDTH
    <3>1. CASE i = 1
      BY <2>1, <3>1, ConsoleAssumption
         DEF CursorInv, StartInv, HandlerInv, StartRegisters, ContextRecord
    <3>2. CASE i = 2
      BY <2>1, <3>2, ConsoleAssumption
         DEF CursorInv, HandlerInv, HandlerRegisters, HandlerCursor, AtRest, LastRow, LastColumn
    <3> QED BY <2>1, <3>1, <3>2
  <2>3. contexts[i].x \in Nat /\ contexts[i].y \in Nat
    BY <2>1 DEF ContextRecord
  <2>4. SCREEN_WIDTH \in Nat \ {0} /\ SCREEN_HEIGHT \in Nat
    BY ConsoleAssumption
  <2> QED BY <1>1, <2>2, <2>3, <2>4 DEF CellOf
<1> QED BY <1>2, Invariance, PTL

(***************************************************************************)
(* The screen, the cursor in memory and the cursor of the VGA show the     *)
(* text put since clrscr, or since the last character in the middle of     *)
(* which a handler printed, on a page of any size that the cursor's two    *)
(* registers can address: whatever is printed, with line feeds, returns,   *)
(* tabs, wraps and scrolling (stdio.c), and whatever handlers print        *)
(* between two characters.                                                 *)
(***************************************************************************)
THEOREM ScreenAlwaysShowsText == Spec => []ScreenShowsText
<1>1. Init => Shape /\ CursorInv /\ TextInv
  BY InitKeeps, InitText
<1>2. Shape /\ CursorInv /\ TextInv /\ [Next]_vars => (Shape /\ CursorInv /\ TextInv)'
  BY NextKeeps, NextText
<1>3. Shape /\ CursorInv /\ TextInv => ScreenShowsText
  <2> SUFFICES ASSUME Shape, TextInv, Running = 1, BetweenCharacters(contexts[1]), ~disturbed
               PROVE  LET hidden == RowsAbove(page) * SCREEN_WIDTH
                          cursor == page.at - hidden
                      IN  /\ screen = [i \in Cells |-> IF hidden + i \in DOMAIN page.cells
                                                         THEN page.cells[hidden + i] ELSE NUL]
                          /\ g_ScreenY * SCREEN_WIDTH + g_ScreenX = cursor
                          /\ page.shown => crtc.low + BYTE * crtc.high = cursor
    BY DEF ScreenShowsText
  <2> DEFINE n == g_ScreenY * SCREEN_WIDTH + g_ScreenX
  <2>1. This = contexts[1] /\ g_ScreenX \in Nat /\ g_ScreenY \in Nat
    BY DEF This, Shape
  <2>2. PICK r \in Nat : Display(r, This, g_ScreenX, g_ScreenY, screen, crtc, page)
    BY DEF TextInv, Displayed
  <2>3. This.at \in {"idle", "putc"} /\ This.tab = NoTab
    BY <2>1 DEF BetweenCharacters
  <2>4. /\ Showing(r, This, g_ScreenX, g_ScreenY, screen, page)
        /\ Marked(This, g_ScreenX, g_ScreenY, crtc, page)
    BY <2>2, <2>3 DEF Display
  <2>5. Seen(This, page) = page /\ Moved(This, g_ScreenX, g_ScreenY) = n
    BY <2>3 DEF Seen, Before, Behind, Moved
  <2>6. /\ Window(page.cells, r, screen) /\ page.at = r * SCREEN_WIDTH + n
        /\ r # 0 => g_ScreenY >= SCREEN_HEIGHT - 1
    BY <2>4, <2>5 DEF Showing
  <2>7. g_ScreenX < SCREEN_WIDTH /\ g_ScreenY < SCREEN_HEIGHT
    BY <2>1, <2>3, ConsoleAssumption DEF TextInv, StartInv, AtRest, LastColumn, LastRow
  <2>8. RowsAbove(page) = r
    BY <2>1, <2>6, <2>7, RowsAboveScreen
  <2>9. n = page.at - r * SCREEN_WIDTH
    <3>1. r * SCREEN_WIDTH \in Nat /\ g_ScreenY * SCREEN_WIDTH \in Nat
      BY <2>1, ConsoleAssumption
    <3> QED BY <2>1, <2>6, <3>1
  <2>10. page.shown => crtc.low + BYTE * crtc.high = n
    BY <2>1, <2>4 DEF Marked
  <2>11. screen = [i \in Cells |-> IF r * SCREEN_WIDTH + i \in DOMAIN page.cells
                                     THEN page.cells[r * SCREEN_WIDTH + i] ELSE NUL]
    BY <2>6 DEF Window
  <2> HIDE DEF n
  <2>12. g_ScreenY * SCREEN_WIDTH + g_ScreenX = n
    BY DEF n
  <2> QED BY <2>8, <2>9, <2>10, <2>11, <2>12
<1> QED BY <1>1, <1>2, <1>3, PTL DEF Spec

(***************************************************************************)
(* What printf of stdio.c puts of a format, read a character at a time and *)
(* with numbers made digit by digit from the last, is the rendering of its *)
(* items one by one with their own arguments: for every message with the   *)
(* arguments its conversions need, of any length, and every size of a word.*)
(***************************************************************************)
THEOREM PrintfAlwaysMeansFormat == Spec => []PrintfMeansFormat
<1>1. Init => Shape /\ CursorInv /\ MessageInv
  <2> SUFFICES ASSUME Init PROVE MessageInv
    BY InitKeeps
  <2>1. contexts = <<IdleContext>> /\ Running = 1 /\ contexts[1] = IdleContext
    BY DEF Init, Running
  <2> QED BY <2>1, NothingFaithful DEF MessageInv, IdleContext
<1>2. Shape /\ CursorInv /\ MessageInv /\ [Next]_vars => (Shape /\ CursorInv /\ MessageInv)'
  BY NextKeeps, NextMessages
<1>3. MessageInv => PrintfMeansFormat
  BY DEF MessageInv, Faithful, PrintfMeansFormat
<1> QED BY <1>1, <1>2, <1>3, PTL DEF Spec
=============================================================================
