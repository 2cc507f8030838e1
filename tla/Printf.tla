--------------------------------- MODULE Printf ---------------------------------
(***************************************************************************)
(* printf of stdio.c as a function: from a format, read character by       *)
(* character by the code's state machine, and the words of its variable    *)
(* arguments on the stack, to the characters it passes to putc.  All of    *)
(* its state is local, so only those calls touch what others see.          *)
(*                                                                         *)
(* Rendered is the reference: what a list of literals and conversions      *)
(* stands for, one by one.                                                 *)
(***************************************************************************)
EXTENDS Integers, SequencesExt

CONSTANTS
  WORD,        \* values of int and of long (2^32)
  Characters,  \* values of char
  CharOf,      \* the character (char)w of a word w
  StringAt,    \* the string at the address w
  STACK_WORD   \* the words on the stack above the arguments

g_HexChars == <<"0", "1", "2", "3", "4", "5", "6", "7", "8", "9",
                "a", "b", "c", "d", "e", "f">>

ASSUME PrintfAssumption ==
  /\ WORD \in Nat /\ WORD >= 2 /\ STACK_WORD \in 0 .. WORD - 1
  /\ g_HexChars \in Seq(Characters) /\ {"%", "-"} \subseteq Characters
  /\ "literal" \notin Characters
  /\ CharOf \in [0 .. WORD - 1 -> Characters]
  /\ StringAt \in [0 .. WORD - 1 -> Seq(Characters)]

DecimalSpecs == {"d", "i", "u"}
HexSpecs == {"x", "X", "p"}
NumberSpecs == DecimalSpecs \cup HexSpecs \cup {"o"}
SignedSpecs == {"d", "i"}

RadixOf(spec) == CASE spec \in DecimalSpecs -> 10
                   [] spec \in HexSpecs -> 16
                   [] spec = "o" -> 8

(* The value of unsigned bits as a two's complement number. *)
Signed(bits, range) == IF 2 * bits >= range THEN bits - range ELSE bits

-----------------------------------------------------------------------------
(* The program. *)

printf_unsigned(number, radix) ==
  LET digits[n \in 0 .. number] ==
        IF n < radix THEN <<g_HexChars[n + 1]>>
                     ELSE Append(digits[n \div radix], g_HexChars[(n % radix) + 1])
  IN  digits[number]

printf_signed(number, radix) ==
  IF number < 0 THEN <<"-">> \o printf_unsigned(-number, radix)
                ELSE printf_unsigned(number, radix)

Fresh == [state |-> "normal", length |-> "default", radix |-> 10,
          sign |-> FALSE, number |-> FALSE, args |-> <<>>, sent |-> <<>>]

(* va_arg: the i-th word of what args points to. *)
Arg(s, i) == IF i <= Len(s.args) THEN s.args[i] ELSE STACK_WORD
Consumed(s, n) == SubSeq(s.args, n + 1, Len(s.args))

Conversion(s, c) ==
  CASE c = "c" -> [s EXCEPT !.sent = Append(@, CharOf[Arg(s, 1)]), !.args = Consumed(s, 1)]
    [] c = "s" -> [s EXCEPT !.sent = @ \o StringAt[Arg(s, 1)], !.args = Consumed(s, 1)]
    [] c = "%" -> [s EXCEPT !.sent = Append(@, "%")]
    [] c \in NumberSpecs ->
         [s EXCEPT !.radix = RadixOf(c), !.sign = c \in SignedSpecs, !.number = TRUE]
    [] OTHER -> s

(* Every length but long long takes one word, short ones included. *)
PrintNumber(s) ==
  LET wide  == s.length = "long long"
      range == IF wide THEN WORD * WORD ELSE WORD
      bits  == IF wide THEN Arg(s, 1) + WORD * Arg(s, 2) ELSE Arg(s, 1)
      chars == IF s.sign THEN printf_signed(Signed(bits, range), s.radix)
                         ELSE printf_unsigned(bits, s.radix)
  IN  IF s.number
        THEN [s EXCEPT !.sent = @ \o chars, !.args = Consumed(s, IF wide THEN 2 ELSE 1)]
        ELSE s

(* Deviation: the reset of the loader's copy, stage2/stdio.c:333-337. *)
ResetAllButNumber(s) ==
  [Fresh EXCEPT !.number = s.number, !.args = s.args, !.sent = s.sent]

(* // reset state *)
ResetState(s) == [Fresh EXCEPT !.args = s.args, !.sent = s.sent]

PRINTF_STATE_SPEC(s, c) == ResetState(PrintNumber(Conversion(s, c)))

FormatCharacter(s, c) ==
  CASE s.state = "normal" /\ c = "%"     -> [s EXCEPT !.state = "length"]
    [] s.state = "normal" /\ c # "%"     -> [s EXCEPT !.sent = Append(@, c)]
    [] s.state = "length" /\ c = "h"     -> [s EXCEPT !.length = "short", !.state = "h"]
    [] s.state = "length" /\ c = "l"     -> [s EXCEPT !.length = "long", !.state = "l"]
    [] s.state = "h" /\ c = "h"          -> [s EXCEPT !.length = "short short", !.state = "spec"]
    [] s.state = "l" /\ c = "l"          -> [s EXCEPT !.length = "long long", !.state = "spec"]
    [] OTHER                             -> PRINTF_STATE_SPEC(s, c)

(* The loop: printf's state after each character of the format. *)
Formatting(fmt, args) ==
  LET after[n \in 0 .. Len(fmt)] == IF n = 0 THEN [Fresh EXCEPT !.args = args]
                                     ELSE FormatCharacter(after[n - 1], fmt[n])
  IN  after

printf(fmt, args) == Formatting(fmt, args)[Len(fmt)].sent

-----------------------------------------------------------------------------
(* The reference: a message is a list of items and the words of their      *)
(* arguments.                                                              *)

Literal(c) == [spec |-> "literal", text |-> <<c>>]
Convert(length, spec) == [spec |-> spec, text |-> length]

Lengths == {<<>>, <<"h">>, <<"h", "h">>, <<"l">>, <<"l", "l">>}
Items == {Literal(c) : c \in Characters \ {"%"}}
           \cup {Convert(length, spec) : length \in Lengths, spec \in Characters \ {"h", "l"}}

Spelled(item) == IF item.spec = "literal" THEN item.text
                                          ELSE <<"%">> \o item.text \o <<item.spec>>

FormatUpTo(items) ==
  LET format[i \in 0 .. Len(items)] == IF i = 0 THEN <<>> ELSE format[i - 1] \o Spelled(items[i])
  IN  format
FormatOf(items) == FormatUpTo(items)[Len(items)]

IsWide(item) == item.spec \in NumberSpecs /\ item.text = <<"l", "l">>
WordsOf(item) == IF IsWide(item) THEN 2
                 ELSE IF item.spec \in NumberSpecs \cup {"c", "s"} THEN 1 ELSE 0

Power(base, exponent) ==
  LET power[n \in 0 .. exponent] == IF n = 0 THEN 1 ELSE base * power[n - 1]
  IN  power[exponent]

(* The shortest numeral that stands for a number. *)
HasLength(number, radix, n) ==
  number < Power(radix, n) /\ (n > 1 => number >= Power(radix, n - 1))
Numeral(number, radix) ==
  LET length == CHOOSE n \in 1 .. number + 1 : HasLength(number, radix, n)
  IN  [i \in 1 .. length |-> g_HexChars[((number \div Power(radix, length - i)) % radix) + 1]]

RenderedNumber(spec, bits, range) ==
  LET value == IF spec \in SignedSpecs THEN Signed(bits, range) ELSE bits
  IN  IF value < 0 THEN <<"-">> \o Numeral(0 - value, RadixOf(spec))
                   ELSE Numeral(value, RadixOf(spec))

RenderedItem(item, args) ==
  CASE item.spec = "literal" -> item.text
    [] item.spec = "%"       -> <<"%">>
    [] item.spec = "c"       -> <<CharOf[args[1]]>>
    [] item.spec = "s"       -> StringAt[args[1]]
    [] IsWide(item)          -> RenderedNumber(item.spec, args[1] + WORD * args[2], WORD * WORD)
    [] item.spec \in NumberSpecs /\ ~IsWide(item) -> RenderedNumber(item.spec, args[1], WORD)
    [] OTHER                 -> <<>>

(* What the items up to each say, and the words they leave. *)
Render(so_far, item) ==
  [text |-> so_far.text \o RenderedItem(item, so_far.left),
   left |-> SubSeq(so_far.left, WordsOf(item) + 1, Len(so_far.left))]

RenderedUpTo(items, args) ==
  LET rendered[i \in 0 .. Len(items)] ==
        IF i = 0 THEN [text |-> <<>>, left |-> args] ELSE Render(rendered[i - 1], items[i])
  IN  rendered
Rendered(items, args) == RenderedUpTo(items, args)[Len(items)].text

(* A call as the compiler's check of formats wants it: every conversion    *)
(* finds its words.                                                        *)
IsCall(items, args) ==
  /\ items \in Seq(Items) /\ args \in Seq(0 .. WORD - 1)
  /\ \A i \in 1 .. Len(items) : WordsOf(items[i]) <= Len(RenderedUpTo(items, args)[i - 1].left)
=============================================================================
