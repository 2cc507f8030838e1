------------------------------- MODULE MCConsole -------------------------------
(***************************************************************************)
(* A page of 2 rows of 4 cells, words of 2 bits, the kernel's own messages *)
(* in short, and formats with every length.                                *)
(***************************************************************************)
EXTENDS Console

MCCharacters == {"0", "1", "2", "3", "4", "5", "6", "7", "8", "9", "a", "b", "c", "d", "e", "f",
                 "%", "-", "h", "l", "i", "u", "x", "o", "s", "F", "H", "P", ".", "\t", "\n", "\r"}

MCChars == [w \in 0 .. WORD - 1 |-> IF w = 3 THEN "\t" ELSE "c"]

(* The name of the PIC driver, "8259 PIC", with a tab for its blank. *)
MCStrings == [w \in 0 .. WORD - 1 |-> IF w = 0 THEN <<>> ELSE <<"8", "\t", "P">>]

Message(items, args) == [items |-> items, args |-> args]

(* "Found %s PIC.\n" *)
MCBootMessage == Message(<<Literal("F"), Convert(<<>>, "s"), Literal("\n")>>, <<1>>)

MCMessages == {
  Message(<<Literal("H"), Literal("\t"), Convert(<<"h">>, "i"), Literal("\n")>>, <<1>>),
  Message(<<Convert(<<>>, "d"), Convert(<<>>, "s"), Literal("\r"), Convert(<<>>, "c")>>, <<3, 0, 3>>),
  Message(<<Convert(<<"l", "l">>, "i"), Convert(<<"l", "l">>, "x"), Convert(<<>>, "%")>>, <<0, 2, 2, 2>>),
  Message(<<Convert(<<"l", "l">>, "o"), Convert(<<"h", "h">>, "d"), Convert(<<"l">>, "u"), Literal("\n")>>, <<1, 2, 2, 3>>)
}

(* timer's ".", and "Unhandled IRQ %d...\n". *)
MCHandlerMessages == {
  Message(<<Literal(".")>>, <<>>),
  Message(<<Convert(<<>>, "d"), Literal("\n")>>, <<1>>)
}
=============================================================================
