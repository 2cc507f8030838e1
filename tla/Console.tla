--------------------------------- MODULE Console ---------------------------------
(***************************************************************************)
(* The kernel's text console, stdio.c, with the accesses to g_ScreenX and  *)
(* g_ScreenY one at a time (the build does not optimise: every use is a    *)
(* load, every ++ a load and a store), as start() uses it and as interrupt *)
(* handlers that print do between any two of these accesses.  A handler    *)
(* runs with interrupts disabled, so at most one is under way.             *)
(*                                                                         *)
(* A context is a call of printf or clrscr: the characters to put, the     *)
(* one in progress, where in putc it is, and its two registers.            *)
(***************************************************************************)
EXTENDS Printf

CONSTANTS
  SCREEN_WIDTH, SCREEN_HEIGHT,
  BYTE,            \* values of a cursor register of the VGA (256)
  Messages,        \* [items, args] that start() prints after clrscr
  BootMessage,     \* what i686_IRQ_Initialize prints before sti
  HandlerMessages, \* what interrupt handlers print
  MAX_CALLS,       \* bound: calls start() makes, sti included
  MAX_TICKS        \* bound: interrupts in a behaviour

\* The widths that make a tab at one edge like a tab at any: multiples of 4.
ASSUME ConsoleAssumption ==
  /\ SCREEN_WIDTH \in Nat \ {0} /\ SCREEN_WIDTH % 4 = 0
  /\ SCREEN_HEIGHT \in Nat /\ SCREEN_HEIGHT >= 2
  /\ BYTE \in Nat \ {0} /\ SCREEN_WIDTH * SCREEN_HEIGHT <= BYTE * BYTE
  /\ MAX_CALLS \in Nat /\ MAX_TICKS \in Nat

\* What printf puts of a message.
TextOf(m) == printf(FormatOf(m.items), m.args)

\* The messages have the arguments their conversions need.
ASSUME MessageAssumption ==
  \A m \in Messages \cup HandlerMessages \cup {BootMessage} : IsCall(m.items, m.args)

Cells == 0 .. SCREEN_WIDTH * SCREEN_HEIGHT - 1
NUL == "NUL"
NoTab == -1

VARIABLES
  g_ScreenX, g_ScreenY,
  screen,    \* g_ScreenBuffer: the characters, row by row
  crtc,      \* the VGA's index register and its cursor registers 14 and 15
  iflag,
  contexts,  \* <<start()>>, or <<start(), handler>>
  calls, ticks,
  page,      \* ghost: what the text put so far makes of a page without bottom
  disturbed  \* ghost: did a handler print while start() was inside a putc?

cursorVars == <<g_ScreenX, g_ScreenY>>
clientVars == <<iflag, calls, ticks>>
ghostVars == <<page, disturbed>>
vars == <<cursorVars, screen, crtc, contexts, clientVars, ghostVars>>

Labels == {"idle", "putc", "tab", "position", "cell", "advance", "advanced",
           "newline", "newlined", "wrap", "wrapLine", "wrappedLine", "wrapColumn",
           "bottom", "scroll", "scrolled", "clear", "clearX", "clearY",
           "cursorY", "cursorX", "index15", "low", "index14", "high"}

Context(at, message, text) ==
  [at |-> at, message |-> message, text |-> text, n |-> 1, tab |-> NoTab, x |-> 0, y |-> 0]

NoMessage == [items |-> <<>>, args |-> <<>>]
IdleContext == Context("idle", NoMessage, <<>>)
Printing(m) == Context("putc", m, TextOf(m))
Clearing == Context("clear", NoMessage, <<>>)

Running == Len(contexts)
This == contexts[Running]
Char == IF This.tab = NoTab THEN This.text[This.n] ELSE " "

BetweenCharacters(k) == k.at \in {"idle", "putc"} /\ k.tab = NoTab

Init ==
  /\ g_ScreenX = 0 /\ g_ScreenY = 0
  /\ screen = [i \in Cells |-> "?"]
  /\ crtc = [index |-> 0, low |-> 0, high |-> 0]
  /\ iflag = FALSE
  /\ contexts = <<IdleContext>>
  /\ calls = 0 /\ ticks = 0
  /\ page = [cells |-> screen, at |-> 0, shown |-> FALSE]
  /\ disturbed = FALSE

-----------------------------------------------------------------------------
(* Micro-steps: each goes on to a label, some load a register.             *)

At(label) == This.at = label
Goto(label) == contexts' = [contexts EXCEPT ![Running].at = label]
LoadX(label) == contexts' = [contexts EXCEPT ![Running].at = label, ![Running].x = g_ScreenX]
LoadY(label) == contexts' = [contexts EXCEPT ![Running].at = label, ![Running].y = g_ScreenY]

Keep == UNCHANGED <<cursorVars, screen, crtc>>
SetX(value) == g_ScreenX' = value /\ UNCHANGED <<g_ScreenY, screen, crtc>>
SetY(value) == g_ScreenY' = value /\ UNCHANGED <<g_ScreenX, screen, crtc>>

(* The switch of putc. *)
PutcNewline == At("putc") /\ Char = "\n" /\ SetX(0) /\ Goto("newline")
PutcReturn  == At("putc") /\ Char = "\r" /\ SetX(0) /\ Goto("wrap")
PutcTab     == At("putc") /\ Char = "\t" /\ Keep
               /\ contexts' = [contexts EXCEPT ![Running].at = "tab", ![Running].tab = 0]
PutcDefault == At("putc") /\ Char \notin {"\n", "\r", "\t"} /\ Keep /\ LoadY("position")

PutcChar ==
  /\ This.n <= Len(This.text)
  /\ PutcNewline \/ PutcReturn \/ PutcTab \/ PutcDefault

(* The tab loop: its bound is computed again before each blank. *)
TabLoop ==
  /\ At("tab") /\ Keep
  /\ IF This.tab < 4 - (g_ScreenX % 4)
       THEN Goto("putc")
       ELSE contexts' = [contexts EXCEPT ![Running].at = "wrap", ![Running].tab = NoTab]

(* putchr, its arguments pushed from the last to the first.  Memory behind *)
(* the page exists, but is not shown.                                      *)
Position == At("position") /\ Keep /\ LoadX("cell")
CellOf(k) == k.y * SCREEN_WIDTH + k.x
putchr ==
  /\ At("cell") /\ Goto("advance")
  /\ screen' = [i \in Cells |-> IF i = CellOf(This) THEN Char ELSE screen[i]]
  /\ UNCHANGED <<cursorVars, crtc>>

(* g_ScreenX++ *)
Advance ==
  \/ At("advance") /\ Keep /\ LoadX("advanced")
  \/ At("advanced") /\ SetX(This.x + 1) /\ Goto("wrap")

(* g_ScreenY++ of a newline, and of a wrap. *)
Newline ==
  \/ At("newline") /\ Keep /\ LoadY("newlined")
  \/ At("newlined") /\ SetY(This.y + 1) /\ Goto("wrap")

(* Deviation: one column too late. *)
PastEdgeLate == g_ScreenX > SCREEN_WIDTH
PastEdge == g_ScreenX >= SCREEN_WIDTH
Wrap ==
  \/ At("wrap") /\ Keep /\ Goto(IF PastEdge THEN "wrapLine" ELSE "bottom")
  \/ At("wrapLine") /\ Keep /\ LoadY("wrappedLine")
  \/ At("wrappedLine") /\ SetY(This.y + 1) /\ Goto("wrapColumn")
  \/ At("wrapColumn") /\ SetX(0) /\ Goto("bottom")

(* Deviation: one row too late. *)
PastBottomLate == g_ScreenY > SCREEN_HEIGHT
PastBottom == g_ScreenY >= SCREEN_HEIGHT
Bottom == At("bottom") /\ Keep /\ Goto(IF PastBottom THEN "scroll" ELSE "cursorY")

(* Deviation: the last row keeps what it showed. *)
ScrolledKeepingLast(lines) ==
  [i \in Cells |-> LET from == i + lines * SCREEN_WIDTH
                   IN  IF from \in Cells THEN screen[from] ELSE screen[i]]
Scrolled(lines) ==
  [i \in Cells |-> LET from == i + lines * SCREEN_WIDTH
                   IN  IF from \in Cells THEN screen[from] ELSE NUL]

(* Deviation: the cursor stays where it was. *)
scrollbackInPlace ==
  \/ At("scroll") /\ screen' = Scrolled(1) /\ LoadY("scrolled") /\ UNCHANGED <<cursorVars, crtc>>
  \/ At("scrolled") /\ Keep /\ Goto("cursorY")

(* scrollback(1): the copying, up to the load of g_ScreenY, and the store. *)
scrollback ==
  \/ At("scroll") /\ screen' = Scrolled(1) /\ LoadY("scrolled") /\ UNCHANGED <<cursorVars, crtc>>
  \/ At("scrolled") /\ SetY(This.y - 1) /\ Goto("cursorY")

Blank == [i \in Cells |-> NUL]
clrscr ==
  \/ At("clear") /\ screen' = Blank /\ Goto("clearX") /\ UNCHANGED <<cursorVars, crtc>>
  \/ At("clearX") /\ SetX(0) /\ Goto("clearY")
  \/ At("clearY") /\ SetY(0) /\ Goto("cursorY")

(* setcursor: two arguments and four port writes, all but the last. *)
SelectRegister(index) == crtc' = [crtc EXCEPT !.index = index] /\ UNCHANGED <<cursorVars, screen>>
WriteRegister(value) ==
  /\ crtc' = CASE crtc.index = 15 -> [crtc EXCEPT !.low = value]
               [] crtc.index = 14 -> [crtc EXCEPT !.high = value]
  /\ UNCHANGED <<cursorVars, screen>>

setcursor ==
  \/ At("cursorY") /\ Keep /\ LoadY("cursorX")
  \/ At("cursorX") /\ Keep /\ LoadX("index15")
  \/ At("index15") /\ SelectRegister(15) /\ Goto("low")
  \/ At("low") /\ WriteRegister(CellOf(This) % BYTE) /\ Goto("index14")
  \/ At("index14") /\ SelectRegister(14) /\ Goto("high")

(* Deviation: the loop's counter is lost. *)
NextCharUncounted(k) == [k EXCEPT !.at = IF k.tab = NoTab THEN "putc" ELSE "tab",
                                  !.n = IF k.tab = NoTab THEN @ + 1 ELSE @]

(* The next character of the text, or the next blank of a tab. *)
NextChar(k) == IF k.tab = NoTab THEN [k EXCEPT !.at = "putc", !.n = @ + 1]
                                ELSE [k EXCEPT !.at = "tab", !.tab = @ + 1]

(* The reference: text typed on a page without bottom, whose cells are     *)
(* numbered through; the screen shows the last rows down to the cursor.    *)
(* The loop of a tab prints 2, 2, 1 or 3 blanks.                           *)
Sheet(cells, at) == [cells |-> cells, at |-> at, shown |-> TRUE]

Fill(sheet, char, n) ==
  LET filled == sheet.at .. sheet.at + n - 1
  IN  Sheet([i \in DOMAIN sheet.cells \cup filled |-> IF i \in filled THEN char ELSE sheet.cells[i]],
            sheet.at + n)

Blanks(at) == <<2, 2, 1, 3>>[(at % 4) + 1]

Type(sheet, char) ==
  CASE char = "\n" -> Sheet(sheet.cells, (sheet.at \div SCREEN_WIDTH + 1) * SCREEN_WIDTH)
    [] char = "\r" -> Sheet(sheet.cells, sheet.at - (sheet.at % SCREEN_WIDTH))
    [] char = "\t" -> Fill(sheet, " ", Blanks(sheet.at))
    [] OTHER       -> Fill(sheet, char, 1)

Snapshot == [cells |-> screen, at |-> g_ScreenY * SCREEN_WIDTH + g_ScreenX, shown |-> FALSE]

(* The last write of setcursor, with which putc and clrscr return. *)
PutcReturns ==
  /\ At("high")
  /\ WriteRegister((CellOf(This) \div BYTE) % BYTE)
  /\ contexts' = [contexts EXCEPT ![Running] = NextChar(This)]
  /\ IF This.tab # NoTab THEN UNCHANGED ghostVars
     ELSE IF disturbed /\ Running = 1
       THEN page' = Snapshot /\ disturbed' = FALSE
       ELSE /\ page' = IF This.n <= Len(This.text) THEN Type(page, Char) ELSE page
            /\ UNCHANGED disturbed

-----------------------------------------------------------------------------
(* The callers. *)

(* printf or clrscr returns: to start(), or from the interrupt. *)
CallReturns ==
  /\ At("putc") /\ This.n > Len(This.text)
  /\ contexts' = IF Running = 1 THEN <<IdleContext>> ELSE Front(contexts)
  /\ UNCHANGED <<cursorVars, screen, crtc, clientVars, ghostVars>>

Calling == Running = 1 /\ At("idle") /\ calls < MAX_CALLS /\ calls' = calls + 1

PrintBoot ==
  /\ Calling /\ calls = 0
  /\ contexts' = <<Printing(BootMessage)>>
  /\ UNCHANGED <<cursorVars, screen, crtc, iflag, ticks, ghostVars>>

EnableInterrupts ==
  /\ Calling /\ calls = 1
  /\ iflag' = TRUE
  /\ UNCHANGED <<cursorVars, screen, crtc, contexts, ticks, ghostVars>>

ClearScreen ==
  /\ Calling /\ calls = 2
  /\ contexts' = <<Clearing>>
  /\ page' = Sheet(Blank, 0)
  /\ disturbed' = FALSE
  /\ UNCHANGED <<cursorVars, screen, crtc, iflag, ticks>>

PrintMessage ==
  /\ Calling /\ calls > 2
  /\ \E m \in Messages : contexts' = <<Printing(m)>>
  /\ UNCHANGED <<cursorVars, screen, crtc, iflag, ticks, ghostVars>>

Tick ==
  /\ iflag /\ Running = 1 /\ ticks < MAX_TICKS
  /\ ticks' = ticks + 1
  /\ \E m \in HandlerMessages : contexts' = Append(contexts, Printing(m))
  /\ disturbed' = (disturbed \/ ~BetweenCharacters(contexts[1]))
  /\ UNCHANGED <<cursorVars, screen, crtc, iflag, calls, page>>

(* end: for (;;), after the last call. *)
Idle == Running = 1 /\ At("idle") /\ calls = MAX_CALLS /\ UNCHANGED vars

MicroStep ==
  /\ \/ PutcChar \/ TabLoop \/ Position \/ putchr \/ Advance \/ Newline \/ Wrap
     \/ Bottom \/ scrollback \/ clrscr \/ setcursor
  /\ UNCHANGED <<clientVars, ghostVars>>

Console == MicroStep \/ (PutcReturns /\ UNCHANGED clientVars) \/ CallReturns

Next == Console \/ PrintBoot \/ EnableInterrupts \/ ClearScreen \/ PrintMessage \/ Tick \/ Idle

Spec == Init /\ [][Next]_vars
FairSpec == Spec /\ WF_vars(Console)

-----------------------------------------------------------------------------
(* Properties. *)

(***************************************************************************)
(* Types, and how far the cursor may ever be out: one column, and two      *)
(* rows, past the last.                                                    *)
(***************************************************************************)
ConsoleInv ==
  /\ g_ScreenX \in 0 .. SCREEN_WIDTH + 1
  /\ g_ScreenY \in 0 .. SCREEN_HEIGHT + 1
  /\ DOMAIN screen = Cells
  /\ crtc.index \in {0, 14, 15} /\ {crtc.low, crtc.high} \subseteq 0 .. BYTE - 1
  /\ Running \in 1 .. 2
  /\ \A i \in 1 .. Running :
       /\ contexts[i].at \in Labels
       /\ contexts[i].tab \in {NoTab} \cup 0 .. 4
       /\ contexts[i].n \in 1 .. (IF contexts[i].text = <<>> THEN 2 ELSE Len(contexts[i].text) + 1)
  /\ Running = 2 => iflag /\ contexts[2].at # "idle"

(***************************************************************************)
(* Whenever start() is not inside a putc or clrscr (and no handler runs),  *)
(* the cursor is on the screen, whatever handlers did to it in between     *)
(* (putc of stdio.c has no lock, and checks the edges only after it moved).*)
(***************************************************************************)
CursorOnScreen ==
  Running = 1 /\ BetweenCharacters(contexts[1]) =>
    /\ g_ScreenX \in 0 .. SCREEN_WIDTH - 1
    /\ g_ScreenY \in 0 .. SCREEN_HEIGHT - 1

(***************************************************************************)
(* putchr stores inside the page, or, when a handler prints while start()  *)
(* is between a move and its check, at most one row and one cell behind    *)
(* it: never somewhere else in memory.                                     *)
(***************************************************************************)
StoresNearScreen ==
  \A i \in 1 .. Running :
    contexts[i].at = "cell" => CellOf(contexts[i]) <= (SCREEN_HEIGHT + 1) * SCREEN_WIDTH

RowsAbove(sheet) ==
  LET row == sheet.at \div SCREEN_WIDTH
  IN  IF row >= SCREEN_HEIGHT THEN row - (SCREEN_HEIGHT - 1) ELSE 0

(***************************************************************************)
(* The screen, the cursor in memory and the cursor of the VGA show the     *)
(* text put since clrscr, or since the last character in the middle of     *)
(* which a handler printed: such a race spoils what is there, not what is  *)
(* printed afterwards.  What handlers print between two characters is      *)
(* shown like any other text.                                              *)
(***************************************************************************)
ScreenShowsText ==
  Running = 1 /\ BetweenCharacters(contexts[1]) /\ ~disturbed =>
    LET hidden == RowsAbove(page) * SCREEN_WIDTH
        cursor == page.at - hidden
    IN  /\ screen = [i \in Cells |-> IF hidden + i \in DOMAIN page.cells
                                       THEN page.cells[hidden + i] ELSE NUL]
        /\ g_ScreenY * SCREEN_WIDTH + g_ScreenX = cursor
        /\ page.shown => crtc.low + BYTE * crtc.high = cursor

(***************************************************************************)
(* What printf puts is the rendering of its items, each with its own       *)
(* arguments: the state of one conversion does not reach the next.         *)
(***************************************************************************)
PrintfMeansFormat ==
  \A i \in 1 .. Running :
    contexts[i].n = 1 /\ contexts[i].at = "putc" =>
      contexts[i].text = Rendered(contexts[i].message.items, contexts[i].message.args)

(***************************************************************************)
(* A call of printf or clrscr returns, although the bound of the tab loop  *)
(* moves with the cursor and handlers move the cursor.                     *)
(***************************************************************************)
PrintReturns == (contexts[1].at # "idle") ~> (contexts[1].at = "idle")
=============================================================================
