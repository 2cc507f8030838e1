---------------------------- MODULE InterruptProofs ----------------------------
(***************************************************************************)
(* Proofs about Interrupts, for any lines, drivers, handlers and faults    *)
(* and any depth of nesting: the words on the stack are those iret and the *)
(* handlers take them for; interrupts are enabled only when the kernel is  *)
(* ready for them; g_PicMask is what the chips mask; a panic is final; an  *)
(* input is in service while its handler has to end it; no masked line is  *)
(* served.                                                                 *)
(***************************************************************************)
EXTENDS Interrupts, SequenceTheorems, TLAPS

WordRecord ==
  [field : {"eflags", "cs", "eip", "error", "interrupt", "pusha", "ds", "local"},
   value : Nat]

Frames == stack \in Seq(WordRecord) /\ StackMatchesContexts

\* What interrupts leave to write are ends of interrupts, by handlers of lines.
Handlers ==
  /\ VectorIsLine
  /\ \A k \in 1 .. Depth :
       /\ contexts[k].at = "irq" => contexts[k].vector \in IrqVectors
       /\ \A i \in 1 .. Len(writes[k + 1]) :
            writes[k + 1][i].port = "command" /\ writes[k + 1][i].byte = EOI
  /\ mode \in {"inta", "cascade"} => pc = "running" /\ fitted

\* How far the boot has come.
BootState ==
  /\ gates = {} \/ Vectors \ {SYSCALL} \subseteq gates
  /\ Depth > 0 => gates # {}
  /\ pc # "idt" => idtLoaded
  /\ pc \notin {"idt", "isr"} => Vectors \ {SYSCALL} \subseteq gates
  /\ pc \in {"configure", "sti"} => fitted
  /\ pc = "sti" \/ (pc = "running" /\ fitted) => IrqVectors \subseteq isrHandlers
  /\ isrHandlers \cap (0 .. 31) # {} => pc = "running"

\* The port writes of i8259_Configure(32, 40), one by one.
ConfigWrite ==
  <<Data(1, 255), Data(2, 255), Command(1, ICW1), Command(2, ICW1),
    Data(1, 32), Data(2, 40), Data(1, 4), Data(2, 2), Data(1, 1), Data(2, 1),
    Data(1, 255), Data(2, 255)>>

\* What the chips have been told after n of them.
Told(n) ==
  /\ pics[1].expects = (IF n \in 3 .. 4 THEN "icw2" ELSE IF n \in 5 .. 6 THEN "icw3"
                        ELSE IF n \in 7 .. 8 THEN "icw4" ELSE "mask")
  /\ pics[2].expects = (IF n \in 4 .. 5 THEN "icw2" ELSE IF n \in 6 .. 7 THEN "icw3"
                        ELSE IF n \in 8 .. 9 THEN "icw4" ELSE "mask")
  /\ n >= 5 => pics[1].offset = 32
  /\ n >= 6 => pics[2].offset = 40
  /\ n >= 11 => pics[1].imr = 255
  /\ n >= 12 => pics[2].imr = 255

\* The writes of start() that are left, n of ConfigWrite done.
LeftAfter(n) ==
  /\ Len(writes[1]) = 12 - n
  /\ \A i \in 1 .. 12 - n : writes[1][i] = ConfigWrite[n + i]

MasksOnly == \A i \in 1 .. Len(writes[1]) : writes[1][i].port = "data"

\* Initialised: vectors behind the exceptions, data bytes are masks.
Configured ==
  /\ pics[1].expects = "mask" /\ pics[1].offset = 32
  /\ pics[2].expects = "mask" /\ pics[2].offset = 40

\* The chips' masks are g_PicMask once start() has made its writes.
MaskTold ==
  \/ writes[1] = i8259_SetMask(picMask)
  \/ /\ writes[1] = <<Data(2, picMask \div 256)>>
     /\ pics[1].imr = picMask % 256
  \/ /\ writes[1] = <<>>
     /\ pics[1].imr = picMask % 256 /\ pics[2].imr = picMask \div 256

ChipsTold ==
  /\ pc \in {"idt", "isr", "irq"} => writes[1] = <<>>
  /\ pc \in {"idt", "isr", "irq", "probe"} => Told(0) /\ MasksOnly
  /\ pc = "configure" =>
       picMask = ALL_MASKED /\ \E n \in 0 .. 12 : Told(n) /\ LeftAfter(n)
  /\ pc \in {"sti", "running"} =>
       IF fitted THEN Configured /\ MaskTold ELSE writes[1] = <<>>

Ready == pc = "running" /\ fitted

\* Without an NMI handler, no program that was left for good is gone back to.
Final ==
  NMI \notin isrHandlers =>
    /\ iflag => Ready
    /\ \A k \in 1 .. Depth :
         /\ contexts[k].iflag => Ready
         /\ contexts[k].at = "ret" =>
              contexts[k].vector \in isrHandlers \/ contexts[k].vector >= 32
         /\ contexts[k].at = "hlt" =>
              \/ k = Depth /\ mode \in {"halt", "reset"}
              \/ k < Depth /\ contexts[k + 1].vector = NMI

IInv == KernelTypeOK /\ Frames /\ Handlers /\ BootState /\ ChipsTold /\ Final

-----------------------------------------------------------------------------
(* What an entry pushes.                                                   *)

LEMMA PushedFrame ==
  ASSUME NEW v \in Vectors, NEW e \in Nat, NEW line, Depth \in Nat,
         (v \in CpuErrorCodes /\ line = NoLine) <=> v \in ISRS_WITH_ERROR_CODE,
         v \notin ISRS_WITH_ERROR_CODE => e = 0
  PROVE  LET p == Pushed(v, e, line) IN
         /\ p \in Seq(WordRecord) /\ Len(p) = 7
         /\ p[1].value = (IF iflag THEN 1 ELSE 0) /\ p[3].value = Depth
         /\ p[4].value = e /\ p[5].value = v
<1> DEFINE a == <<Word("eflags", IF iflag THEN 1 ELSE 0), Word("cs", 8), Word("eip", Depth)>>
           b == IF v \in CpuErrorCodes /\ line = NoLine THEN <<Word("error", e)>> ELSE <<>>
           c == IF v \in ISRS_WITH_ERROR_CODE THEN <<>> ELSE <<Word("error", 0)>>
           d == <<Word("interrupt", v), Word("pusha", Depth), Word("ds", 16)>>
           p == Pushed(v, e, line)
<1>1. p = ((a \o b) \o c) \o d
  BY DEF Pushed
<1>2. v \in Nat
  BY DEF Vectors
<1>3. /\ a \in Seq(WordRecord) /\ Len(a) = 3
      /\ a[1].value = (IF iflag THEN 1 ELSE 0) /\ a[3].value = Depth
  BY DEF Word, WordRecord
<1>4. /\ d \in Seq(WordRecord) /\ Len(d) = 3 /\ d[1].value = v
  BY <1>2 DEF Word, WordRecord
<1>5. /\ b \in Seq(WordRecord) /\ c \in Seq(WordRecord)
      /\ \/ Len(b) = 1 /\ b[1].value = e /\ Len(c) = 0
         \/ Len(b) = 0 /\ Len(c) = 1 /\ c[1].value = e
  <2>1. <<Word("error", e)>> \in Seq(WordRecord) /\ Len(<<Word("error", e)>>) = 1
        /\ <<Word("error", e)>>[1].value = e
    BY DEF Word, WordRecord
  <2>2. CASE v \in ISRS_WITH_ERROR_CODE
    <3>1. b = <<Word("error", e)>> /\ c = <<>>
      BY <2>2
    <3> QED BY <2>1, <3>1
  <2>3. CASE v \notin ISRS_WITH_ERROR_CODE
    <3>1. b = <<>> /\ c = <<Word("error", e)>>
      BY <2>3
    <3> QED BY <2>1, <3>1
  <2> QED BY <2>2, <2>3
<1> HIDE DEF a, b, c, d, p
<1> DEFINE ab == a \o b
           abc == ab \o c
<1>6. /\ ab \in Seq(WordRecord) /\ Len(ab) = 3 + Len(b)
      /\ \A i \in 1 .. 3 + Len(b) : ab[i] = IF i <= 3 THEN a[i] ELSE b[i - 3]
  <2>1. /\ a \o b \in Seq(WordRecord) /\ Len(a \o b) = Len(a) + Len(b)
        /\ \A i \in 1 .. Len(a) + Len(b) :
             (a \o b)[i] = IF i <= Len(a) THEN a[i] ELSE b[i - Len(a)]
    <3>1. a \in Seq(WordRecord) /\ b \in Seq(WordRecord)
      BY <1>3, <1>5
    <3> QED BY <3>1, ConcatProperties
  <2> QED BY <1>3, <2>1 DEF ab
<1> HIDE DEF ab
<1>7. /\ abc \in Seq(WordRecord) /\ Len(abc) = 4
      /\ \A i \in 1 .. 4 : abc[i] = IF i <= 3 + Len(b) THEN ab[i] ELSE c[i - (3 + Len(b))]
  <2>1. Len(ab) + Len(c) = 4 /\ Len(ab) = 3 + Len(b)
    <3>1. \/ Len(b) = 1 /\ Len(c) = 0
          \/ Len(b) = 0 /\ Len(c) = 1
      BY <1>5
    <3>2. Len(ab) = 3 + Len(b)
      BY <1>6
    <3>3. CASE Len(b) = 1 /\ Len(c) = 0
      <4>1. Len(ab) = 4
        BY <3>2, <3>3
      <4> QED BY <4>1, <3>2, <3>3
    <3>4. CASE Len(b) = 0 /\ Len(c) = 1
      <4>1. Len(ab) = 3
        BY <3>2, <3>4
      <4> QED BY <4>1, <3>2, <3>4
    <3> QED BY <3>1, <3>3, <3>4
  <2>2. /\ ab \o c \in Seq(WordRecord) /\ Len(ab \o c) = Len(ab) + Len(c)
        /\ \A i \in 1 .. Len(ab) + Len(c) :
             (ab \o c)[i] = IF i <= Len(ab) THEN ab[i] ELSE c[i - Len(ab)]
    <3>1. ab \in Seq(WordRecord) /\ c \in Seq(WordRecord)
      BY <1>5, <1>6
    <3> QED BY <3>1, ConcatProperties
  <2> QED BY <2>1, <2>2 DEF abc
<1> HIDE DEF abc
<1>8. abc[1] = a[1] /\ abc[3] = a[3] /\ abc[4].value = e
  <2>1. abc[1] = a[1] /\ abc[3] = a[3]
    BY <1>5, <1>6, <1>7
  <2>2. abc[4].value = e
    BY <1>5, <1>6, <1>7
  <2> QED BY <2>1, <2>2
<1>9. /\ p \in Seq(WordRecord) /\ Len(p) = 7
      /\ \A i \in 1 .. 7 : p[i] = IF i <= 4 THEN abc[i] ELSE d[i - 4]
  <2>1. p = abc \o d
    BY <1>1 DEF abc, ab
  <2>2. /\ abc \o d \in Seq(WordRecord) /\ Len(abc \o d) = Len(abc) + Len(d)
        /\ \A i \in 1 .. Len(abc) + Len(d) :
             (abc \o d)[i] = IF i <= Len(abc) THEN abc[i] ELSE d[i - Len(abc)]
    <3>1. abc \in Seq(WordRecord) /\ d \in Seq(WordRecord)
      BY <1>4, <1>7
    <3> QED BY <3>1, ConcatProperties
  <2> QED BY <1>4, <1>7, <2>1, <2>2
<1>10. p[1] = a[1] /\ p[3] = a[3] /\ p[4].value = e /\ p[5] = d[1]
  BY <1>8, <1>9
<1> QED BY <1>3, <1>4, <1>9, <1>10 DEF p

-----------------------------------------------------------------------------
(* Frames: the words of a context are where its handler looks for them.    *)

LEMMA TopFacts ==
  ASSUME KernelTypeOK, Frames, Depth > 0
  PROVE  /\ Depth \in Nat /\ Top \in ContextRecord
         /\ Regs("interrupt") = Top.vector /\ Regs("eip") = Depth - 1
         /\ (Regs("eflags") = 1) <=> Top.iflag
<1>1. Depth \in Nat /\ Depth \in 1 .. Depth
  BY LenProperties DEF KernelTypeOK, CpuVarsOK, Depth
<1>2. Top \in ContextRecord
  BY <1>1, ElementOfSeq DEF KernelTypeOK, CpuVarsOK, Depth, Top
<1>3. /\ Len(stack) = 2 + 7 * Depth
      /\ stack[2 + 7 * (Depth - 1) + 1].value = (IF Top.iflag THEN 1 ELSE 0)
      /\ stack[2 + 7 * (Depth - 1) + 3].value = Depth - 1
      /\ stack[2 + 7 * (Depth - 1) + 5].value = Top.vector
  BY <1>1 DEF Frames, StackMatchesContexts, Top
<1>4. /\ Len(stack) - 6 = 2 + 7 * (Depth - 1) + 1
      /\ Len(stack) - 4 = 2 + 7 * (Depth - 1) + 3
      /\ Len(stack) - 2 = 2 + 7 * (Depth - 1) + 5
  BY <1>1, <1>3
<1>5. /\ Regs("interrupt") = stack[Len(stack) - 2].value
      /\ Regs("eip") = stack[Len(stack) - 4].value
      /\ Regs("eflags") = stack[Len(stack) - 6].value
  BY DEF Regs, Offset
<1>6. Top.iflag \in BOOLEAN
  BY <1>2 DEF ContextRecord
<1>7. (IF Top.iflag THEN 1 ELSE 0) = 1 <=> Top.iflag
  BY <1>6
<1> QED BY <1>1, <1>2, <1>3, <1>4, <1>5, <1>7

\* Contexts may change their place, and nothing else, without a word moving.
LEMMA FramesKept ==
  ASSUME KernelTypeOK, Frames, stack' = stack,
         Depth' = Depth, Len(writes') = Len(writes),
         \A k \in 1 .. Depth : /\ contexts'[k].vector = contexts[k].vector
                               /\ contexts'[k].error = contexts[k].error
                               /\ contexts'[k].iflag = contexts[k].iflag
  PROVE  Frames'
BY DEF Frames, StackMatchesContexts

LEMMA GoToFacts ==
  ASSUME KernelTypeOK, Depth > 0, NEW place \in Places, GoTo(place)
  PROVE  /\ Depth \in Nat /\ contexts' \in Seq(ContextRecord) /\ Depth' = Depth
         /\ \A k \in 1 .. Depth :
              /\ contexts'[k].vector = contexts[k].vector
              /\ contexts'[k].error = contexts[k].error
              /\ contexts'[k].iflag = contexts[k].iflag
              /\ contexts'[k].line = contexts[k].line
              /\ contexts'[k].real = contexts[k].real
              /\ contexts'[k].at = (IF k = Depth THEN place ELSE contexts[k].at)
<1> DEFINE c == [contexts[Depth] EXCEPT !.at = place]
<1>1. Depth \in Nat /\ Depth \in 1 .. Len(contexts) /\ contexts \in Seq(ContextRecord)
  BY LenProperties DEF KernelTypeOK, CpuVarsOK, Depth
<1>2. contexts[Depth] \in ContextRecord
  BY <1>1, ElementOfSeq
<1>3. /\ c \in ContextRecord /\ c.at = place
      /\ c.vector = contexts[Depth].vector /\ c.error = contexts[Depth].error
      /\ c.iflag = contexts[Depth].iflag /\ c.line = contexts[Depth].line
      /\ c.real = contexts[Depth].real
  BY <1>2 DEF ContextRecord
<1>4. contexts' = [contexts EXCEPT ![Depth] = c]
  BY DEF GoTo
<1> HIDE DEF c
<1>5. /\ contexts' \in Seq(ContextRecord) /\ Len(contexts') = Len(contexts)
      /\ \A k \in 1 .. Len(contexts) : contexts'[k] = IF k = Depth THEN c ELSE contexts[k]
  BY <1>1, <1>3, <1>4, ExceptSeq
<1> QED BY <1>1, <1>3, <1>5 DEF Depth

\* What an entry does to stack, contexts and port writes.
LEMMA EnterFacts ==
  ASSUME KernelTypeOK, Frames,
         NEW v \in Vectors, NEW e \in Nat, NEW line \in Irqs \cup {NoLine}, NEW real \in BOOLEAN,
         (v \in CpuErrorCodes /\ line = NoLine) <=> v \in ISRS_WITH_ERROR_CODE,
         v \notin ISRS_WITH_ERROR_CODE => e = 0,
         Enter(v, e, line, real)
  PROVE  /\ Depth \in Nat /\ Depth' = Depth + 1 /\ Frames'
         /\ contexts' \in Seq(ContextRecord) /\ writes' \in Seq(Seq(WriteRecord))
         /\ \A k \in 1 .. Depth : contexts'[k] = contexts[k]
         /\ contexts'[Depth + 1] = Context(v, e, line, real)
         /\ \A k \in 1 .. Depth + 1 : writes'[k] = writes[k]
         /\ writes'[Depth + 2] = <<>>
<1> DEFINE p == Pushed(v, e, line)
           c == Context(v, e, line, real)
<1>1. /\ Depth \in Nat /\ contexts \in Seq(ContextRecord) /\ Len(contexts) = Depth
      /\ writes \in Seq(Seq(WriteRecord)) /\ Len(writes) = Depth + 1
      /\ stack \in Seq(WordRecord) /\ Len(stack) = 2 + 7 * Depth
  <2>1. contexts \in Seq(ContextRecord) /\ writes \in Seq(Seq(WriteRecord))
    BY DEF KernelTypeOK, CpuVarsOK
  <2>2. Len(contexts) \in Nat
    BY <2>1, LenProperties
  <2> QED BY <2>1, <2>2 DEF Frames, StackMatchesContexts, Depth
<1>2. /\ p \in Seq(WordRecord) /\ Len(p) = 7
      /\ p[1].value = (IF iflag THEN 1 ELSE 0) /\ p[3].value = Depth
      /\ p[4].value = e /\ p[5].value = v
  <2>1. Depth \in Nat
    BY <1>1
  <2> QED BY <2>1, PushedFrame
<1>3. /\ c \in ContextRecord /\ c.vector = v /\ c.error = e
      /\ c.iflag = iflag
  <2>1. iflag \in BOOLEAN
    BY DEF KernelTypeOK, CpuVarsOK
  <2> QED BY <2>1 DEF Context, ContextRecord, Places
<1>4. stack' = stack \o p /\ contexts' = Append(contexts, c) /\ writes' = Append(writes, <<>>)
  BY DEF Enter
<1> HIDE DEF p, c
<1>5. /\ contexts' \in Seq(ContextRecord) /\ Len(contexts') = Depth + 1
      /\ \A k \in 1 .. Depth : contexts'[k] = contexts[k]
      /\ contexts'[Depth + 1] = c
  BY <1>1, <1>3, <1>4, AppendProperties
<1>6. /\ writes' \in Seq(Seq(WriteRecord)) /\ Len(writes') = Depth + 2
      /\ \A k \in 1 .. Depth + 1 : writes'[k] = writes[k]
      /\ writes'[Depth + 2] = <<>>
  <2>1. <<>> \in Seq(WriteRecord)
    BY EmptySeq
  <2> QED BY <1>1, <1>4, <2>1, AppendProperties
<1>7. /\ stack' \in Seq(WordRecord) /\ Len(stack') = 2 + 7 * Depth + 7
      /\ \A i \in 1 .. 2 + 7 * Depth + 7 :
           stack'[i] = IF i <= 2 + 7 * Depth THEN stack[i] ELSE p[i - (2 + 7 * Depth)]
  <2>1. /\ stack \o p \in Seq(WordRecord) /\ Len(stack \o p) = Len(stack) + Len(p)
        /\ \A i \in 1 .. Len(stack) + Len(p) :
             (stack \o p)[i] = IF i <= Len(stack) THEN stack[i] ELSE p[i - Len(stack)]
    BY <1>1, <1>2, ConcatProperties
  <2> QED BY <1>1, <1>2, <1>4, <2>1
<1>8. Frames'
  <2>1. ASSUME NEW k \in 1 .. Depth
        PROVE  /\ stack'[2 + 7 * (k - 1) + 1].value = (IF contexts'[k].iflag THEN 1 ELSE 0)
               /\ stack'[2 + 7 * (k - 1) + 3].value = k - 1
               /\ stack'[2 + 7 * (k - 1) + 4].value = contexts'[k].error
               /\ stack'[2 + 7 * (k - 1) + 5].value = contexts'[k].vector
    <3>1. \A i \in 1 .. 7 : stack'[2 + 7 * (k - 1) + i] = stack[2 + 7 * (k - 1) + i]
      <4>1. ASSUME NEW i \in 1 .. 7
            PROVE  /\ 2 + 7 * (k - 1) + i \in 1 .. 2 + 7 * Depth + 7
                   /\ 2 + 7 * (k - 1) + i <= 2 + 7 * Depth
        BY <1>1
      <4> QED BY <1>7, <4>1
    <3>2. /\ stack[2 + 7 * (k - 1) + 1].value = (IF contexts[k].iflag THEN 1 ELSE 0)
          /\ stack[2 + 7 * (k - 1) + 3].value = k - 1
          /\ stack[2 + 7 * (k - 1) + 4].value = contexts[k].error
          /\ stack[2 + 7 * (k - 1) + 5].value = contexts[k].vector
      BY DEF Frames, StackMatchesContexts
    <3> QED BY <1>5, <3>1, <3>2
  <2>2. /\ stack'[2 + 7 * Depth + 1].value = (IF c.iflag THEN 1 ELSE 0)
        /\ stack'[2 + 7 * Depth + 3].value = Depth
        /\ stack'[2 + 7 * Depth + 4].value = c.error
        /\ stack'[2 + 7 * Depth + 5].value = c.vector
    <3>1. \A i \in 1 .. 7 : stack'[2 + 7 * Depth + i] = p[i]
      <4> SUFFICES ASSUME NEW i \in 1 .. 7
                   PROVE  stack'[2 + 7 * Depth + i] = p[i]
        OBVIOUS
      <4> DEFINE j == 2 + 7 * Depth + i
      <4>1. /\ j \in 1 .. 2 + 7 * Depth + 7 /\ ~(j <= 2 + 7 * Depth)
            /\ j - (2 + 7 * Depth) = i
        BY <1>1
      <4> HIDE DEF j
      <4>2. stack'[j] = p[i]
        BY <1>7, <4>1
      <4> QED BY <4>2 DEF j
    <3> QED BY <1>2, <1>3, <3>1
  <2>3. Depth' = Depth + 1 /\ Len(stack') = 2 + 7 * (Depth + 1)
    BY <1>1, <1>5, <1>7 DEF Depth
  <2>4. ASSUME NEW k \in 1 .. Depth + 1
        PROVE  /\ stack'[2 + 7 * (k - 1) + 1].value = (IF contexts'[k].iflag THEN 1 ELSE 0)
               /\ stack'[2 + 7 * (k - 1) + 3].value = k - 1
               /\ stack'[2 + 7 * (k - 1) + 4].value = contexts'[k].error
               /\ stack'[2 + 7 * (k - 1) + 5].value = contexts'[k].vector
    <3>1. CASE k \in 1 .. Depth
      BY <2>1, <3>1
    <3>2. CASE k = Depth + 1
      <4>1. k - 1 = Depth
        BY <1>1, <3>2
      <4>2. contexts'[k] = c
        BY <3>2, <1>5
      <4> DEFINE m == k - 1
      <4>3. m = Depth
        BY <4>1
      <4> HIDE DEF m
      <4>4. /\ stack'[2 + 7 * m + 1].value = (IF contexts'[k].iflag THEN 1 ELSE 0)
            /\ stack'[2 + 7 * m + 3].value = m
            /\ stack'[2 + 7 * m + 4].value = contexts'[k].error
            /\ stack'[2 + 7 * m + 5].value = contexts'[k].vector
        BY <2>2, <4>2, <4>3
      <4> QED BY <4>4 DEF m
    <3> QED BY <1>1, <3>1, <3>2
  <2>5. Len(stack') = 2 + 7 * Depth' /\ Len(writes') = Depth' + 1
    BY <1>1, <1>6, <2>3
  <2>6. \A k \in 1 .. Depth' :
          /\ stack'[2 + 7 * (k - 1) + 1].value = (IF contexts'[k].iflag THEN 1 ELSE 0)
          /\ stack'[2 + 7 * (k - 1) + 3].value = k - 1
          /\ stack'[2 + 7 * (k - 1) + 4].value = contexts'[k].error
          /\ stack'[2 + 7 * (k - 1) + 5].value = contexts'[k].vector
    BY <2>3, <2>4
  <2>7. StackMatchesContexts'
    BY <2>5, <2>6 DEF StackMatchesContexts
  <2> QED BY <1>7, <2>7 DEF Frames
<1> QED BY <1>1, <1>5, <1>6, <1>8 DEF Depth, c

-----------------------------------------------------------------------------
(* Leaving a program.                                                      *)

LEMMA ChipsKept ==
  ASSUME ChipsTold, UNCHANGED <<pc, fitted, picMask>>, writes'[1] = writes[1],
         \A c \in Chips : /\ pics'[c].expects = pics[c].expects
                          /\ pics'[c].offset = pics[c].offset
                          /\ pics'[c].imr = pics[c].imr
  PROVE  ChipsTold'
<1>1. \A c \in 1 .. 2 : /\ pics'[c].expects = pics[c].expects
                        /\ pics'[c].offset = pics[c].offset
                        /\ pics'[c].imr = pics[c].imr
  BY DEF Chips
<1>2. \A n \in 0 .. 12 : (Told(n)' <=> Told(n)) /\ (LeftAfter(n)' <=> LeftAfter(n))
  BY <1>1 DEF Told, LeftAfter, ConfigWrite, Data, Command
<1>3. (Told(0)' <=> Told(0)) /\ (MasksOnly' <=> MasksOnly)
  BY <1>2 DEF MasksOnly
<1>4. (Configured' <=> Configured) /\ (MaskTold' <=> MaskTold)
  BY <1>1 DEF Configured, MaskTold, i8259_SetMask, Data
<1> QED BY <1>2, <1>3, <1>4 DEF ChipsTold

LEMMA KernelVarsKept ==
  ASSUME KernelVarsOK, UNCHANGED kernelVars
  PROVE  KernelVarsOK'
BY DEF KernelVarsOK, kernelVars

LEMMA GatesAreVectors ==
  ASSUME KernelVarsOK
  PROVE  gates \subseteq Vectors
BY DEF KernelVarsOK

\* An interrupt taken, through a gate that is there.
LEMMA Entered ==
  ASSUME IInv,
         NEW v \in gates, NEW e \in Nat, NEW line \in Irqs \cup {NoLine}, NEW real \in BOOLEAN,
         (v \in CpuErrorCodes /\ line = NoLine) <=> v \in ISRS_WITH_ERROR_CODE,
         v \notin ISRS_WITH_ERROR_CODE => e = 0,
         line # NoLine => v = PIC_REMAP_OFFSET + line,
         mode # "reset", mode = "halt" => v = NMI,
         Enter(v, e, line, real),
         UNCHANGED <<kernelVars, fitted, level>>,
         pics' \in [Chips -> Chip], nmis' \in 0 .. MAX_NMIS,
         \A c \in Chips : /\ pics'[c].expects = pics[c].expects
                          /\ pics'[c].offset = pics[c].offset
                          /\ pics'[c].imr = pics[c].imr
  PROVE  IInv'
<1>0. KernelTypeOK /\ Frames /\ Handlers /\ BootState /\ ChipsTold /\ Final
  BY DEF IInv
<1>1. v \in Vectors
  <2>1. KernelVarsOK
    BY <1>0 DEF KernelTypeOK
  <2> QED BY <2>1, GatesAreVectors
<1>2. /\ Depth \in Nat /\ Depth' = Depth + 1 /\ Frames'
      /\ contexts' \in Seq(ContextRecord) /\ writes' \in Seq(Seq(WriteRecord))
      /\ \A k \in 1 .. Depth : contexts'[k] = contexts[k]
      /\ contexts'[Depth + 1] = Context(v, e, line, real)
      /\ \A k \in 1 .. Depth + 1 : writes'[k] = writes[k]
      /\ writes'[Depth + 2] = <<>>
  BY <1>0, <1>1, EnterFacts
<1>3. mode' = "run" /\ iflag' = FALSE
  BY DEF Enter
<1>4. KernelTypeOK'
  <2>1. KernelVarsOK'
    <3>1. KernelVarsOK /\ UNCHANGED kernelVars
      BY <1>0 DEF KernelTypeOK
    <3> QED BY <3>1, KernelVarsKept
  <2>2. PicVarsOK'
    BY <1>0 DEF KernelTypeOK, PicVarsOK
  <2>3. CpuVarsOK'
    BY <1>2, <1>3 DEF CpuVarsOK
  <2> QED BY <2>1, <2>2, <2>3 DEF KernelTypeOK
<1>5. Handlers'
  <2>1. ASSUME NEW k \in 1 .. Depth'
        PROVE  /\ contexts'[k].line # NoLine =>
                    contexts'[k].vector = PIC_REMAP_OFFSET + contexts'[k].line
               /\ contexts'[k].at = "irq" => contexts'[k].vector \in IrqVectors
               /\ \A i \in 1 .. Len(writes'[k + 1]) :
                    writes'[k + 1][i].port = "command" /\ writes'[k + 1][i].byte = EOI
    <3>1. CASE k \in 1 .. Depth
      <4>0. Depth \in Nat
        BY <1>2
      <4>1. k + 1 \in 1 .. Depth + 1
        BY <4>0, <3>1
      <4>2. contexts'[k] = contexts[k]
        BY <1>2, <3>1
      <4>3. writes'[k + 1] = writes[k + 1]
        BY <1>2, <4>1
      <4> QED BY <1>0, <3>1, <4>2, <4>3 DEF Handlers, VectorIsLine
    <3>2. CASE k = Depth + 1
      <4>1. contexts'[k] = Context(v, e, line, real)
        BY <1>2, <3>2
      <4>2. k + 1 = Depth + 2
        BY <1>2, <3>2
      <4>3. writes'[k + 1] = <<>>
        BY <1>2, <4>2
      <4> QED BY <4>1, <4>3 DEF Context
    <3>3. k \in 1 .. Depth \/ k = Depth + 1
      BY <1>2
    <3> QED BY <3>1, <3>2, <3>3
  <2>2. mode' \notin {"inta", "cascade"}
    BY <1>3
  <2> QED BY <2>1, <2>2 DEF Handlers, VectorIsLine
<1>6. BootState'
  BY <1>0, <1>2 DEF BootState, kernelVars
<1>7. ChipsTold'
  <2>1. UNCHANGED <<pc, fitted, picMask>> /\ writes'[1] = writes[1]
    BY <1>2 DEF kernelVars
  <2> QED BY <1>0, <2>1, ChipsKept
<1>8. Final'
  <2> SUFFICES ASSUME NMI \notin isrHandlers
               PROVE  Final'
    BY DEF Final, kernelVars
  <2>1. ASSUME NEW k \in 1 .. Depth'
        PROVE  /\ contexts'[k].iflag => Ready
               /\ contexts'[k].at = "ret" =>
                    contexts'[k].vector \in isrHandlers \/ contexts'[k].vector >= 32
               /\ contexts'[k].at = "hlt" => k < Depth' /\ contexts'[k + 1].vector = NMI
    <3>1. CASE k \in 1 .. Depth
      <4>1. contexts'[k] = contexts[k]
        BY <1>2, <3>1
      <4>2. /\ contexts[k].iflag => Ready
            /\ contexts[k].at = "ret" =>
                 contexts[k].vector \in isrHandlers \/ contexts[k].vector >= 32
            /\ contexts[k].at = "hlt" =>
                 \/ k = Depth /\ mode \in {"halt", "reset"}
                 \/ k < Depth /\ contexts[k + 1].vector = NMI
        BY <1>0, <3>1 DEF Final
      <4>3. contexts'[k].at = "hlt" => k < Depth' /\ contexts'[k + 1].vector = NMI
        <5>1. CASE k = Depth /\ mode = "halt"
          BY <1>2, <5>1 DEF Context
        <5>2. CASE k < Depth /\ contexts[k + 1].vector = NMI
          <6>1. k + 1 \in 1 .. Depth /\ k < Depth'
            BY <1>2, <3>1, <5>2
          <6> QED BY <1>2, <5>2, <6>1
        <5> QED BY <4>1, <4>2, <5>1, <5>2
      <4> QED BY <4>1, <4>2, <4>3
    <3>2. CASE k = Depth + 1
      <4>1. contexts'[k].at = "isr" /\ contexts'[k].iflag = iflag
        BY <1>2, <3>2 DEF Context
      <4> QED BY <1>0, <4>1 DEF Final
    <3> QED BY <1>2, <3>1, <3>2
  <2>2. Ready' <=> Ready
    BY DEF Ready, kernelVars
  <2>3. isrHandlers' = isrHandlers
    BY DEF kernelVars
  <2> QED BY <1>3, <2>1, <2>2, <2>3 DEF Final
<1> QED BY <1>2, <1>4, <1>5, <1>6, <1>7, <1>8 DEF IInv

\* What changes neither contexts nor the chips' masks and vectors.
LEMMA Aside ==
  ASSUME IInv,
         UNCHANGED <<kernelVars, fitted, iflag, stack, contexts, writes>>,
         level' \in [Lines -> BOOLEAN], pics' \in [Chips -> Chip], nmis' \in 0 .. MAX_NMIS,
         \A c \in Chips : /\ pics'[c].expects = pics[c].expects
                          /\ pics'[c].offset = pics[c].offset
                          /\ pics'[c].imr = pics[c].imr,
         \/ mode' = mode \/ mode' = "reset"
         \/ mode' \in {"inta", "cascade"} /\ Ready /\ mode \notin {"halt", "reset"}
  PROVE  IInv'
<1>1. KernelTypeOK /\ Frames /\ Handlers /\ BootState /\ ChipsTold /\ Final
  BY DEF IInv
<1>2. Depth' = Depth /\ isrHandlers' = isrHandlers /\ (Ready' <=> Ready)
  BY DEF Depth, kernelVars, Ready
<1>3. KernelTypeOK'
  <2>1. KernelVarsOK'
    BY <1>1, KernelVarsKept DEF KernelTypeOK
  <2>2. PicVarsOK'
    BY <1>1 DEF KernelTypeOK, PicVarsOK
  <2>3. CpuVarsOK'
    BY <1>1 DEF KernelTypeOK, CpuVarsOK
  <2> QED BY <2>1, <2>2, <2>3 DEF KernelTypeOK
<1>4. Frames'
  BY <1>1, <1>2 DEF Frames, StackMatchesContexts
<1>5. Handlers'
  <2>1. mode' \in {"inta", "cascade"} => pc' = "running" /\ fitted'
    BY <1>1 DEF Handlers, Ready, kernelVars
  <2> QED BY <1>1, <1>2, <2>1 DEF Handlers, VectorIsLine
<1>6. BootState'
  BY <1>1, <1>2 DEF BootState, kernelVars
<1>7. ChipsTold'
  BY <1>1, ChipsKept DEF kernelVars
<1>8. Final'
  BY <1>1, <1>2 DEF Final
<1> QED BY <1>3, <1>4, <1>5, <1>6, <1>7, <1>8 DEF IInv

\* A vector delivered: taken, taken as Segment Not Present, or the end.
LEMMA Delivered ==
  ASSUME IInv,
         NEW v \in Vectors, NEW e \in Nat, NEW line \in Irqs \cup {NoLine}, NEW real \in BOOLEAN,
         \/ line # NoLine /\ v = PIC_REMAP_OFFSET + line /\ e = 0
         \/ /\ line = NoLine /\ v \in (0 .. 28) \cup {SYSCALL}
            /\ v \notin CpuErrorCodes => e = 0,
         mode # "reset", mode = "halt" => v = NMI,
         Deliver(v, e, line, real),
         UNCHANGED <<kernelVars, fitted, level>>,
         pics' \in [Chips -> Chip], nmis' \in 0 .. MAX_NMIS,
         \A c \in Chips : /\ pics'[c].expects = pics[c].expects
                          /\ pics'[c].offset = pics[c].offset
                          /\ pics'[c].imr = pics[c].imr
  PROVE  IInv'
<1>1. level \in [Lines -> BOOLEAN]
  BY DEF IInv, KernelTypeOK, PicVarsOK
<1>2. CASE TripleFault
  BY <1>1, <1>2, Aside DEF TripleFault
<1>3. CASE v \in gates /\ Enter(v, e, line, real)
  <2>1. /\ (v \in CpuErrorCodes /\ line = NoLine) <=> v \in ISRS_WITH_ERROR_CODE
        /\ v \notin ISRS_WITH_ERROR_CODE => e = 0
    BY DEF CpuErrorCodes, ISRS_WITH_ERROR_CODE, PIC_REMAP_OFFSET, SYSCALL, Irqs, NoLine
  <2>2. line # NoLine => v = PIC_REMAP_OFFSET + line
    OBVIOUS
  <2> QED BY <1>3, <2>1, <2>2, Entered
<1>4. CASE /\ v \notin gates /\ SegmentNotPresent \in gates
           /\ Enter(SegmentNotPresent, 8 * v + 2, NoLine, FALSE)
  <2>1. mode # "halt"
    <3>1. Vectors \ {SYSCALL} \subseteq gates
      BY <1>4 DEF IInv, BootState
    <3>2. NMI \in gates
      BY <3>1 DEF Vectors, SYSCALL, NMI
    <3> QED BY <1>4, <3>2
  <2>2. 8 * v + 2 \in Nat /\ NoLine \in Irqs \cup {NoLine}
    BY DEF Vectors
  <2>3. SegmentNotPresent \in CpuErrorCodes /\ SegmentNotPresent \in ISRS_WITH_ERROR_CODE
    BY DEF SegmentNotPresent, CpuErrorCodes, ISRS_WITH_ERROR_CODE
  <2> QED BY <1>4, <2>1, <2>2, <2>3, Entered
<1> QED BY <1>2, <1>3, <1>4 DEF Deliver

\* One chip changed in what is requested or in service.
LEMMA OneChip ==
  ASSUME PicVarsOK, NEW c \in Chips, NEW chip \in Chip,
         chip.expects = pics[c].expects, chip.offset = pics[c].offset,
         chip.imr = pics[c].imr,
         pics' = [pics EXCEPT ![c] = chip]
  PROVE  /\ pics' \in [Chips -> Chip]
         /\ \A d \in Chips : /\ pics'[d].expects = pics[d].expects
                             /\ pics'[d].offset = pics[d].offset
                             /\ pics'[d].imr = pics[d].imr
BY DEF PicVarsOK

LEMMA RequestsAreInputs ==
  ASSUME PicVarsOK
  PROVE  SlaveRequests(pics) \subseteq Inputs /\ MasterRequests(pics) \subseteq Inputs
<1>1. pics[1] \in Chip /\ pics[2] \in Chip
  BY DEF PicVarsOK, Chips
<1>2. pics[1].irr \subseteq Inputs /\ pics[2].irr \subseteq Inputs
  BY <1>1 DEF Chip
<1>3. CASCADE \in Inputs
  BY DEF CASCADE, Inputs
<1>4. \A chip, requests : Presented(chip, requests) \subseteq requests
  BY DEF Presented
<1> QED BY <1>2, <1>3, <1>4 DEF SlaveRequests, MasterRequests

LEMMA AcknowledgedChip ==
  ASSUME PicVarsOK, NEW c \in Chips, NEW i \in Inputs,
         pics' = [pics EXCEPT ![c] = Acknowledged(@, i)]
  PROVE  /\ pics' \in [Chips -> Chip]
         /\ \A d \in Chips : /\ pics'[d].expects = pics[d].expects
                             /\ pics'[d].offset = pics[d].offset
                             /\ pics'[d].imr = pics[d].imr
<1> DEFINE chip == Acknowledged(pics[c], i)
<1>1. pics[c] \in Chip /\ pics' = [pics EXCEPT ![c] = chip]
  BY DEF PicVarsOK
<1>2. /\ chip \in Chip /\ chip.expects = pics[c].expects
      /\ chip.offset = pics[c].offset /\ chip.imr = pics[c].imr
  BY <1>1 DEF Acknowledged, Chip
<1> HIDE DEF chip
<1> QED BY <1>1, <1>2, OneChip

-----------------------------------------------------------------------------
(* Devices, acknowledge cycles and exceptions.                             *)

LEMMA DevicesKeep ==
  ASSUME IInv, Devices
  PROVE  IInv'
<1>1. PicVarsOK
  BY DEF IInv, KernelTypeOK
<1>2. PICK l \in Lines : Raise(l) \/ Drop(l)
  BY DEF Devices
<1>3. l \in Irqs
  BY InterruptsAssumption
<1>4. ChipOf(l) \in Chips /\ InputOf(l) \in Inputs
  BY <1>3 DEF ChipOf, InputOf, Chips, Inputs, Irqs
<1> DEFINE c == ChipOf(l)
           i == InputOf(l)
<1>5. \E irr \in SUBSET Inputs :
        pics' = [pics EXCEPT ![c] = [pics[c] EXCEPT !.irr = irr]]
  <2>1. pics[c] \in Chip /\ pics[c].irr \subseteq Inputs
    BY <1>1, <1>4 DEF PicVarsOK, Chip
  <2>2. CASE Raise(l)
    <3>1. pics' = [pics EXCEPT ![c] = [pics[c] EXCEPT !.irr = pics[c].irr \cup {i}]]
      BY <2>2 DEF Raise
    <3>2. pics[c].irr \cup {i} \in SUBSET Inputs
      BY <1>4, <2>1
    <3> QED BY <3>1, <3>2
  <2>3. CASE Drop(l)
    <3>1. pics' = [pics EXCEPT ![c] = [pics[c] EXCEPT !.irr = pics[c].irr \ {i}]]
      BY <2>3 DEF Drop
    <3>2. pics[c].irr \ {i} \in SUBSET Inputs
      BY <1>4, <2>1
    <3> QED BY <3>1, <3>2
  <2> QED BY <1>2, <2>2, <2>3
<1>6. PICK irr \in SUBSET Inputs :
        pics' = [pics EXCEPT ![c] = [pics[c] EXCEPT !.irr = irr]]
  BY <1>5
<1> DEFINE chip == [pics[c] EXCEPT !.irr = irr]
<1>7. /\ chip \in Chip /\ chip.expects = pics[c].expects
      /\ chip.offset = pics[c].offset /\ chip.imr = pics[c].imr
  BY <1>1, <1>4 DEF PicVarsOK, Chip
<1>8. c \in Chips /\ pics' = [pics EXCEPT ![c] = chip]
  BY <1>4, <1>6
<1> HIDE DEF chip, c
<1>9. /\ pics' \in [Chips -> Chip]
      /\ \A d \in Chips : /\ pics'[d].expects = pics[d].expects
                          /\ pics'[d].offset = pics[d].offset
                          /\ pics'[d].imr = pics[d].imr
  BY <1>1, <1>7, <1>8, OneChip
<1>10. level' \in [Lines -> BOOLEAN]
  BY <1>1, <1>2 DEF PicVarsOK, Raise, Drop
<1>11. nmis \in 0 .. MAX_NMIS
  BY DEF IInv, KernelTypeOK, CpuVarsOK
<1>12. UNCHANGED <<kernelVars, fitted, cpuVars>>
  BY <1>2 DEF Raise, Drop
<1> QED BY <1>9, <1>10, <1>11, <1>12, Aside DEF cpuVars

\* While an interrupt is acknowledged, the kernel runs and the chips answer
\* with vectors behind the exceptions.
LEMMA AcknowledgingReady ==
  ASSUME IInv, mode \in {"inta", "cascade"}
  PROVE  Ready /\ pics[1].offset = PIC_REMAP_OFFSET /\ pics[2].offset = PIC_REMAP_OFFSET + 8
<1>1. pc = "running" /\ fitted
  BY DEF IInv, Handlers
<1>2. Configured
  BY <1>1 DEF IInv, ChipsTold
<1> QED BY <1>1, <1>2 DEF Ready, Configured, PIC_REMAP_OFFSET

LEMMA AcknowledgeKeeps ==
  ASSUME IInv, Acknowledge
  PROVE  IInv'
<1>1. /\ PicVarsOK /\ level \in [Lines -> BOOLEAN] /\ pics \in [Chips -> Chip]
      /\ nmis \in 0 .. MAX_NMIS
  BY DEF IInv, KernelTypeOK, CpuVarsOK, PicVarsOK
<1>2. CASE Recognise
  <2>1. Ready
    <3>1. iflag /\ fitted
      BY <1>2 DEF Recognise
    <3>2. CASE NMI \in isrHandlers
      <4>1. isrHandlers \cap (0 .. 31) # {}
        BY <3>2 DEF NMI
      <4> QED BY <3>1, <4>1 DEF IInv, BootState, Ready
    <3>3. CASE NMI \notin isrHandlers
      BY <3>1, <3>3 DEF IInv, Final
    <3> QED BY <3>2, <3>3
  <2>2. /\ UNCHANGED <<kernelVars, fitted, iflag, stack, contexts, writes>>
        /\ level' = level /\ pics' = pics /\ nmis' = nmis
        /\ mode' = "inta" /\ mode = "run"
    BY <1>2 DEF Recognise, picVars
  <2> QED BY <1>1, <2>1, <2>2, Aside
<1>3. CASE AcknowledgeMaster
  <2>1. /\ mode = "inta" /\ UNCHANGED <<kernelVars, fitted, level>>
        /\ level' = level /\ nmis' = nmis
    BY <1>3 DEF AcknowledgeMaster
  <2>2. Ready /\ pics[1].offset = PIC_REMAP_OFFSET
    BY <2>1, AcknowledgingReady
  <2>3. CASE /\ MasterRequests(pics) = {}
             /\ Deliver(pics[1].offset + 7, 0, 7, FALSE)
             /\ UNCHANGED pics
    <3>1. /\ PIC_REMAP_OFFSET + 7 \in Vectors /\ 7 \in Irqs \cup {NoLine} /\ 7 # NoLine
          /\ 0 \in Nat /\ FALSE \in BOOLEAN
      BY DEF Vectors, Irqs, NoLine, PIC_REMAP_OFFSET
    <3>2. Deliver(PIC_REMAP_OFFSET + 7, 0, 7, FALSE)
      BY <2>2, <2>3
    <3> QED BY <1>1, <2>1, <2>3, <3>1, <3>2, Delivered
  <2>4. ASSUME NEW i \in Highest(MasterRequests(pics)),
               pics' = [pics EXCEPT ![1] = Acknowledged(@, i)],
               IF i = CASCADE THEN mode' = "cascade" /\ UNCHANGED <<iflag, stack, contexts, writes>>
                              ELSE Deliver(pics[1].offset + i, 0, i, TRUE)
        PROVE  IInv'
    <3>1. i \in Inputs
      BY <1>1, RequestsAreInputs DEF Highest
    <3>2. /\ pics' \in [Chips -> Chip]
          /\ \A d \in Chips : /\ pics'[d].expects = pics[d].expects
                              /\ pics'[d].offset = pics[d].offset
                              /\ pics'[d].imr = pics[d].imr
      <4>1. 1 \in Chips
        BY DEF Chips
      <4> QED BY <1>1, <2>4, <3>1, <4>1, AcknowledgedChip
    <3>3. CASE i = CASCADE
      BY <1>1, <2>1, <2>2, <2>4, <3>2, <3>3, Aside
    <3>4. CASE i # CASCADE
      <4>1. /\ PIC_REMAP_OFFSET + i \in Vectors /\ i \in Irqs \cup {NoLine} /\ i # NoLine
            /\ 0 \in Nat /\ TRUE \in BOOLEAN
        BY <3>1 DEF Vectors, Irqs, NoLine, PIC_REMAP_OFFSET, Inputs
      <4>2. Deliver(PIC_REMAP_OFFSET + i, 0, i, TRUE)
        BY <2>2, <2>4, <3>4
      <4> QED BY <1>1, <2>1, <3>2, <4>1, <4>2, Delivered
    <3> QED BY <3>3, <3>4
  <2> QED BY <1>3, <2>3, <2>4 DEF AcknowledgeMaster
<1>4. CASE AcknowledgeSlave
  <2>1. /\ mode = "cascade" /\ UNCHANGED <<kernelVars, fitted, level>>
        /\ level' = level /\ nmis' = nmis
    BY <1>4 DEF AcknowledgeSlave
  <2>2. Ready /\ pics[2].offset = PIC_REMAP_OFFSET + 8
    BY <2>1, AcknowledgingReady
  <2>3. CASE /\ SlaveRequests(pics) = {}
             /\ Deliver(pics[2].offset + 7, 0, 15, FALSE)
             /\ UNCHANGED pics
    <3>1. /\ PIC_REMAP_OFFSET + 15 \in Vectors /\ 15 \in Irqs \cup {NoLine} /\ 15 # NoLine
          /\ 0 \in Nat /\ FALSE \in BOOLEAN
          /\ PIC_REMAP_OFFSET + 8 + 7 = PIC_REMAP_OFFSET + 15
      BY DEF Vectors, Irqs, NoLine, PIC_REMAP_OFFSET
    <3>2. Deliver(PIC_REMAP_OFFSET + 15, 0, 15, FALSE)
      BY <2>2, <2>3, <3>1
    <3> QED BY <1>1, <2>1, <2>3, <3>1, <3>2, Delivered
  <2>4. ASSUME NEW i \in Highest(SlaveRequests(pics)),
               pics' = [pics EXCEPT ![2] = Acknowledged(@, i)],
               Deliver(pics[2].offset + i, 0, i + 8, TRUE)
        PROVE  IInv'
    <3>1. i \in Inputs
      BY <1>1, RequestsAreInputs DEF Highest
    <3>2. /\ pics' \in [Chips -> Chip]
          /\ \A d \in Chips : /\ pics'[d].expects = pics[d].expects
                              /\ pics'[d].offset = pics[d].offset
                              /\ pics'[d].imr = pics[d].imr
      <4>1. 2 \in Chips
        BY DEF Chips
      <4> QED BY <1>1, <2>4, <3>1, <4>1, AcknowledgedChip
    <3>3. /\ PIC_REMAP_OFFSET + (i + 8) \in Vectors /\ i + 8 \in Irqs \cup {NoLine}
          /\ i + 8 # NoLine /\ 0 \in Nat /\ TRUE \in BOOLEAN
          /\ PIC_REMAP_OFFSET + 8 + i = PIC_REMAP_OFFSET + (i + 8)
      BY <3>1 DEF Vectors, Irqs, NoLine, PIC_REMAP_OFFSET, Inputs
    <3>4. Deliver(PIC_REMAP_OFFSET + (i + 8), 0, i + 8, TRUE)
      BY <2>2, <2>4, <3>3
    <3> QED BY <1>1, <2>1, <3>2, <3>3, <3>4, Delivered
  <2> QED BY <1>4, <2>3, <2>4 DEF AcknowledgeSlave
<1> QED BY <1>2, <1>3, <1>4 DEF Acknowledge

LEMMA ExceptionsKeep ==
  ASSUME IInv, Exceptions
  PROVE  IInv'
<1>1. /\ PicVarsOK /\ pics \in [Chips -> Chip] /\ nmis \in 0 .. MAX_NMIS
      /\ FALSE \in BOOLEAN /\ NoLine \in Irqs \cup {NoLine}
  BY DEF IInv, KernelTypeOK, CpuVarsOK, PicVarsOK
<1>2. ASSUME NEW v \in Faults, Fault(v) PROVE IInv'
  <2>1. v \in 0 .. 28 /\ v \in Vectors
    BY InterruptsAssumption DEF Vectors
  <2> DEFINE e == IF v \in CpuErrorCodes THEN FAULT_CODE ELSE 0
  <2>2. e \in Nat /\ (v \notin CpuErrorCodes => e = 0)
    BY DEF FAULT_CODE
  <2>3. Deliver(v, e, NoLine, FALSE) /\ mode = "run"
    BY <1>2 DEF Fault
  <2> HIDE DEF e
  <2>4. UNCHANGED <<kernelVars, picVars, nmis>>
    BY <1>2 DEF Fault
  <2> QED BY <1>1, <2>1, <2>2, <2>3, <2>4, Delivered DEF picVars
<1>3. CASE crash_me
  <2>1. SYSCALL \in Vectors /\ SYSCALL \notin CpuErrorCodes /\ 0 \in Nat
    BY DEF SYSCALL, Vectors, CpuErrorCodes
  <2>2. Deliver(SYSCALL, 0, NoLine, FALSE) /\ mode = "run"
    BY <1>3 DEF crash_me, InDriver, InStart, Running
  <2>3. UNCHANGED <<kernelVars, picVars, nmis>>
    BY <1>3 DEF crash_me
  <2> QED BY <1>1, <2>1, <2>2, <2>3, Delivered DEF picVars
<1>4. CASE NonMaskable
  <2>1. NMI \in Vectors /\ NMI \in 0 .. 28 /\ NMI \notin CpuErrorCodes /\ 0 \in Nat
    BY DEF NMI, Vectors, CpuErrorCodes
  <2>2. Deliver(NMI, 0, NoLine, FALSE) /\ mode \in {"run", "halt"}
    BY <1>4 DEF NonMaskable
  <2>3. UNCHANGED <<kernelVars, picVars>>
    BY <1>4 DEF NonMaskable
  <2>4. nmis' \in 0 .. MAX_NMIS
    BY <1>1, <1>4, InterruptsAssumption DEF NonMaskable
  <2> QED BY <1>1, <2>1, <2>2, <2>3, <2>4, Delivered DEF picVars
<1> QED BY <1>2, <1>3, <1>4 DEF Exceptions

-----------------------------------------------------------------------------
(* Dispatch and return.                                                    *)

\* A context moves on; what it has to write are ends of interrupts.
LEMMA Dispatched ==
  ASSUME IInv, Depth > 0, NEW place \in Places, GoTo(place),
         UNCHANGED <<kernelVars, picVars, stack, nmis>>,
         mode' \in {"run", "halt"}, iflag' \in BOOLEAN,
         writes' \in Seq(Seq(WriteRecord)), Len(writes') = Len(writes),
         \A k \in 1 .. Depth : writes'[k] = writes[k],
         \A i \in 1 .. Len(writes'[Depth + 1]) :
           writes'[Depth + 1][i].port = "command" /\ writes'[Depth + 1][i].byte = EOI,
         place = "irq" => Top.vector \in IrqVectors
  PROVE  KernelTypeOK' /\ Frames' /\ Handlers' /\ BootState' /\ ChipsTold'
<1>1. KernelTypeOK /\ Frames /\ Handlers /\ BootState /\ ChipsTold
  BY DEF IInv
<1>2. /\ Depth \in Nat /\ contexts' \in Seq(ContextRecord) /\ Depth' = Depth
      /\ \A k \in 1 .. Depth :
           /\ contexts'[k].vector = contexts[k].vector
           /\ contexts'[k].error = contexts[k].error
           /\ contexts'[k].iflag = contexts[k].iflag
           /\ contexts'[k].line = contexts[k].line
           /\ contexts'[k].real = contexts[k].real
           /\ contexts'[k].at = (IF k = Depth THEN place ELSE contexts[k].at)
  BY <1>1, GoToFacts
<1>3. KernelTypeOK'
  <2>1. KernelVarsOK'
    BY <1>1, KernelVarsKept DEF KernelTypeOK
  <2>2. PicVarsOK'
    BY <1>1 DEF KernelTypeOK, PicVarsOK, picVars
  <2>3. CpuVarsOK'
    BY <1>1, <1>2 DEF KernelTypeOK, CpuVarsOK
  <2> QED BY <2>1, <2>2, <2>3 DEF KernelTypeOK
<1>4. Frames'
  BY <1>1, <1>2, FramesKept
<1>5. Handlers'
  <2>1. ASSUME NEW k \in 1 .. Depth
        PROVE  /\ contexts'[k].line # NoLine =>
                    contexts'[k].vector = PIC_REMAP_OFFSET + contexts'[k].line
               /\ contexts'[k].at = "irq" => contexts'[k].vector \in IrqVectors
               /\ \A i \in 1 .. Len(writes'[k + 1]) :
                    writes'[k + 1][i].port = "command" /\ writes'[k + 1][i].byte = EOI
    <3>1. /\ contexts[k].line # NoLine =>
               contexts[k].vector = PIC_REMAP_OFFSET + contexts[k].line
          /\ contexts[k].at = "irq" => contexts[k].vector \in IrqVectors
          /\ \A i \in 1 .. Len(writes[k + 1]) :
               writes[k + 1][i].port = "command" /\ writes[k + 1][i].byte = EOI
      BY <1>1 DEF Handlers, VectorIsLine
    <3>2. CASE k = Depth
      BY <1>2, <3>1, <3>2 DEF Top
    <3>3. CASE k # Depth
      <4>1. k + 1 \in 1 .. Depth
        BY <1>2, <3>3
      <4> QED BY <1>2, <3>1, <3>3, <4>1
    <3> QED BY <3>2, <3>3
  <2>2. mode' \notin {"inta", "cascade"}
    OBVIOUS
  <2> QED BY <1>2, <2>1, <2>2 DEF Handlers, VectorIsLine
<1>6. BootState'
  BY <1>1, <1>2 DEF BootState, kernelVars, picVars
<1>7. ChipsTold'
  <2>1. writes'[1] = writes[1] /\ UNCHANGED <<pc, fitted, picMask, pics>>
    BY <1>2 DEF kernelVars, picVars
  <2> QED BY <1>1, <2>1, ChipsKept
<1> QED BY <1>3, <1>4, <1>5, <1>6, <1>7

\* Only ends of interrupts are sent for a line.
LEMMA EndsOnly ==
  ASSUME NEW irq \in Nat
  PROVE  LET s == i8259_SendEndOfInterrupt(irq) IN
         /\ s \in Seq(WriteRecord)
         /\ \A i \in 1 .. Len(s) : s[i].port = "command" /\ s[i].byte = EOI
<1> DEFINE a == IF irq >= 8 THEN <<Command(2, EOI)>> ELSE <<>>
           b == <<Command(1, EOI)>>
<1>1. Command(1, EOI) \in WriteRecord /\ Command(2, EOI) \in WriteRecord
  BY DEF Command, WriteRecord, EOI, Chips
<1>2. b \in Seq(WriteRecord) /\ Len(b) = 1 /\ b[1].port = "command" /\ b[1].byte = EOI
  BY <1>1 DEF Command
<1>3. /\ a \in Seq(WriteRecord)
      /\ \A i \in 1 .. Len(a) : a[i].port = "command" /\ a[i].byte = EOI
  <2>1. CASE irq >= 8
    <3>1. a = <<Command(2, EOI)>>
      BY <2>1
    <3> QED BY <1>1, <3>1 DEF Command
  <2>2. CASE ~(irq >= 8)
    <3>1. a = <<>>
      BY <2>2
    <3> QED BY <3>1
  <2> QED BY <2>1, <2>2
<1> HIDE DEF a, b
<1>4. Len(a) \in Nat
  BY <1>3, LenProperties
<1>5. /\ a \o b \in Seq(WriteRecord) /\ Len(a \o b) = Len(a) + Len(b)
      /\ \A i \in 1 .. Len(a) + Len(b) :
           (a \o b)[i] = IF i <= Len(a) THEN a[i] ELSE b[i - Len(a)]
  BY <1>2, <1>3, ConcatProperties
<1>6. ASSUME NEW i \in 1 .. Len(a) + 1
      PROVE  (a \o b)[i].port = "command" /\ (a \o b)[i].byte = EOI
  <2>1. CASE i <= Len(a)
    BY <1>2, <1>3, <1>4, <1>5, <2>1
  <2>2. CASE i = Len(a) + 1
    <3>1. ~(i <= Len(a)) /\ i - Len(a) = 1
      BY <1>4, <2>2
    <3>2. (a \o b)[i] = b[1]
      BY <1>2, <1>4, <1>5, <2>2, <3>1
    <3> QED BY <1>2, <3>2
  <2>3. i <= Len(a) \/ i = Len(a) + 1
    BY <1>4
  <2> QED BY <2>1, <2>2, <2>3
<1>7. i8259_SendEndOfInterrupt(irq) = a \o b
  BY DEF i8259_SendEndOfInterrupt, a, b
<1> QED BY <1>2, <1>5, <1>6, <1>7

\* The state a handler's step leaves the words of the contexts below it in.
LEMMA FinalOf ==
  ASSUME IInv, Depth > 0, mode = "run", NEW place \in Places, GoTo(place),
         UNCHANGED <<kernelVars, picVars>>,
         iflag' => iflag \/ NMI \in isrHandlers,
         place = "ret" => \/ NMI \in isrHandlers
                          \/ Top.vector \in isrHandlers \/ Top.vector >= 32,
         place = "hlt" => mode' = "halt"
  PROVE  Final'
<1>1. KernelTypeOK /\ Final
  BY DEF IInv
<1>2. /\ Depth \in Nat /\ Depth' = Depth
      /\ \A k \in 1 .. Depth :
           /\ contexts'[k].vector = contexts[k].vector
           /\ contexts'[k].iflag = contexts[k].iflag
           /\ contexts'[k].at = (IF k = Depth THEN place ELSE contexts[k].at)
  BY <1>1, GoToFacts
<1>3. isrHandlers' = isrHandlers /\ (Ready' <=> Ready)
  BY DEF kernelVars, picVars, Ready
<1> SUFFICES ASSUME NMI \notin isrHandlers
             PROVE  Final'
  BY <1>3 DEF Final
<1>4. ASSUME NEW k \in 1 .. Depth
      PROVE  /\ contexts'[k].iflag => Ready
             /\ contexts'[k].at = "ret" =>
                  contexts'[k].vector \in isrHandlers \/ contexts'[k].vector >= 32
             /\ contexts'[k].at = "hlt" =>
                  \/ k = Depth /\ mode' = "halt"
                  \/ k < Depth /\ contexts'[k + 1].vector = NMI
  <2>1. /\ contexts[k].iflag => Ready
        /\ contexts[k].at = "ret" =>
             contexts[k].vector \in isrHandlers \/ contexts[k].vector >= 32
        /\ contexts[k].at = "hlt" => k < Depth /\ contexts[k + 1].vector = NMI
    BY <1>1 DEF Final
  <2>2. CASE k = Depth
    BY <1>2, <2>1, <2>2 DEF Top
  <2>3. CASE k # Depth
    <3>1. k + 1 \in 1 .. Depth
      BY <1>2, <2>3
    <3> QED BY <1>2, <2>1, <2>3, <3>1
  <2> QED BY <2>2, <2>3
<1>5. iflag' => Ready
  BY <1>1 DEF Final
<1> QED BY <1>2, <1>3, <1>4, <1>5 DEF Final

\* What is pending for a running context below which there is none: nothing.
LEMMA InHandlerFacts ==
  ASSUME IInv, NEW place, InHandler(place)
  PROVE  /\ Depth \in Nat /\ Depth > 0 /\ Top.at = place /\ mode = "run"
         /\ Top \in ContextRecord /\ Regs("interrupt") = Top.vector
         /\ Regs("eip") = Depth - 1 /\ ((Regs("eflags") = 1) <=> Top.iflag)
         /\ writes \in Seq(Seq(WriteRecord)) /\ Len(writes) = Depth + 1
         /\ writes[Depth + 1] = <<>>
<1>1. KernelTypeOK /\ Frames
  BY DEF IInv
<1>2. Depth > 0 /\ Top.at = place /\ mode = "run" /\ writes[Depth + 1] = <<>>
  BY DEF InHandler, Running, Pending
<1>3. writes \in Seq(Seq(WriteRecord)) /\ Len(writes) = Depth + 1
  BY <1>1 DEF KernelTypeOK, CpuVarsOK, Frames, StackMatchesContexts
<1> QED BY <1>1, <1>2, <1>3, TopFacts

LEMMA HandlersKeep ==
  ASSUME IInv, i686_ISR_Handler \/ i686_IRQ_Handler \/ i686_Panic \/ PanicFallsThrough
  PROVE  IInv'
<1>1. CASE i686_ISR_Handler
  <2> DEFINE n == Regs("interrupt")
             place == IF n \in isrHandlers THEN (IF n \in IrqVectors THEN "irq" ELSE "ret")
                      ELSE IF n >= 32 THEN "ret" ELSE "panic"
  <2>1. /\ Depth \in Nat /\ Depth > 0 /\ mode = "run" /\ n = Top.vector
        /\ Len(writes) = Depth + 1 /\ writes \in Seq(Seq(WriteRecord))
        /\ writes[Depth + 1] = <<>>
    BY <1>1, InHandlerFacts DEF i686_ISR_Handler
  <2>2. GoTo(place) /\ UNCHANGED <<kernelVars, picVars, mode, iflag, stack, writes, nmis>>
    BY <1>1 DEF i686_ISR_Handler
  <2>3. /\ place \in Places /\ place # "hlt"
        /\ place = "irq" => n \in IrqVectors
        /\ place = "ret" => n \in isrHandlers \/ n >= 32
    BY DEF Places
  <2> HIDE DEF n, place
  <2>4. iflag \in BOOLEAN
    BY DEF IInv, KernelTypeOK, CpuVarsOK
  <2>5. KernelTypeOK' /\ Frames' /\ Handlers' /\ BootState' /\ ChipsTold'
    BY <2>1, <2>2, <2>3, <2>4, Dispatched
  <2>6. Final'
    BY <2>1, <2>2, <2>3, FinalOf
  <2> QED BY <2>5, <2>6 DEF IInv
<1>2. CASE i686_IRQ_Handler
  <2> DEFINE list == i8259_SendEndOfInterrupt(Top.vector - PIC_REMAP_OFFSET)
  <2>1. /\ Depth \in Nat /\ Depth > 0 /\ mode = "run" /\ Regs("interrupt") = Top.vector
        /\ Top.at = "irq" /\ Len(writes) = Depth + 1 /\ writes \in Seq(Seq(WriteRecord))
    BY <1>2, InHandlerFacts DEF i686_IRQ_Handler
  <2>2. Top.vector \in IrqVectors
    BY <2>1 DEF IInv, Handlers, Top
  <2>3. /\ GoTo("ret") /\ writes' = [writes EXCEPT ![Depth + 1] = list]
        /\ UNCHANGED <<kernelVars, picVars, mode, iflag, stack, nmis>>
    BY <1>2, <2>1 DEF i686_IRQ_Handler, Write
  <2>4. /\ list \in Seq(WriteRecord)
        /\ \A i \in 1 .. Len(list) : list[i].port = "command" /\ list[i].byte = EOI
    <3>1. Top.vector - PIC_REMAP_OFFSET \in Nat
      BY <2>2 DEF IrqVectors, PIC_REMAP_OFFSET
    <3> QED BY <3>1, EndsOnly
  <2> HIDE DEF list
  <2>5. /\ writes' \in Seq(Seq(WriteRecord)) /\ Len(writes') = Len(writes)
        /\ \A k \in 1 .. Len(writes) : writes'[k] = IF k = Depth + 1 THEN list ELSE writes[k]
    <3>1. Depth + 1 \in 1 .. Len(writes)
      BY <2>1
    <3> QED BY <2>1, <2>3, <2>4, <3>1, ExceptSeq
  <2>6. /\ \A k \in 1 .. Depth : writes'[k] = writes[k]
        /\ writes'[Depth + 1] = list
    BY <2>1, <2>5
  <2>7. iflag \in BOOLEAN /\ "ret" \in Places
    BY DEF IInv, KernelTypeOK, CpuVarsOK, Places
  <2>8. KernelTypeOK' /\ Frames' /\ Handlers' /\ BootState' /\ ChipsTold'
    BY <2>1, <2>3, <2>4, <2>5, <2>6, <2>7, Dispatched
  <2>9. Top.vector >= 32
    BY <2>2 DEF IrqVectors, PIC_REMAP_OFFSET
  <2>10. Final'
    BY <2>1, <2>3, <2>7, <2>9, FinalOf
  <2> QED BY <2>8, <2>10 DEF IInv
<1>3. CASE i686_Panic
  <2>1. /\ Depth \in Nat /\ Depth > 0 /\ mode = "run"
        /\ Len(writes) = Depth + 1 /\ writes \in Seq(Seq(WriteRecord))
        /\ writes[Depth + 1] = <<>>
    BY <1>3, InHandlerFacts DEF i686_Panic
  <2>2. /\ GoTo("hlt") /\ mode' = "halt" /\ iflag' = FALSE
        /\ UNCHANGED <<kernelVars, picVars, stack, writes, nmis>>
    BY <1>3 DEF i686_Panic
  <2>3. "hlt" \in Places /\ "hlt" # "irq"
    BY DEF Places
  <2>4. KernelTypeOK' /\ Frames' /\ Handlers' /\ BootState' /\ ChipsTold'
    <3>1. mode' \in {"run", "halt"} /\ iflag' \in BOOLEAN
      BY <2>2
    <3>2. /\ writes' = writes /\ writes' \in Seq(Seq(WriteRecord))
          /\ Len(writes') = Len(writes) /\ writes'[Depth + 1] = <<>>
      BY <2>1, <2>2
    <3>3. \A i \in 1 .. Len(writes'[Depth + 1]) :
            writes'[Depth + 1][i].port = "command" /\ writes'[Depth + 1][i].byte = EOI
      BY <3>2
    <3>4. UNCHANGED <<kernelVars, picVars, stack, nmis>>
      BY <2>2
    <3> QED BY <2>1, <2>2, <2>3, <3>1, <3>2, <3>3, <3>4, Dispatched
  <2>5. Final'
    BY <2>1, <2>2, <2>3, FinalOf
  <2> QED BY <2>4, <2>5 DEF IInv
<1>4. CASE PanicFallsThrough
  <2>1. /\ Depth \in Nat /\ Depth > 0 /\ mode = "run" /\ Top.at = "hlt"
        /\ Len(writes) = Depth + 1 /\ writes \in Seq(Seq(WriteRecord))
        /\ writes[Depth + 1] = <<>>
    BY <1>4, InHandlerFacts DEF PanicFallsThrough
  <2>2. /\ GoTo("ret") /\ iflag' = TRUE
        /\ UNCHANGED <<kernelVars, picVars, mode, stack, writes, nmis>>
    BY <1>4 DEF PanicFallsThrough
  <2>3. NMI \in isrHandlers
    BY <2>1 DEF IInv, Final, Top
  <2>4. "ret" \in Places
    BY DEF Places
  <2>5. KernelTypeOK' /\ Frames' /\ Handlers' /\ BootState' /\ ChipsTold'
    BY <2>1, <2>2, <2>4, Dispatched
  <2>6. Final'
    BY <2>1, <2>2, <2>3, <2>4, FinalOf
  <2> QED BY <2>5, <2>6 DEF IInv
<1> QED BY <1>1, <1>2, <1>3, <1>4

\* iret goes back to the context before, which the words on the stack name.
LEMMA ReturnKeeps ==
  ASSUME IInv, Return
  PROVE  IInv'
<1>1. KernelTypeOK /\ Frames /\ Handlers /\ BootState /\ ChipsTold /\ Final
  BY DEF IInv
<1>2. /\ Depth \in Nat /\ Depth > 0 /\ mode = "run" /\ Top.at = "ret"
      /\ Regs("eip") = Depth - 1 /\ ((Regs("eflags") = 1) <=> Top.iflag)
      /\ Top \in ContextRecord
      /\ writes \in Seq(Seq(WriteRecord)) /\ Len(writes) = Depth + 1
  <2>1. InHandler("ret")
    BY DEF Return, InHandler
  <2> QED BY <2>1, InHandlerFacts
<1>3. /\ contexts \in Seq(ContextRecord) /\ Len(contexts) = Depth
      /\ stack \in Seq(WordRecord) /\ Len(stack) = 2 + 7 * Depth
  BY <1>1 DEF KernelTypeOK, CpuVarsOK, Frames, StackMatchesContexts, Depth
<1>4. /\ contexts' = SubSeq(contexts, 1, Depth - 1)
      /\ writes' = SubSeq(writes, 1, Depth)
      /\ stack' = SubSeq(stack, 1, 2 + 7 * Depth - 7)
      /\ iflag' = Top.iflag
      /\ UNCHANGED <<kernelVars, picVars, mode, nmis>>
  <2>1. Depth - 1 + 1 = Depth
    BY <1>2
  <2>2. Top.iflag \in BOOLEAN
    BY <1>2 DEF ContextRecord
  <2> QED BY <1>2, <1>3, <2>1, <2>2 DEF Return
<1>5. /\ contexts' \in Seq(ContextRecord) /\ Len(contexts') = Depth - 1
      /\ \A k \in 1 .. Depth - 1 : contexts'[k] = contexts[k]
  <2>1. 1 \in Int /\ Depth - 1 \in Int /\ \A k \in 1 .. Depth - 1 : contexts[k] \in ContextRecord
    BY <1>2, <1>3, ElementOfSeq
  <2>2. /\ SubSeq(contexts, 1, Depth - 1) \in Seq(ContextRecord)
        /\ Len(SubSeq(contexts, 1, Depth - 1)) =
             IF 1 <= Depth - 1 THEN Depth - 1 - 1 + 1 ELSE 0
        /\ \A i \in 1 .. Depth - 1 - 1 + 1 :
             SubSeq(contexts, 1, Depth - 1)[i] = contexts[1 + i - 1]
    BY <2>1, SubSeqProperties
  <2>3. Len(contexts') = Depth - 1
    BY <1>2, <1>4, <2>2
  <2>4. ASSUME NEW k \in 1 .. Depth - 1 PROVE contexts'[k] = contexts[k]
    <3>1. k \in 1 .. Depth - 1 - 1 + 1 /\ 1 + k - 1 = k
      BY <1>2
    <3> QED BY <1>4, <2>2, <3>1
  <2> QED BY <1>4, <2>2, <2>3, <2>4
<1>6. /\ writes' \in Seq(Seq(WriteRecord)) /\ Len(writes') = Depth
      /\ \A k \in 1 .. Depth : writes'[k] = writes[k]
  <2>1. 1 \in Int /\ Depth \in Int /\ \A k \in 1 .. Depth : writes[k] \in Seq(WriteRecord)
    BY <1>2, ElementOfSeq
  <2>2. /\ SubSeq(writes, 1, Depth) \in Seq(Seq(WriteRecord))
        /\ Len(SubSeq(writes, 1, Depth)) = IF 1 <= Depth THEN Depth - 1 + 1 ELSE 0
        /\ \A i \in 1 .. Depth - 1 + 1 : SubSeq(writes, 1, Depth)[i] = writes[1 + i - 1]
    BY <2>1, SubSeqProperties
  <2>3. Len(writes') = Depth
    BY <1>2, <1>4, <2>2
  <2>4. ASSUME NEW k \in 1 .. Depth PROVE writes'[k] = writes[k]
    <3>1. k \in 1 .. Depth - 1 + 1 /\ 1 + k - 1 = k
      BY <1>2
    <3> QED BY <1>4, <2>2, <3>1
  <2> QED BY <1>4, <2>2, <2>3, <2>4
<1> DEFINE m == 2 + 7 * Depth - 7
<1>7. m \in Nat /\ m = 2 + 7 * (Depth - 1) /\ m <= Len(stack)
  BY <1>2, <1>3
<1>8. /\ stack' \in Seq(WordRecord) /\ Len(stack') = 2 + 7 * (Depth - 1)
      /\ \A i \in 1 .. 2 + 7 * (Depth - 1) : stack'[i] = stack[i]
  <2>0. stack' = SubSeq(stack, 1, m)
    BY <1>4
  <2> HIDE DEF m
  <2>1. 1 \in Int /\ m \in Int /\ \A i \in 1 .. m : stack[i] \in WordRecord
    BY <1>3, <1>7, ElementOfSeq
  <2>2. /\ SubSeq(stack, 1, m) \in Seq(WordRecord)
        /\ Len(SubSeq(stack, 1, m)) = IF 1 <= m THEN m - 1 + 1 ELSE 0
        /\ \A i \in 1 .. m - 1 + 1 : SubSeq(stack, 1, m)[i] = stack[1 + i - 1]
    BY <2>1, SubSeqProperties
  <2>3. Len(stack') = m /\ \A i \in 1 .. m : stack'[i] = stack[i]
    BY <1>7, <2>0, <2>2
  <2> QED BY <1>7, <2>0, <2>2, <2>3
<1> HIDE DEF m
<1>9. Depth' = Depth - 1
  BY <1>5 DEF Depth
<1>10. KernelTypeOK'
  <2>1. KernelVarsOK'
    BY <1>1, <1>4, KernelVarsKept DEF KernelTypeOK
  <2>2. PicVarsOK'
    BY <1>1, <1>4 DEF KernelTypeOK, PicVarsOK, picVars
  <2>3. Top.iflag \in BOOLEAN
    BY <1>2 DEF ContextRecord
  <2>4. CpuVarsOK'
    BY <1>1, <1>4, <1>5, <1>6, <2>3 DEF KernelTypeOK, CpuVarsOK
  <2> QED BY <2>1, <2>2, <2>4 DEF KernelTypeOK
<1>11. Frames'
  <2>1. Len(stack') = 2 + 7 * Depth' /\ Len(writes') = Depth' + 1
    BY <1>2, <1>6, <1>8, <1>9
  <2>2. ASSUME NEW k \in 1 .. Depth'
        PROVE  /\ stack'[2 + 7 * (k - 1) + 1].value = (IF contexts'[k].iflag THEN 1 ELSE 0)
               /\ stack'[2 + 7 * (k - 1) + 3].value = k - 1
               /\ stack'[2 + 7 * (k - 1) + 4].value = contexts'[k].error
               /\ stack'[2 + 7 * (k - 1) + 5].value = contexts'[k].vector
    <3>1. k \in 1 .. Depth /\ k \in 1 .. Depth - 1
      BY <1>2, <1>9
    <3>2. \A i \in 1 .. 7 : stack'[2 + 7 * (k - 1) + i] = stack[2 + 7 * (k - 1) + i]
      <4>1. \A i \in 1 .. 7 : 2 + 7 * (k - 1) + i \in 1 .. 2 + 7 * (Depth - 1)
        BY <1>2, <3>1
      <4> QED BY <1>8, <4>1
    <3>3. /\ stack[2 + 7 * (k - 1) + 1].value = (IF contexts[k].iflag THEN 1 ELSE 0)
          /\ stack[2 + 7 * (k - 1) + 3].value = k - 1
          /\ stack[2 + 7 * (k - 1) + 4].value = contexts[k].error
          /\ stack[2 + 7 * (k - 1) + 5].value = contexts[k].vector
      BY <1>1, <3>1 DEF Frames, StackMatchesContexts
    <3> QED BY <1>5, <3>1, <3>2, <3>3
  <2>3. StackMatchesContexts'
    BY <2>1, <2>2 DEF StackMatchesContexts
  <2> QED BY <1>8, <2>3 DEF Frames
<1>12. Handlers'
  <2>1. ASSUME NEW k \in 1 .. Depth'
        PROVE  /\ contexts'[k].line # NoLine =>
                    contexts'[k].vector = PIC_REMAP_OFFSET + contexts'[k].line
               /\ contexts'[k].at = "irq" => contexts'[k].vector \in IrqVectors
               /\ \A i \in 1 .. Len(writes'[k + 1]) :
                    writes'[k + 1][i].port = "command" /\ writes'[k + 1][i].byte = EOI
    <3>1. k \in 1 .. Depth /\ k \in 1 .. Depth - 1 /\ k + 1 \in 1 .. Depth
      BY <1>2, <1>9
    <3>2. contexts'[k] = contexts[k] /\ writes'[k + 1] = writes[k + 1]
      BY <1>5, <1>6, <3>1
    <3> QED BY <1>1, <3>1, <3>2 DEF Handlers, VectorIsLine
  <2>2. mode' \notin {"inta", "cascade"}
    BY <1>2, <1>4
  <2> QED BY <2>1, <2>2 DEF Handlers, VectorIsLine
<1>13. BootState'
  <2>1. Depth' > 0 => Depth > 0
    BY <1>2, <1>9
  <2> QED BY <1>1, <1>4, <2>1 DEF BootState, kernelVars, picVars
<1>14. ChipsTold'
  <2>1. writes'[1] = writes[1] /\ UNCHANGED <<pc, fitted, picMask, pics>>
    BY <1>2, <1>4, <1>6 DEF kernelVars, picVars
  <2> QED BY <1>1, <2>1, ChipsKept
<1>15. Final'
  <2>1. isrHandlers' = isrHandlers /\ (Ready' <=> Ready)
    BY <1>4 DEF kernelVars, picVars, Ready
  <2> SUFFICES ASSUME NMI \notin isrHandlers
               PROVE  Final'
    BY <2>1 DEF Final
  <2>2. Top.iflag => Ready
    BY <1>1, <1>2 DEF Final, Top
  <2>3. Top.vector # NMI
    <3>1. Top.vector \in isrHandlers \/ Top.vector >= 32
      BY <1>1, <1>2 DEF Final, Top
    <3> QED BY <3>1 DEF NMI
  <2>4. ASSUME NEW k \in 1 .. Depth'
        PROVE  /\ contexts'[k].iflag => Ready
               /\ contexts'[k].at = "ret" =>
                    contexts'[k].vector \in isrHandlers \/ contexts'[k].vector >= 32
               /\ contexts'[k].at = "hlt" => k < Depth' /\ contexts'[k + 1].vector = NMI
    <3>1. k \in 1 .. Depth /\ k \in 1 .. Depth - 1 /\ contexts'[k] = contexts[k]
      BY <1>2, <1>5, <1>9
    <3>2. /\ contexts[k].iflag => Ready
          /\ contexts[k].at = "ret" =>
               contexts[k].vector \in isrHandlers \/ contexts[k].vector >= 32
          /\ contexts[k].at = "hlt" => k < Depth /\ contexts[k + 1].vector = NMI
      BY <1>1, <1>2, <3>1 DEF Final
    <3>3. ASSUME contexts[k].at = "hlt"
          PROVE  k < Depth' /\ contexts'[k + 1].vector = NMI
      <4>1. k + 1 # Depth
        BY <2>3, <3>2, <3>3 DEF Top
      <4>2. k + 1 \in 1 .. Depth - 1 /\ k < Depth'
        BY <1>2, <1>9, <3>1, <4>1
      <4> QED BY <1>5, <3>2, <3>3, <4>2
    <3> QED BY <3>1, <3>2, <3>3
  <2>5. iflag' => Ready
    BY <1>4, <2>2
  <2> QED BY <2>1, <2>4, <2>5 DEF Final
<1> QED BY <1>10, <1>11, <1>12, <1>13, <1>14, <1>15 DEF IInv

-----------------------------------------------------------------------------
(* Port writes.                                                            *)

LEMMA WrittenChip ==
  ASSUME NEW chip \in Chip, NEW w \in WriteRecord
  PROVE  Written(chip, w) \in Chip
<1>1. /\ chip.isr \subseteq Inputs /\ chip.irr \subseteq Inputs /\ chip.imr \in Nat
      /\ chip.offset \in Nat /\ w.byte \in Nat
  BY DEF Chip, WriteRecord
<1>2. Commanded(chip, w.byte) \in Chip
  <2>1. chip.isr \ Highest(chip.isr) \in SUBSET Inputs
    BY <1>1
  <2>2. [chip EXCEPT !.isr = chip.isr \ Highest(chip.isr)] \in Chip
    BY <2>1 DEF Chip
  <2>3. [chip EXCEPT !.expects = "icw2", !.imr = 0, !.irr = {}, !.isr = {}] \in Chip
    BY DEF Chip
  <2> QED BY <2>2, <2>3 DEF Commanded
<1>3. Loaded(chip, w.byte) \in Chip
  <2>1. w.byte - (w.byte % 8) \in Nat
    BY <1>1
  <2> DEFINE o == w.byte - (w.byte % 8)
  <2> HIDE DEF o
  <2>2. /\ [chip EXCEPT !.expects = "icw3", !.offset = o] \in Chip
        /\ [chip EXCEPT !.expects = "icw4"] \in Chip
        /\ [chip EXCEPT !.expects = "mask"] \in Chip
        /\ [chip EXCEPT !.imr = w.byte] \in Chip
    BY <1>1, <2>1 DEF Chip, o
  <2>3. CASE chip.expects = "icw2"
    BY <2>2, <2>3 DEF Loaded, o
  <2>4. CASE chip.expects = "icw3"
    BY <2>2, <2>4 DEF Loaded
  <2>5. CASE chip.expects = "icw4"
    BY <2>2, <2>5 DEF Loaded
  <2>6. CASE chip.expects = "mask"
    BY <2>2, <2>6 DEF Loaded
  <2> QED BY <2>3, <2>4, <2>5, <2>6 DEF Chip
<1> QED BY <1>2, <1>3 DEF Written

\* What a port write leaves of the writes of the running context.
LEMMA PortWriteFacts ==
  ASSUME IInv, PortWrite
  PROVE  /\ Depth \in Nat /\ Depth' = Depth
         /\ Pending \in Seq(WriteRecord) /\ Len(Pending) \in Nat /\ Len(Pending) > 0
         /\ Head(Pending) = Pending[1] /\ Pending[1] \in WriteRecord
         /\ writes' \in Seq(Seq(WriteRecord)) /\ Len(writes') = Len(writes)
         /\ \A k \in 1 .. Depth : writes'[k] = writes[k]
         /\ writes'[Depth + 1] = Tail(Pending)
         /\ Len(writes'[Depth + 1]) = Len(Pending) - 1
         /\ \A i \in 1 .. Len(Pending) - 1 : writes'[Depth + 1][i] = Pending[i + 1]
<1>1. KernelTypeOK /\ Frames
  BY DEF IInv
<1>2. /\ Depth \in Nat /\ writes \in Seq(Seq(WriteRecord)) /\ Len(writes) = Depth + 1
  BY <1>1, LenProperties DEF KernelTypeOK, CpuVarsOK, Frames, StackMatchesContexts, Depth
<1>3. Depth + 1 \in 1 .. Len(writes)
  BY <1>2
<1>4. Pending \in Seq(WriteRecord) /\ Pending # <<>>
  BY <1>2, <1>3, ElementOfSeq DEF Pending, PortWrite
<1>5. /\ Len(Pending) \in Nat /\ Len(Pending) > 0
      /\ Head(Pending) = Pending[1] /\ Pending[1] \in WriteRecord
  <2>1. Len(Pending) \in Nat /\ Len(Pending) # 0
    BY <1>4, LenProperties, EmptySeq
  <2>2. 1 \in 1 .. Len(Pending)
    BY <2>1
  <2> QED BY <1>4, <2>1, <2>2, ElementOfSeq, HeadTailProperties
<1>6. /\ Tail(Pending) \in Seq(WriteRecord) /\ Len(Tail(Pending)) = Len(Pending) - 1
      /\ \A i \in 1 .. Len(Pending) - 1 : Tail(Pending)[i] = Pending[i + 1]
  BY <1>4, <1>5, HeadTailProperties
<1>7. writes' = [writes EXCEPT ![Depth + 1] = Tail(Pending)]
  BY DEF PortWrite, Pending
<1>8. /\ writes' \in Seq(Seq(WriteRecord)) /\ Len(writes') = Len(writes)
      /\ \A k \in 1 .. Len(writes) :
           writes'[k] = IF k = Depth + 1 THEN Tail(Pending) ELSE writes[k]
  BY <1>2, <1>3, <1>6, <1>7, ExceptSeq
<1>9. /\ \A k \in 1 .. Depth : writes'[k] = writes[k]
      /\ writes'[Depth + 1] = Tail(Pending)
  BY <1>2, <1>8
<1>10. Depth' = Depth
  BY DEF PortWrite, Depth
<1> QED BY <1>2, <1>4, <1>5, <1>6, <1>8, <1>9, <1>10

\* What a chip makes of a byte on its data port, by what it expects there.
LEMMA LoadedFields ==
  ASSUME NEW chip \in Chip, NEW byte \in Nat
  PROVE  LET l == Loaded(chip, byte) IN
         /\ l.irr = chip.irr /\ l.isr = chip.isr
         /\ chip.expects = "icw2" =>
              l.expects = "icw3" /\ l.offset = byte - (byte % 8) /\ l.imr = chip.imr
         /\ chip.expects = "icw3" =>
              l.expects = "icw4" /\ l.offset = chip.offset /\ l.imr = chip.imr
         /\ chip.expects = "icw4" =>
              l.expects = "mask" /\ l.offset = chip.offset /\ l.imr = chip.imr
         /\ chip.expects = "mask" =>
              l.expects = "mask" /\ l.offset = chip.offset /\ l.imr = byte
<1> DEFINE o == byte - (byte % 8)
<1>1. Loaded(chip, byte) =
        IF chip.expects = "icw2" THEN [chip EXCEPT !.expects = "icw3", !.offset = o]
        ELSE IF chip.expects = "icw3" THEN [chip EXCEPT !.expects = "icw4"]
        ELSE IF chip.expects = "icw4" THEN [chip EXCEPT !.expects = "mask"]
        ELSE [chip EXCEPT !.imr = byte]
  <2>1. CASE chip.expects = "icw2"
    BY <2>1 DEF Loaded
  <2>2. CASE chip.expects = "icw3"
    BY <2>2 DEF Loaded
  <2>3. CASE chip.expects = "icw4"
    BY <2>3 DEF Loaded
  <2>4. CASE chip.expects \notin {"icw2", "icw3", "icw4"}
    BY <2>4 DEF Loaded
  <2> QED BY <2>1, <2>2, <2>3, <2>4
<1> HIDE DEF o
<1> DEFINE l == Loaded(chip, byte)
<1>2. CASE chip.expects = "icw2"
  <2>1. l = [chip EXCEPT !.expects = "icw3", !.offset = o]
    BY <1>1, <1>2
  <2> QED BY <1>2, <2>1 DEF Chip, o
<1>3. CASE chip.expects = "icw3"
  <2>1. l = [chip EXCEPT !.expects = "icw4"]
    BY <1>1, <1>3
  <2> QED BY <1>3, <2>1 DEF Chip
<1>4. CASE chip.expects = "icw4"
  <2>1. l = [chip EXCEPT !.expects = "mask"]
    BY <1>1, <1>4
  <2> QED BY <1>4, <2>1 DEF Chip
<1>5. CASE chip.expects = "mask"
  <2>1. l = [chip EXCEPT !.imr = byte]
    BY <1>1, <1>5
  <2> QED BY <1>5, <2>1 DEF Chip
<1> QED BY <1>2, <1>3, <1>4, <1>5 DEF Chip

LEMMA CommandedFields ==
  ASSUME NEW chip \in Chip, NEW byte \in Nat
  PROVE  LET l == Commanded(chip, byte) IN
         /\ byte = ICW1 => l.expects = "icw2" /\ l.offset = chip.offset
         /\ byte # ICW1 => /\ l.expects = chip.expects /\ l.offset = chip.offset
                           /\ l.imr = chip.imr
BY DEF Commanded, Chip

\* One more write of i8259_Configure told to the chips.
LEMMA ToldStep ==
  ASSUME pics \in [Chips -> Chip], NEW n \in 0 .. 11, Told(n),
         NEW w \in WriteRecord, w = ConfigWrite[n + 1],
         pics' = [pics EXCEPT ![w.chip] = Written(@, w)]
  PROVE  Told(n + 1)'
<1>1. pics[1] \in Chip /\ pics[2] \in Chip
  BY DEF Chips
<1>2. /\ w.chip = 1 => pics'[2] = pics[2] /\ pics'[1] = Written(pics[1], w)
      /\ w.chip = 2 => pics'[1] = pics[1] /\ pics'[2] = Written(pics[2], w)
  <2>1. 1 \in Chips /\ 2 \in Chips /\ 1 # 2
    BY DEF Chips
  <2>2. ASSUME w.chip = 1
        PROVE  pics'[2] = pics[2] /\ pics'[1] = Written(pics[1], w)
    BY <2>1, <2>2
  <2>3. ASSUME w.chip = 2
        PROVE  pics'[1] = pics[1] /\ pics'[2] = Written(pics[2], w)
    BY <2>1, <2>3
  <2> QED BY <2>2, <2>3
<1>3. /\ n = 0 => w = Data(1, 255)
      /\ n = 1 => w = Data(2, 255)
      /\ n = 2 => w = Command(1, ICW1)
      /\ n = 3 => w = Command(2, ICW1)
      /\ n = 4 => w = Data(1, 32)
      /\ n = 5 => w = Data(2, 40)
      /\ n = 6 => w = Data(1, 4)
      /\ n = 7 => w = Data(2, 2)
      /\ n = 8 => w = Data(1, 1)
      /\ n = 9 => w = Data(2, 1)
      /\ n = 10 => w = Data(1, 255)
      /\ n = 11 => w = Data(2, 255)
  <2>1. /\ ConfigWrite[1] = Data(1, 255)      /\ ConfigWrite[2] = Data(2, 255)
        /\ ConfigWrite[3] = Command(1, ICW1)  /\ ConfigWrite[4] = Command(2, ICW1)
        /\ ConfigWrite[5] = Data(1, 32)       /\ ConfigWrite[6] = Data(2, 40)
        /\ ConfigWrite[7] = Data(1, 4)        /\ ConfigWrite[8] = Data(2, 2)
        /\ ConfigWrite[9] = Data(1, 1)        /\ ConfigWrite[10] = Data(2, 1)
        /\ ConfigWrite[11] = Data(1, 255)     /\ ConfigWrite[12] = Data(2, 255)
    BY DEF ConfigWrite
  <2> QED BY <2>1
<1>4. ASSUME NEW c \in {1, 2}, NEW b \in Nat
       PROVE  /\ Data(c, b).chip = c /\ Data(c, b).port = "data" /\ Data(c, b).byte = b
              /\ Command(c, b).chip = c /\ Command(c, b).port = "command"
              /\ Command(c, b).byte = b
  BY DEF Data, Command
<1>5. w.port = "data" => Written(pics[1], w) = Loaded(pics[1], w.byte)
  BY DEF Written
<1>6. w.port = "data" => Written(pics[2], w) = Loaded(pics[2], w.byte)
  BY DEF Written
<1>7. /\ n = 2 => pics'[2] = pics[2] /\ pics'[1] = Commanded(pics[1], ICW1)
      /\ n = 3 => pics'[1] = pics[1] /\ pics'[2] = Commanded(pics[2], ICW1)
  BY <1>2, <1>3, <1>4 DEF Written, ICW1
<1>8. CASE n \in {0, 6, 8, 10}
  <2>1. w.port = "data" /\ w.chip = 1 /\ w.byte \in Nat /\ (n = 10 => w.byte = 255)
    BY <1>3, <1>8, <1>4
  <2>2. pics'[2] = pics[2] /\ pics'[1] = Loaded(pics[1], w.byte)
    BY <1>2, <1>5, <2>1
  <2>3. /\ n \in {0, 10} => pics[1].expects = "mask"
        /\ n = 6 => pics[1].expects = "icw3"
        /\ n = 8 => pics[1].expects = "icw4"
    BY DEF Told
  <2>4. /\ n \in {0, 10} => pics'[1].expects = "mask" /\ pics'[1].imr = w.byte
        /\ n = 6 => pics'[1].expects = "icw4"
        /\ n = 8 => pics'[1].expects = "mask"
        /\ pics'[1].offset = pics[1].offset
    BY <1>1, <1>8, <2>1, <2>2, <2>3, LoadedFields
  <2> QED BY <1>8, <2>1, <2>2, <2>4 DEF Told
<1>9. CASE n \in {1, 7, 9, 11}
  <2>1. w.port = "data" /\ w.chip = 2 /\ w.byte \in Nat /\ (n = 11 => w.byte = 255)
    BY <1>3, <1>9, <1>4
  <2>2. pics'[1] = pics[1] /\ pics'[2] = Loaded(pics[2], w.byte)
    BY <1>2, <1>6, <2>1
  <2>3. /\ n \in {1, 11} => pics[2].expects = "mask"
        /\ n = 7 => pics[2].expects = "icw3"
        /\ n = 9 => pics[2].expects = "icw4"
    BY DEF Told
  <2>4. /\ n \in {1, 11} => pics'[2].expects = "mask" /\ pics'[2].imr = w.byte
        /\ n = 7 => pics'[2].expects = "icw4"
        /\ n = 9 => pics'[2].expects = "mask"
        /\ pics'[2].offset = pics[2].offset
    BY <1>1, <1>9, <2>1, <2>2, <2>3, LoadedFields
  <2> QED BY <1>9, <2>1, <2>2, <2>4 DEF Told
<1>10. CASE n \in {2, 3}
  <2>1. ICW1 \in Nat
    BY DEF ICW1
  <2>2. /\ n = 2 => pics'[1].expects = "icw2" /\ pics'[2] = pics[2]
        /\ n = 3 => pics'[2].expects = "icw2" /\ pics'[1] = pics[1]
    BY <1>1, <1>7, <2>1, CommandedFields
  <2> QED BY <1>10, <2>2 DEF Told
<1>11. CASE n = 4
  <2>0. w.port = "data" /\ w.chip = 1 /\ w.byte = 32
    BY <1>3, <1>11, <1>4
  <2>1. 32 - (32 % 8) = 32 /\ 32 \in Nat
    OBVIOUS
  <2>2. pics'[2] = pics[2] /\ pics'[1] = Loaded(pics[1], 32)
    BY <1>2, <1>5, <2>0
  <2>3. pics[1].expects = "icw2"
    BY <1>11 DEF Told
  <2>4. pics'[1].expects = "icw3" /\ pics'[1].offset = 32
    BY <1>1, <2>1, <2>2, <2>3, LoadedFields
  <2> QED BY <1>11, <2>2, <2>4 DEF Told
<1>12. CASE n = 5
  <2>0. w.port = "data" /\ w.chip = 2 /\ w.byte = 40
    BY <1>3, <1>12, <1>4
  <2>1. 40 - (40 % 8) = 40 /\ 40 \in Nat
    OBVIOUS
  <2>2. pics'[1] = pics[1] /\ pics'[2] = Loaded(pics[2], 40)
    BY <1>2, <1>6, <2>0
  <2>3. pics[2].expects = "icw2"
    BY <1>12 DEF Told
  <2>4. pics'[2].expects = "icw3" /\ pics'[2].offset = 40
    BY <1>1, <2>1, <2>2, <2>3, LoadedFields
  <2> QED BY <1>12, <2>2, <2>4 DEF Told
<1>13. \/ n \in {0, 6, 8, 10} \/ n \in {1, 7, 9, 11} \/ n \in {2, 3}
       \/ n = 4 \/ n = 5
  OBVIOUS
<1> QED BY <1>8, <1>9, <1>10, <1>11, <1>12, <1>13

LEMMA PortWriteKeeps ==
  ASSUME IInv, PortWrite
  PROVE  IInv'
<1> DEFINE w == Head(Pending)
<1>1. KernelTypeOK /\ Frames /\ Handlers /\ BootState /\ ChipsTold /\ Final
  BY DEF IInv
<1>2. /\ Depth \in Nat /\ Depth' = Depth
      /\ Pending \in Seq(WriteRecord) /\ Len(Pending) \in Nat /\ Len(Pending) > 0
      /\ w = Pending[1] /\ w \in WriteRecord
      /\ writes' \in Seq(Seq(WriteRecord)) /\ Len(writes') = Len(writes)
      /\ \A k \in 1 .. Depth : writes'[k] = writes[k]
      /\ writes'[Depth + 1] = Tail(Pending)
      /\ Len(writes'[Depth + 1]) = Len(Pending) - 1
      /\ \A i \in 1 .. Len(Pending) - 1 : writes'[Depth + 1][i] = Pending[i + 1]
  BY PortWriteFacts
<1>3. /\ UNCHANGED <<kernelVars, fitted, level, mode, iflag, stack, contexts, nmis>>
      /\ pics' = IF fitted THEN [pics EXCEPT ![w.chip] = Written(@, w)] ELSE pics
      /\ mode = "run"
  BY DEF PortWrite
<1> HIDE DEF w
<1>4. pics \in [Chips -> Chip] /\ w.chip \in Chips /\ PicVarsOK
  BY <1>1, <1>2 DEF KernelTypeOK, PicVarsOK, WriteRecord
<1>5. Written(pics[w.chip], w) \in Chip
  BY <1>2, <1>4, WrittenChip
<1>6. KernelTypeOK'
  <2>1. KernelVarsOK'
    BY <1>1, <1>3, KernelVarsKept DEF KernelTypeOK
  <2>2. PicVarsOK'
    BY <1>3, <1>4, <1>5 DEF PicVarsOK
  <2>3. CpuVarsOK'
    BY <1>1, <1>2, <1>3 DEF KernelTypeOK, CpuVarsOK
  <2> QED BY <2>1, <2>2, <2>3 DEF KernelTypeOK
<1>7. Frames'
  <2>1. stack' = stack /\ contexts' = contexts
    BY <1>3
  <2> QED BY <1>1, <1>2, <2>1, FramesKept
<1>8. Handlers'
  <2>1. ASSUME NEW k \in 1 .. Depth
        PROVE  \A i \in 1 .. Len(writes'[k + 1]) :
                 writes'[k + 1][i].port = "command" /\ writes'[k + 1][i].byte = EOI
    <3>1. \A i \in 1 .. Len(writes[k + 1]) :
            writes[k + 1][i].port = "command" /\ writes[k + 1][i].byte = EOI
      BY <1>1 DEF Handlers
    <3>2. CASE k = Depth
      <4>1. writes[k + 1] = Pending
        BY <3>2 DEF Pending
      <4>2. \A i \in 1 .. Len(Pending) : Pending[i].port = "command" /\ Pending[i].byte = EOI
        BY <3>1, <4>1
      <4>3. ASSUME NEW i \in 1 .. Len(Pending) - 1
            PROVE  /\ writes'[Depth + 1][i].port = "command"
                   /\ writes'[Depth + 1][i].byte = EOI
        <5>1. i + 1 \in 1 .. Len(Pending)
          BY <1>2
        <5> QED BY <1>2, <4>2, <5>1
      <4> QED BY <1>2, <3>2, <4>3
    <3>3. CASE k # Depth
      <4>1. k + 1 \in 1 .. Depth
        BY <1>2, <3>3
      <4> QED BY <1>2, <3>1, <4>1
    <3> QED BY <3>2, <3>3
  <2>2. mode' \notin {"inta", "cascade"} /\ contexts' = contexts
    BY <1>3
  <2> QED BY <1>1, <1>2, <2>1, <2>2 DEF Handlers, VectorIsLine
<1>9. BootState'
  BY <1>1, <1>2, <1>3 DEF BootState, kernelVars
<1>10. Final'
  <2>1. isrHandlers' = isrHandlers /\ (Ready' <=> Ready)
    BY <1>3 DEF kernelVars, Ready
  <2> QED BY <1>1, <1>2, <1>3, <2>1 DEF Final
<1>11. UNCHANGED <<pc, fitted, picMask>>
  BY <1>3 DEF kernelVars
<1>12. CASE Depth > 0
  <2>1. writes'[1] = writes[1]
    BY <1>2, <1>12
  <2>2. w.port = "command" /\ w.byte = EOI
    <3>1. Depth \in 1 .. Depth /\ 1 \in 1 .. Len(writes[Depth + 1])
      BY <1>2, <1>12 DEF Pending
    <3>2. writes[Depth + 1][1].port = "command" /\ writes[Depth + 1][1].byte = EOI
      BY <1>1, <3>1 DEF Handlers
    <3> QED BY <1>2, <3>2 DEF Pending
  <2>3. Written(pics[w.chip], w) = Commanded(pics[w.chip], EOI)
    BY <2>2 DEF Written
  <2> DEFINE chip == Written(pics[w.chip], w)
  <2>4. /\ chip.expects = pics[w.chip].expects /\ chip.offset = pics[w.chip].offset
        /\ chip.imr = pics[w.chip].imr
    <3>1. pics[w.chip] \in Chip /\ EOI \in Nat /\ EOI # ICW1
      BY <1>4 DEF EOI, ICW1
    <3> QED BY <2>3, <3>1, CommandedFields
  <2>5. \A d \in Chips : /\ pics'[d].expects = pics[d].expects
                         /\ pics'[d].offset = pics[d].offset
                         /\ pics'[d].imr = pics[d].imr
    <3>1. CASE fitted
      <4>1. pics' = [pics EXCEPT ![w.chip] = chip]
        BY <1>3, <3>1
      <4>2. chip \in Chip
        BY <1>5
      <4> HIDE DEF chip
      <4> QED BY <1>4, <2>4, <4>1, <4>2, OneChip
    <3>2. CASE ~fitted
      BY <1>3, <3>2
    <3> QED BY <3>1, <3>2
  <2>6. ChipsTold'
    BY <1>1, <1>11, <2>1, <2>5, ChipsKept
  <2> QED BY <1>6, <1>7, <1>8, <1>9, <1>10, <2>6 DEF IInv
<1>13. CASE Depth = 0
  <2>1. /\ Pending = writes[1] /\ Len(writes[1]) \in Nat /\ Len(writes[1]) > 0
        /\ w = writes[1][1] /\ writes'[1] = Tail(writes[1])
        /\ Len(writes'[1]) = Len(writes[1]) - 1
        /\ \A i \in 1 .. Len(writes[1]) - 1 : writes'[1][i] = writes[1][i + 1]
    <3>1. Depth + 1 = 1
      BY <1>13
    <3>2. Pending = writes[1]
      BY <3>1 DEF Pending
    <3> QED BY <1>2, <3>1, <3>2
  <2>2. writes[1] # <<>>
    BY <2>1
  <2>3. CASE pc = "probe"
    <3>1. Told(0) /\ MasksOnly
      BY <1>1, <2>3 DEF ChipsTold
    <3>2. w.port = "data" /\ w.byte \in Nat
      <4>1. 1 \in 1 .. Len(writes[1])
        BY <2>1
      <4> QED BY <1>2, <2>1, <3>1, <4>1 DEF MasksOnly, WriteRecord
    <3>3. MasksOnly'
      <4>1. ASSUME NEW i \in 1 .. Len(writes'[1])
            PROVE  writes'[1][i].port = "data"
        <5>1. i + 1 \in 1 .. Len(writes[1]) /\ i \in 1 .. Len(writes[1]) - 1
          BY <2>1
        <5> QED BY <2>1, <3>1, <5>1 DEF MasksOnly
      <4> QED BY <4>1 DEF MasksOnly
    <3>4. pics[1].expects = "mask" /\ pics[2].expects = "mask"
      BY <3>1 DEF Told
    <3>5. pics'[1].expects = "mask" /\ pics'[2].expects = "mask"
      <4>1. CASE fitted
        <5>1. pics' = [pics EXCEPT ![w.chip] = Loaded(pics[w.chip], w.byte)]
          BY <1>3, <3>2, <4>1 DEF Written
        <5>2. pics[w.chip] \in Chip /\ pics[w.chip].expects = "mask"
          BY <1>4, <3>4 DEF Chips
        <5>3. Loaded(pics[w.chip], w.byte).expects = "mask"
          BY <3>2, <5>2, LoadedFields
        <5> DEFINE l == Loaded(pics[w.chip], w.byte)
        <5> HIDE DEF l
        <5> QED BY <1>4, <3>4, <5>1, <5>3 DEF l, Chips
      <4>2. CASE ~fitted
        BY <1>3, <3>4, <4>2
      <4> QED BY <4>1, <4>2
    <3>6. Told(0)'
      BY <3>5 DEF Told
    <3>7. ChipsTold'
      BY <1>11, <2>3, <3>3, <3>6 DEF ChipsTold
    <3> QED BY <1>6, <1>7, <1>8, <1>9, <1>10, <3>7 DEF IInv
  <2>4. CASE pc = "configure"
    <3>1. fitted /\ picMask = ALL_MASKED /\ \E n \in 0 .. 12 : Told(n) /\ LeftAfter(n)
      BY <1>1, <2>4 DEF ChipsTold, BootState
    <3>2. PICK n \in 0 .. 12 : Told(n) /\ LeftAfter(n)
      BY <3>1
    <3>3. Len(writes[1]) = 12 - n /\ \A i \in 1 .. 12 - n : writes[1][i] = ConfigWrite[n + i]
      BY <3>2 DEF LeftAfter
    <3>4. n \in 0 .. 11
      BY <2>1, <3>3
    <3>5. w = ConfigWrite[n + 1]
      <4>1. 1 \in 1 .. 12 - n
        BY <3>4
      <4> QED BY <2>1, <3>3, <4>1
    <3>6. Told(n + 1)'
      <4>1. pics' = [pics EXCEPT ![ConfigWrite[n + 1].chip] =
                                     Written(@, ConfigWrite[n + 1])]
        BY <1>3, <3>1, <3>5
      <4>2. ConfigWrite[n + 1] \in WriteRecord
        BY <1>2, <3>5
      <4> DEFINE v == ConfigWrite[n + 1]
      <4>3. v \in WriteRecord /\ v = ConfigWrite[n + 1]
        BY <4>2
      <4>4. pics' = [pics EXCEPT ![v.chip] = Written(@, v)]
        BY <4>1
      <4> HIDE DEF v
      <4> QED BY <1>4, <3>2, <3>4, <4>3, <4>4, ToldStep
    <3>7. LeftAfter(n + 1)'
      <4>1. Len(writes'[1]) = 12 - (n + 1)
        BY <2>1, <3>3, <3>4
      <4>2. ASSUME NEW i \in 1 .. 12 - (n + 1)
            PROVE  writes'[1][i] = ConfigWrite[n + 1 + i]
        <5>1. /\ i \in 1 .. Len(writes[1]) - 1 /\ i + 1 \in 1 .. 12 - n
              /\ n + (i + 1) = n + 1 + i
          BY <2>1, <3>3, <3>4
        <5>2. writes'[1][i] = writes[1][i + 1]
          BY <2>1, <5>1
        <5>3. writes[1][i + 1] = ConfigWrite[n + (i + 1)]
          BY <3>3, <5>1
        <5> QED BY <5>1, <5>2, <5>3
      <4>3. ConfigWrite' = ConfigWrite
        BY DEF ConfigWrite, Data, Command
      <4> QED BY <4>1, <4>2, <4>3 DEF LeftAfter
    <3>8. n + 1 \in 0 .. 12
      BY <3>4
    <3>9. ChipsTold'
      BY <1>11, <2>4, <3>1, <3>6, <3>7, <3>8 DEF ChipsTold
    <3> QED BY <1>6, <1>7, <1>8, <1>9, <1>10, <3>9 DEF IInv
  <2>5. CASE pc \in {"sti", "running"}
    <3>1. fitted /\ Configured /\ MaskTold
      BY <1>1, <2>2, <2>5 DEF ChipsTold
    <3> DEFINE low == picMask % 256
               high == picMask \div 256
    <3>2. \/ writes[1] = <<Data(1, low), Data(2, high)>>
          \/ writes[1] = <<Data(2, high)>> /\ pics[1].imr = low
      BY <2>2, <3>1 DEF MaskTold, i8259_SetMask
    <3>3. /\ low' = low /\ high' = high
          /\ (MaskTold <=> \/ writes[1] = <<Data(1, low), Data(2, high)>>
                           \/ writes[1] = <<Data(2, high)>> /\ pics[1].imr = low
                           \/ writes[1] = <<>> /\ pics[1].imr = low /\ pics[2].imr = high)'
      BY <1>11 DEF MaskTold, i8259_SetMask, Data
    <3> HIDE DEF low, high
    <3>4. /\ pics[1].expects = "mask" /\ pics[1].offset = 32 /\ pics[1] \in Chip
          /\ pics[2].expects = "mask" /\ pics[2].offset = 40 /\ pics[2] \in Chip
          /\ 1 \in Chips /\ 2 \in Chips
      BY <1>4, <3>1 DEF Configured, Chips
    <3>5. pics' = [pics EXCEPT ![w.chip] = Written(@, w)]
      BY <1>3, <3>1
    <3>6. CASE writes[1] = <<Data(1, low), Data(2, high)>>
      <4>1. w = Data(1, low) /\ writes'[1] = <<Data(2, high)>>
        BY <2>1, <3>6
      <4>2. w.chip = 1 /\ w.port = "data" /\ w.byte = low /\ low \in Nat
        BY <1>2, <4>1 DEF Data, WriteRecord
      <4>3. pics'[1] = Loaded(pics[1], low) /\ pics'[2] = pics[2]
        BY <1>4, <3>4, <3>5, <4>2 DEF Written
      <4>4. pics'[1].expects = "mask" /\ pics'[1].offset = 32 /\ pics'[1].imr = low
        BY <3>4, <4>2, <4>3, LoadedFields
      <4>5. Configured'
        BY <3>4, <4>3, <4>4 DEF Configured
      <4>6. writes'[1] = <<Data(2, high)>>' /\ pics'[1].imr = low'
        BY <3>3, <4>1, <4>4 DEF Data
      <4>7. MaskTold'
        BY <3>3, <4>6
      <4>8. ChipsTold'
        BY <1>11, <2>5, <3>1, <4>5, <4>7 DEF ChipsTold
      <4> QED BY <1>6, <1>7, <1>8, <1>9, <1>10, <4>8 DEF IInv
    <3>7. CASE writes[1] = <<Data(2, high)>> /\ pics[1].imr = low
      <4>1. w = Data(2, high) /\ writes'[1] = <<>>
        BY <2>1, <3>7
      <4>2. w.chip = 2 /\ w.port = "data" /\ w.byte = high /\ high \in Nat
        BY <1>2, <4>1 DEF Data, WriteRecord
      <4>3. pics'[2] = Loaded(pics[2], high) /\ pics'[1] = pics[1]
        BY <1>4, <3>4, <3>5, <4>2 DEF Written
      <4>4. pics'[2].expects = "mask" /\ pics'[2].offset = 40 /\ pics'[2].imr = high
        BY <3>4, <4>2, <4>3, LoadedFields
      <4>5. Configured'
        BY <3>4, <4>3, <4>4 DEF Configured
      <4>6. writes'[1] = <<>> /\ pics'[1].imr = low' /\ pics'[2].imr = high'
        BY <3>3, <3>7, <4>1, <4>3, <4>4
      <4>7. MaskTold'
        BY <3>3, <4>6
      <4>8. ChipsTold'
        BY <1>11, <2>5, <3>1, <4>5, <4>7 DEF ChipsTold
      <4> QED BY <1>6, <1>7, <1>8, <1>9, <1>10, <4>8 DEF IInv
    <3> QED BY <3>2, <3>6, <3>7
  <2>6. pc \in {"probe", "configure", "sti", "running"}
    BY <1>1, <2>2 DEF ChipsTold, KernelTypeOK, KernelVarsOK
  <2> QED BY <2>3, <2>4, <2>5, <2>6
<1>14. Depth > 0 \/ Depth = 0
  BY <1>2
<1> QED BY <1>12, <1>13, <1>14

-----------------------------------------------------------------------------
(* Steps of start().                                                       *)

\* A step of start(), which no interrupt interrupts: what does not depend on
\* where in the boot it is.
LEMMA StartKeeps ==
  ASSUME IInv, InStart,
         UNCHANGED <<picVars, mode, stack, contexts, nmis>>,
         KernelVarsOK', isrHandlers \subseteq isrHandlers', iflag' \in BOOLEAN,
         iflag' /\ NMI \notin isrHandlers' => pc' = "running" /\ fitted,
         writes' \in Seq(Seq(WriteRecord)), Len(writes') = 1
  PROVE  KernelTypeOK' /\ Frames' /\ Handlers' /\ Final' /\ Depth' = 0
<1>1. KernelTypeOK /\ Frames /\ Handlers /\ Final
  BY DEF IInv
<1>2. Depth = 0 /\ mode = "run" /\ Depth' = Depth
  BY DEF InStart, Running, Depth
<1>3. KernelTypeOK'
  <2>1. PicVarsOK'
    BY <1>1 DEF KernelTypeOK, PicVarsOK, picVars
  <2>2. CpuVarsOK'
    BY <1>1 DEF KernelTypeOK, CpuVarsOK
  <2> QED BY <2>1, <2>2 DEF KernelTypeOK
<1>4. Frames'
  <2>1. Len(writes') = Depth' + 1 /\ Len(stack') = 2 + 7 * Depth' /\ 1 .. Depth' = {}
    BY <1>1, <1>2 DEF Frames, StackMatchesContexts
  <2> QED BY <1>1, <2>1 DEF Frames, StackMatchesContexts
<1>5. Handlers'
  <2>1. 1 .. Depth' = {} /\ mode' \notin {"inta", "cascade"}
    BY <1>2
  <2> QED BY <2>1 DEF Handlers, VectorIsLine
<1>6. Final'
  <2>1. 1 .. Depth' = {} /\ fitted' = fitted
    BY <1>2 DEF picVars
  <2> QED BY <2>1 DEF Final, Ready
<1> QED BY <1>2, <1>3, <1>4, <1>5, <1>6

LEMMA StartFacts ==
  ASSUME IInv, InStart
  PROVE  /\ Depth = 0 /\ writes \in Seq(Seq(WriteRecord)) /\ Len(writes) = 1
         /\ writes[1] = <<>> /\ iflag \in BOOLEAN
         /\ iflag /\ NMI \notin isrHandlers => pc = "running" /\ fitted
         /\ NMI \in isrHandlers => pc = "running"
         /\ KernelVarsOK /\ pics \in [Chips -> Chip]
<1>1. Depth = 0 /\ Pending = <<>>
  BY DEF InStart, Running
<1>2. Depth + 1 = 1
  BY <1>1
<1>3. writes[1] = <<>> /\ Len(writes) = 1
  BY <1>1, <1>2 DEF Pending, IInv, Frames, StackMatchesContexts
<1>4. NMI \in isrHandlers => pc = "running"
  <2>1. NMI \in 0 .. 31
    BY DEF NMI
  <2> QED BY <2>1 DEF IInv, BootState
<1>5. iflag /\ NMI \notin isrHandlers => pc = "running" /\ fitted
  BY DEF IInv, Final, Ready
<1> QED BY <1>1, <1>3, <1>4, <1>5 DEF IInv, KernelTypeOK, CpuVarsOK, PicVarsOK

\* start() makes a list of port writes its next ones.
LEMMA StartWrites ==
  ASSUME IInv, InStart, NEW list, list \in Seq(WriteRecord), Write(list)
  PROVE  writes' \in Seq(Seq(WriteRecord)) /\ Len(writes') = 1 /\ writes'[1] = list
<1>1. Depth = 0 /\ writes \in Seq(Seq(WriteRecord)) /\ Len(writes) = 1
  BY StartFacts
<1>2. Depth \in Nat /\ Depth + 1 \in 1 .. Len(writes)
  BY <1>1
<1>3. writes \in Seq(Seq(WriteRecord)) /\ writes' = [writes EXCEPT ![Depth + 1] = list]
  BY <1>1 DEF Write
<1>4. /\ writes' \in Seq(Seq(WriteRecord)) /\ Len(writes') = Len(writes)
      /\ \A k \in 1 .. Len(writes) : writes'[k] = IF k = Depth + 1 THEN list ELSE writes[k]
  BY <1>2, <1>3, ExceptSeq
<1> QED BY <1>1, <1>4

\* A bit that is not set may be added, one that is set taken away.
LEMMA BitSpace ==
  ASSUME NEW p \in Nat \ {0}, NEW n \in Nat, NEW total \in Nat, total = p * (2 * n),
         NEW mask \in Nat, mask < total
  PROVE  /\ (mask \div p) % 2 # 1 => mask + p \in Nat /\ mask + p < total
         /\ (mask \div p) % 2 = 1 => mask - p \in Nat /\ mask - p < total
<1> DEFINE q == mask \div p
           r == mask % p
<1>1. q \in Nat /\ r \in 0 .. p - 1 /\ mask = p * q + r
  OBVIOUS
<1> HIDE DEF q, r
<1>2. ASSUME q % 2 # 1
      PROVE  mask + p \in Nat /\ mask + p < total
  <2>1. PICK m \in Nat : q = 2 * m
    BY <1>1, <1>2
  <2>2. m < n
    <3>1. ASSUME m >= n PROVE FALSE
      <4>1. PICK d \in Nat : m = n + d
        BY <3>1, <2>1
      <4>2. p * (2 * m) = p * (2 * n) + 2 * (p * d) /\ p * d >= 0
        BY <4>1
      <4> QED BY <1>1, <2>1, <4>2
    <3> QED BY <3>1, <2>1
  <2>3. PICK d \in Nat : n = m + 1 + d
    <3>1. n - (m + 1) \in Nat
      BY <2>1, <2>2
    <3> QED BY <2>1, <3>1
  <2>4. p * (2 * n) = p * (2 * m) + 2 * p + 2 * (p * d) /\ p * d >= 0
    BY <2>1, <2>3
  <2> QED BY <1>1, <2>1, <2>4
<1>3. ASSUME q % 2 = 1
      PROVE  mask - p \in Nat /\ mask - p < total
  <2>1. PICK d \in Nat : q = 1 + d
    <3>1. q # 0
      BY <1>3
    <3> QED BY <1>1, <3>1
  <2>2. p * q = p + p * d /\ p * d >= 0
    BY <2>1
  <2> QED BY <1>1, <2>2
<1> QED BY <1>2, <1>3 DEF q

TWO_16 == 65536

\* The weight of each of sixteen bits, and that there is an even number of them in
\* 2^16.
LEMMA PowersOfTwo ==
  ASSUME NEW i \in 0 .. 15
  PROVE  2^i \in Nat \ {0} /\ \E n \in Nat : TWO_16 = 2^i * (2 * n)
<1>1. i = 0 => 2^i = 1  BY 2^0 = 1
<1>2. i = 1 => 2^i = 2  BY 2^1 = 2
<1>3. i = 2 => 2^i = 4  BY 2^2 = 4
<1>4. i = 3 => 2^i = 8  BY 2^3 = 8
<1>5. i = 4 => 2^i = 16  BY 2^4 = 16
<1>6. i = 5 => 2^i = 32  BY 2^5 = 32
<1>7. i = 6 => 2^i = 64  BY 2^6 = 64
<1>8. i = 7 => 2^i = 128  BY 2^7 = 128
<1>9. i = 8 => 2^i = 256  BY 2^8 = 256
<1>10. i = 9 => 2^i = 512  BY 2^9 = 512
<1>11. i = 10 => 2^i = 1024  BY 2^10 = 1024
<1>12. i = 11 => 2^i = 2048  BY 2^11 = 2048
<1>13. i = 12 => 2^i = 4096  BY 2^12 = 4096
<1>14. i = 13 => 2^i = 8192  BY 2^13 = 8192
<1>15. i = 14 => 2^i = 16384  BY 2^14 = 16384
<1>16. i = 15 => 2^i = 32768  BY 2^15 = 32768
<1> DEFINE p == 2^i
<1>17. p \in Nat \ {0} /\ 65536 % (2 * p) = 0
  <2> HIDE DEF p
  <2>1. p \in {1, 2, 4, 8, 16, 32, 64, 128, 256, 512, 1024, 2048, 4096, 8192, 16384, 32768}
    BY <1>1, <1>2, <1>3, <1>4, <1>5, <1>6, <1>7, <1>8, <1>9, <1>10, <1>11, <1>12,
       <1>13, <1>14, <1>15, <1>16 DEF p
  <2> QED BY <2>1
<1> HIDE DEF p
<1>18. \E n \in Nat : TWO_16 = p * (2 * n)
  <2> DEFINE d == 2 * p
             m == 65536 \div d
  <2>1. d \in Nat \ {0} /\ 65536 % d = 0
    BY <1>17
  <2>2. m \in Nat /\ 65536 = d * m
    <3> HIDE DEF d
    <3> QED BY <2>1
  <2> HIDE DEF m
  <2>3. 65536 = p * (2 * m)
    BY <1>17, <2>2
  <2>4. TWO_16 = p * (2 * m)
    BY <2>3 DEF TWO_16
  <2>5. m \in Nat
    BY <2>2
  <2> QED BY <2>4, <2>5
<1>19. p \in Nat \ {0}
  BY <1>17
<1> QED BY <1>18, <1>19 DEF p

\* The values of g_PicMask.
Masks == 0 .. ALL_MASKED

LEMMA MaskValues ==
  /\ ALL_MASKED \in Masks /\ PROBE_MASK \in Masks
  /\ ALL_MASKED % 256 = 255 /\ ALL_MASKED \div 256 = 255
  /\ \A x \in Masks : x \in Nat /\ x < TWO_16
  /\ \A x \in Nat : x < TWO_16 => x \in Masks
<1>1. /\ ALL_MASKED = 65535 /\ ALL_MASKED % 256 = 255 /\ ALL_MASKED \div 256 = 255
      /\ PROBE_MASK \in Nat /\ PROBE_MASK <= 65535 /\ TWO_16 = 65536
  BY DEF ALL_MASKED, PROBE_MASK, TWO_16
<1>2. /\ ALL_MASKED \in Nat /\ PROBE_MASK \in Nat /\ PROBE_MASK <= ALL_MASKED
      /\ TWO_16 = ALL_MASKED + 1
  BY <1>1
<1>3. ASSUME NEW x \in Nat
      PROVE  x \in Masks <=> x < TWO_16
  BY <1>2 DEF Masks
<1>4. \A x \in Masks : x \in Nat
  BY <1>2 DEF Masks
<1>5. ALL_MASKED \in Masks /\ PROBE_MASK \in Masks
  <2>1. ALL_MASKED < TWO_16 /\ PROBE_MASK < TWO_16
    BY <1>2
  <2> QED BY <1>2, <1>3, <2>1
<1> QED BY <1>1, <1>3, <1>4, <1>5

LEMMA SetMaskWrites ==
  ASSUME NEW mask \in Masks, NEW list, list = i8259_SetMask(mask)
  PROVE  /\ list \in Seq(WriteRecord) /\ Len(list) = 2
         /\ list[1] = Data(1, mask % 256) /\ list[2] = Data(2, mask \div 256)
         /\ list[1].port = "data" /\ list[2].port = "data"
<1>1. mask % 256 \in Nat /\ mask \div 256 \in Nat
  BY MaskValues
<1> DEFINE low == mask % 256
           high == mask \div 256
<1>2. low \in Nat /\ high \in Nat /\ list = <<Data(1, low), Data(2, high)>>
  BY <1>1 DEF i8259_SetMask
<1> HIDE DEF low, high
<1>3. Data(1, low) \in WriteRecord /\ Data(2, high) \in WriteRecord
  BY <1>2 DEF Data, WriteRecord, Chips
<1>4. Data(1, low).port = "data" /\ Data(2, high).port = "data"
  BY DEF Data
<1>5. list \in Seq(WriteRecord) /\ Len(list) = 2 /\ list[1] = Data(1, low) /\ list[2] = Data(2, high)
  BY <1>2, <1>3
<1> QED BY <1>4, <1>5 DEF low, high

\* ConfigWrite is what i8259_Configure is called for.
LEMMA ConfigureWrites ==
  LET list == i8259_Configure(PIC_REMAP_OFFSET, PIC_REMAP_OFFSET + 8) IN
  /\ list \in Seq(WriteRecord) /\ Len(list) = 12
  /\ \A i \in 1 .. 12 : list[i] = ConfigWrite[i]
<1> DEFINE a == i8259_SetMask(ALL_MASKED)
           b == <<Command(1, ICW1), Command(2, ICW1), Data(1, 32), Data(2, 40),
                  Data(1, 4), Data(2, 2), Data(1, 1), Data(2, 1)>>
           ab == a \o b
           list == ab \o a
<1>1. /\ a \in Seq(WriteRecord) /\ Len(a) = 2
      /\ a[1] = Data(1, 255) /\ a[2] = Data(2, 255)
  <2>1. ALL_MASKED \in Masks /\ ALL_MASKED % 256 = 255 /\ ALL_MASKED \div 256 = 255
    BY MaskValues
  <2>2. a = i8259_SetMask(ALL_MASKED)
    OBVIOUS
  <2> HIDE DEF a
  <2>3. /\ a \in Seq(WriteRecord) /\ Len(a) = 2
        /\ a[1] = Data(1, ALL_MASKED % 256) /\ a[2] = Data(2, ALL_MASKED \div 256)
    BY <2>1, <2>2, SetMaskWrites
  <2> QED BY <2>1, <2>3
<1>2. /\ b \in Seq(WriteRecord) /\ Len(b) = 8
      /\ b[1] = Command(1, ICW1) /\ b[2] = Command(2, ICW1)
      /\ b[3] = Data(1, 32) /\ b[4] = Data(2, 40)
      /\ b[5] = Data(1, 4) /\ b[6] = Data(2, 2)
      /\ b[7] = Data(1, 1) /\ b[8] = Data(2, 1)
  <2>1. ASSUME NEW c \in {1, 2}, NEW x \in Nat
        PROVE  Command(c, x) \in WriteRecord /\ Data(c, x) \in WriteRecord
    BY DEF Command, Data, WriteRecord, Chips
  <2>2. ICW1 \in Nat
    BY DEF ICW1
  <2> QED BY <2>1, <2>2
<1>3. i8259_Configure(PIC_REMAP_OFFSET, PIC_REMAP_OFFSET + 8) = list
  <2>1. PIC_REMAP_OFFSET = 32 /\ PIC_REMAP_OFFSET + 8 = 40
    BY DEF PIC_REMAP_OFFSET
  <2> QED BY <2>1 DEF i8259_Configure
<1> HIDE DEF a, b, ab, list
<1>4. /\ ab \in Seq(WriteRecord) /\ Len(ab) = 10
      /\ \A i \in 1 .. 10 : ab[i] = IF i <= 2 THEN a[i] ELSE b[i - 2]
  <2>1. /\ a \o b \in Seq(WriteRecord) /\ Len(a \o b) = Len(a) + Len(b)
        /\ \A i \in 1 .. Len(a) + Len(b) :
             (a \o b)[i] = IF i <= Len(a) THEN a[i] ELSE b[i - Len(a)]
    <3>1. a \in Seq(WriteRecord) /\ b \in Seq(WriteRecord)
      BY <1>1, <1>2
    <3> QED BY <3>1, ConcatProperties
  <2>2. Len(a) = 2 /\ Len(a) + Len(b) = 10
    BY <1>1, <1>2
  <2> QED BY <2>1, <2>2 DEF ab
<1>5. /\ list \in Seq(WriteRecord) /\ Len(list) = 12
      /\ \A i \in 1 .. 12 : list[i] = IF i <= 10 THEN ab[i] ELSE a[i - 10]
  <2>1. /\ ab \o a \in Seq(WriteRecord) /\ Len(ab \o a) = Len(ab) + Len(a)
        /\ \A i \in 1 .. Len(ab) + Len(a) :
             (ab \o a)[i] = IF i <= Len(ab) THEN ab[i] ELSE a[i - Len(ab)]
    <3>1. ab \in Seq(WriteRecord) /\ a \in Seq(WriteRecord)
      BY <1>1, <1>4
    <3> QED BY <3>1, ConcatProperties
  <2>2. Len(ab) = 10 /\ Len(ab) + Len(a) = 12
    BY <1>1, <1>4
  <2> QED BY <2>1, <2>2 DEF list
<1>6. /\ list[1] = Data(1, 255) /\ list[2] = Data(2, 255)
      /\ list[11] = Data(1, 255) /\ list[12] = Data(2, 255)
  BY <1>1, <1>4, <1>5
<1>7. /\ list[3] = b[1] /\ list[4] = b[2] /\ list[5] = b[3] /\ list[6] = b[4]
      /\ list[7] = b[5] /\ list[8] = b[6] /\ list[9] = b[7] /\ list[10] = b[8]
  BY <1>4, <1>5
<1>8. /\ ConfigWrite[1] = Data(1, 255) /\ ConfigWrite[2] = Data(2, 255)
      /\ ConfigWrite[3] = Command(1, ICW1) /\ ConfigWrite[4] = Command(2, ICW1)
      /\ ConfigWrite[5] = Data(1, 32) /\ ConfigWrite[6] = Data(2, 40)
      /\ ConfigWrite[7] = Data(1, 4) /\ ConfigWrite[8] = Data(2, 2)
      /\ ConfigWrite[9] = Data(1, 1) /\ ConfigWrite[10] = Data(2, 1)
      /\ ConfigWrite[11] = Data(1, 255) /\ ConfigWrite[12] = Data(2, 255)
  BY DEF ConfigWrite
<1>9. ASSUME NEW i \in 1 .. 12
      PROVE  list[i] = ConfigWrite[i]
  BY <1>2, <1>6, <1>7, <1>8
<1> QED BY <1>3, <1>5, <1>9

LEMMA ProbeWrites ==
  LET list == i8259_SetMask(ALL_MASKED) \o i8259_SetMask(PROBE_MASK) IN
  list \in Seq(WriteRecord) /\ \A i \in 1 .. Len(list) : list[i].port = "data"
<1> DEFINE a == i8259_SetMask(ALL_MASKED)
           b == i8259_SetMask(PROBE_MASK)
<1>1. ALL_MASKED \in Masks /\ PROBE_MASK \in Masks
  BY MaskValues
<1>2. a = i8259_SetMask(ALL_MASKED) /\ b = i8259_SetMask(PROBE_MASK)
  OBVIOUS
<1>3. /\ a \in Seq(WriteRecord) /\ Len(a) = 2 /\ \A i \in 1 .. 2 : a[i].port = "data"
      /\ b \in Seq(WriteRecord) /\ Len(b) = 2 /\ \A i \in 1 .. 2 : b[i].port = "data"
  <2> HIDE DEF a, b
  <2>1. /\ a \in Seq(WriteRecord) /\ Len(a) = 2 /\ a[1].port = "data" /\ a[2].port = "data"
    BY <1>1, <1>2, SetMaskWrites
  <2>2. /\ b \in Seq(WriteRecord) /\ Len(b) = 2 /\ b[1].port = "data" /\ b[2].port = "data"
    BY <1>1, <1>2, SetMaskWrites
  <2> QED BY <2>1, <2>2
<1> HIDE DEF a, b
<1>4. /\ a \o b \in Seq(WriteRecord) /\ Len(a \o b) = 4
      /\ \A i \in 1 .. 4 : (a \o b)[i] = IF i <= 2 THEN a[i] ELSE b[i - 2]
  <2>1. /\ a \o b \in Seq(WriteRecord) /\ Len(a \o b) = Len(a) + Len(b)
        /\ \A i \in 1 .. Len(a) + Len(b) :
             (a \o b)[i] = IF i <= Len(a) THEN a[i] ELSE b[i - Len(a)]
    <3>1. a \in Seq(WriteRecord) /\ b \in Seq(WriteRecord)
      BY <1>3
    <3> QED BY <3>1, ConcatProperties
  <2>2. Len(a) = 2 /\ Len(a) + Len(b) = 4
    BY <1>3
  <2> QED BY <2>1, <2>2
<1>5. ASSUME NEW i \in 1 .. 4
      PROVE  (a \o b)[i].port = "data"
  <2>1. CASE i <= 2
    BY <1>3, <1>4, <2>1
  <2>2. CASE ~(i <= 2)
    <3>1. i - 2 \in 1 .. 2
      BY <2>2
    <3> QED BY <1>3, <1>4, <2>2, <3>1
  <2> QED BY <2>1, <2>2
<1> QED BY <1>4, <1>5 DEF a, b

\* The types of the kernel's variables, one by one.
LEMMA KernelVarsFacts ==
  ASSUME KernelVarsOK
  PROVE  /\ idtLoaded \in BOOLEAN /\ gates \subseteq Vectors
         /\ isrHandlers \subseteq Vectors /\ irqHandlers \subseteq Irqs
         /\ picMask \in Masks
BY DEF KernelVarsOK, Masks

LEMMA KernelVarsStep ==
  ASSUME pc' \in {"idt", "isr", "irq", "probe", "configure", "sti", "running"},
         idtLoaded' \in BOOLEAN, gates' \subseteq Vectors,
         isrHandlers' \subseteq Vectors, irqHandlers' \subseteq Irqs, picMask' \in Masks
  PROVE  KernelVarsOK'
BY DEF KernelVarsOK, Masks

LEMMA BootKeeps ==
  ASSUME IInv, Boot
  PROVE  IInv'
<1>1. InStart
  BY DEF Boot, i686_IDT_Initialize, i686_ISR_Initialize, i8259_Probe, NoPicFound,
         ConfigurePic, RegisterIrqHandlers, i686_EnableInterrupts
<1>2. /\ Depth = 0 /\ writes \in Seq(Seq(WriteRecord)) /\ Len(writes) = 1
      /\ writes[1] = <<>> /\ iflag \in BOOLEAN
      /\ iflag /\ NMI \notin isrHandlers => pc = "running" /\ fitted
      /\ NMI \in isrHandlers => pc = "running"
      /\ idtLoaded \in BOOLEAN /\ gates \subseteq Vectors
      /\ isrHandlers \subseteq Vectors /\ irqHandlers \subseteq Irqs /\ picMask \in Masks
  BY <1>1, StartFacts, KernelVarsFacts
<1>3. BootState /\ ChipsTold
  BY DEF IInv
<1>4. CASE i686_IDT_Initialize
  <2>1. /\ pc = "idt" /\ pc' = "isr" /\ idtLoaded' = TRUE
        /\ UNCHANGED <<gates, isrHandlers, irqHandlers, picMask, picVars, cpuVars>>
    BY <1>4 DEF i686_IDT_Initialize
  <2>2. KernelVarsOK'
    BY <1>2, <2>1, KernelVarsStep
  <2>3. KernelTypeOK' /\ Frames' /\ Handlers' /\ Final' /\ Depth' = 0
    BY <1>1, <1>2, <2>1, <2>2, StartKeeps DEF cpuVars
  <2>4. BootState'
    BY <1>3, <2>1, <2>3 DEF BootState
  <2>5. ChipsTold'
    BY <1>2, <1>3, <2>1 DEF ChipsTold, Told, MasksOnly, cpuVars, picVars
  <2> QED BY <2>3, <2>4, <2>5 DEF IInv
<1>5. CASE i686_ISR_Initialize
  <2>1. /\ pc = "isr" /\ pc' = "irq" /\ gates' = Vectors \ {SYSCALL}
        /\ UNCHANGED <<idtLoaded, isrHandlers, irqHandlers, picMask, picVars, cpuVars>>
    BY <1>5 DEF i686_ISR_Initialize, i686_ISR_InitializeGates
  <2>2. KernelVarsOK'
    BY <1>2, <2>1, KernelVarsStep
  <2>3. KernelTypeOK' /\ Frames' /\ Handlers' /\ Final' /\ Depth' = 0
    BY <1>1, <1>2, <2>1, <2>2, StartKeeps DEF cpuVars
  <2>4. BootState'
    BY <1>3, <2>1, <2>3 DEF BootState
  <2>5. ChipsTold'
    BY <1>2, <1>3, <2>1 DEF ChipsTold, Told, MasksOnly, cpuVars, picVars
  <2> QED BY <2>3, <2>4, <2>5 DEF IInv
<1>6. CASE i8259_Probe
  <2> DEFINE list == i8259_SetMask(ALL_MASKED) \o i8259_SetMask(PROBE_MASK)
  <2>1. /\ pc = "irq" /\ pc' = "probe" /\ picMask' = PROBE_MASK
        /\ UNCHANGED <<idtLoaded, gates, isrHandlers, irqHandlers, picVars>>
        /\ UNCHANGED <<mode, iflag, stack, contexts, nmis>> /\ Write(list)
    BY <1>6 DEF i8259_Probe
  <2>2. list \in Seq(WriteRecord) /\ \A i \in 1 .. Len(list) : list[i].port = "data"
    BY ProbeWrites
  <2> HIDE DEF list
  <2>3. writes' \in Seq(Seq(WriteRecord)) /\ Len(writes') = 1 /\ writes'[1] = list
    BY <1>1, <2>1, <2>2, StartWrites
  <2>4. KernelVarsOK'
    BY <1>2, <2>1, KernelVarsStep, MaskValues
  <2>5. KernelTypeOK' /\ Frames' /\ Handlers' /\ Final' /\ Depth' = 0
    BY <1>1, <1>2, <2>1, <2>3, <2>4, StartKeeps
  <2>6. BootState'
    BY <1>3, <2>1, <2>5 DEF BootState
  <2>7. ChipsTold'
    <3>1. Told(0)'
      BY <1>3, <2>1 DEF ChipsTold, Told, picVars
    <3>2. MasksOnly'
      BY <2>2, <2>3 DEF MasksOnly
    <3> QED BY <2>1, <3>1, <3>2 DEF ChipsTold
  <2> QED BY <2>5, <2>6, <2>7 DEF IInv
<1>7. CASE NoPicFound
  <2>1. /\ pc = "probe" /\ pc' = "running" /\ ~fitted
        /\ UNCHANGED <<idtLoaded, gates, isrHandlers, irqHandlers, picMask, picVars, cpuVars>>
    BY <1>7 DEF NoPicFound
  <2>2. KernelVarsOK'
    BY <1>2, <2>1, KernelVarsStep
  <2>3. KernelTypeOK' /\ Frames' /\ Handlers' /\ Final' /\ Depth' = 0
    BY <1>1, <1>2, <2>1, <2>2, StartKeeps DEF cpuVars
  <2>4. BootState'
    BY <1>3, <2>1, <2>3 DEF BootState, picVars
  <2>5. ChipsTold'
    BY <1>2, <2>1 DEF ChipsTold, cpuVars, picVars
  <2> QED BY <2>3, <2>4, <2>5 DEF IInv
<1>8. CASE ConfigurePic
  <2> DEFINE list == i8259_Configure(PIC_REMAP_OFFSET, PIC_REMAP_OFFSET + 8)
  <2>1. /\ pc = "probe" /\ pc' = "configure" /\ fitted /\ picMask' = ALL_MASKED
        /\ UNCHANGED <<idtLoaded, gates, isrHandlers, irqHandlers, picVars>>
        /\ UNCHANGED <<mode, iflag, stack, contexts, nmis>> /\ Write(list)
    BY <1>8 DEF ConfigurePic
  <2>2. /\ list \in Seq(WriteRecord) /\ Len(list) = 12
        /\ \A i \in 1 .. 12 : list[i] = ConfigWrite[i]
    BY ConfigureWrites
  <2> HIDE DEF list
  <2>3. writes' \in Seq(Seq(WriteRecord)) /\ Len(writes') = 1 /\ writes'[1] = list
    BY <1>1, <2>1, <2>2, StartWrites
  <2>4. KernelVarsOK'
    BY <1>2, <2>1, KernelVarsStep, MaskValues
  <2>5. KernelTypeOK' /\ Frames' /\ Handlers' /\ Final' /\ Depth' = 0
    BY <1>1, <1>2, <2>1, <2>3, <2>4, StartKeeps
  <2>6. BootState'
    BY <1>3, <2>1, <2>5 DEF BootState, picVars
  <2>7. ChipsTold'
    <3>1. Told(0)'
      BY <1>3, <2>1 DEF ChipsTold, Told, picVars
    <3>2. LeftAfter(0)'
      <4>1. Len(writes'[1]) = 12 - 0
        BY <2>2, <2>3
      <4>2. ASSUME NEW i \in 1 .. 12 - 0
            PROVE  writes'[1][i] = ConfigWrite[0 + i]
        <5>1. i \in 1 .. 12 /\ 0 + i = i
          OBVIOUS
        <5> QED BY <2>2, <2>3, <5>1
      <4>3. ConfigWrite' = ConfigWrite
        BY DEF ConfigWrite, Data, Command
      <4> QED BY <4>1, <4>2, <4>3 DEF LeftAfter
    <3>3. 0 \in 0 .. 12
      OBVIOUS
    <3> QED BY <2>1, <3>1, <3>2, <3>3 DEF ChipsTold
  <2> QED BY <2>5, <2>6, <2>7 DEF IInv
<1>9. CASE RegisterIrqHandlers
  <2>1. /\ pc = "configure" /\ pc' = "sti"
        /\ isrHandlers' = isrHandlers \cup IrqVectors /\ gates' = gates \cup IrqVectors
        /\ UNCHANGED <<idtLoaded, irqHandlers, picMask, picVars, cpuVars>>
    BY <1>9 DEF RegisterIrqHandlers
  <2>2. KernelVarsOK'
    <3>1. IrqVectors \subseteq Vectors
      BY DEF IrqVectors, PIC_REMAP_OFFSET, Vectors
    <3> QED BY <1>1, <1>2, <2>1, <3>1, KernelVarsStep
  <2>3. KernelTypeOK' /\ Frames' /\ Handlers' /\ Final' /\ Depth' = 0
    BY <1>1, <1>2, <2>1, <2>2, StartKeeps DEF cpuVars
  <2>4. BootState'
    <3>1. isrHandlers \cap (0 .. 31) = {} /\ IrqVectors \cap (0 .. 31) = {}
      BY <1>3, <2>1 DEF BootState, IrqVectors, PIC_REMAP_OFFSET
    <3> QED BY <1>3, <2>1, <2>3, <3>1 DEF BootState, picVars
  <2>5. picMask = ALL_MASKED /\ \E n \in 0 .. 12 : Told(n) /\ LeftAfter(n)
    BY <1>3, <2>1 DEF ChipsTold
  <2>6. PICK n \in 0 .. 12 : Told(n) /\ LeftAfter(n)
    BY <2>5
  <2>7. n = 12
    <3>1. Len(writes[1]) = 12 - n /\ Len(writes[1]) = 0
      BY <1>2, <2>6 DEF LeftAfter
    <3> QED BY <3>1
  <2>8. /\ pics[1].expects = "mask" /\ pics[1].offset = 32 /\ pics[1].imr = 255
        /\ pics[2].expects = "mask" /\ pics[2].offset = 40 /\ pics[2].imr = 255
    BY <2>6, <2>7 DEF Told
  <2>9. Configured'
    BY <2>1, <2>8 DEF Configured, picVars
  <2>10. MaskTold'
    <3>1. ALL_MASKED % 256 = 255 /\ ALL_MASKED \div 256 = 255
      BY DEF ALL_MASKED
    <3>2. pics'[1].imr = picMask' % 256 /\ pics'[2].imr = picMask' \div 256 /\ writes'[1] = <<>>
      BY <1>2, <2>1, <2>5, <2>8, <3>1 DEF picVars, cpuVars
    <3> QED BY <3>2 DEF MaskTold
  <2>11. fitted'
    BY <1>3, <2>1 DEF BootState, picVars
  <2>12. ChipsTold'
    BY <2>1, <2>9, <2>10, <2>11 DEF ChipsTold
  <2> QED BY <2>3, <2>4, <2>12 DEF IInv
<1>10. CASE i686_EnableInterrupts
  <2>1. /\ pc = "sti" /\ pc' = "running" /\ iflag' = TRUE
        /\ UNCHANGED <<idtLoaded, gates, isrHandlers, irqHandlers, picMask, picVars,
                       mode, stack, contexts, writes, nmis>>
    BY <1>10 DEF i686_EnableInterrupts
  <2>2. KernelVarsOK'
    BY <1>2, <2>1, KernelVarsStep
  <2>3. fitted
    BY <1>3, <2>1 DEF BootState
  <2>4. KernelTypeOK' /\ Frames' /\ Handlers' /\ Final' /\ Depth' = 0
    BY <1>1, <1>2, <2>1, <2>2, <2>3, StartKeeps
  <2>5. BootState'
    BY <1>3, <2>1, <2>4 DEF BootState, picVars
  <2>6. ChipsTold'
    <3>1. Configured /\ MaskTold
      BY <1>3, <2>1, <2>3 DEF ChipsTold
    <3>2. Configured' /\ MaskTold'
      BY <2>1, <3>1 DEF Configured, MaskTold, i8259_SetMask, Data, picVars
    <3> QED BY <2>1, <2>3, <3>2 DEF ChipsTold, picVars
  <2> QED BY <2>4, <2>5, <2>6 DEF IInv
<1> QED BY <1>4, <1>5, <1>6, <1>7, <1>8, <1>9, <1>10 DEF Boot

\* A driver's mask stays a mask of sixteen lines.
LEMMA MaskRange ==
  ASSUME NEW mask \in Masks, NEW irq \in Irqs
  PROVE  i8259_Mask(mask, irq) \in Masks /\ i8259_Unmask(mask, irq) \in Masks
<1> DEFINE p == 2^irq
<1>1. p \in Nat \ {0} /\ \E n \in Nat : TWO_16 = p * (2 * n)
  <2>1. irq \in 0 .. 15
    BY DEF Irqs
  <2> QED BY <2>1, PowersOfTwo
<1>2. /\ Bit(mask, irq) <=> (mask \div p) % 2 = 1
      /\ i8259_Mask(mask, irq) = IF Bit(mask, irq) THEN mask ELSE mask + p
      /\ i8259_Unmask(mask, irq) = IF Bit(mask, irq) THEN mask - p ELSE mask
  BY DEF Bit, i8259_Mask, i8259_Unmask
<1> HIDE DEF p
<1>3. PICK n \in Nat : TWO_16 = p * (2 * n)
  BY <1>1
<1>4. /\ (mask \div p) % 2 # 1 => mask + p \in Nat /\ mask + p < TWO_16
      /\ (mask \div p) % 2 = 1 => mask - p \in Nat /\ mask - p < TWO_16
  <2>1. TWO_16 \in Nat /\ mask \in Nat /\ mask < TWO_16
    BY MaskValues DEF TWO_16
  <2> QED BY <1>1, <1>3, <2>1, BitSpace
<1>5. ASSUME NEW x \in Nat, x < TWO_16
      PROVE  x \in Masks
  BY <1>5, MaskValues
<1>6. CASE Bit(mask, irq)
  <2>1. (mask \div p) % 2 = 1
    BY <1>2, <1>6
  <2>2. mask - p \in Nat /\ mask - p < TWO_16
    BY <1>4, <2>1
  <2>3. mask - p \in Masks
    BY <1>5, <2>2
  <2> QED BY <1>2, <1>6, <2>3
<1>7. CASE ~Bit(mask, irq)
  <2>1. (mask \div p) % 2 # 1
    BY <1>2, <1>7
  <2>2. mask + p \in Nat /\ mask + p < TWO_16
    BY <1>4, <2>1
  <2>3. mask + p \in Masks
    BY <1>5, <2>2
  <2> QED BY <1>2, <1>7, <2>3
<1> QED BY <1>6, <1>7

LEMMA DriverKeeps ==
  ASSUME IInv, Driver
  PROVE  IInv'
<1>1. InStart /\ pc = "running"
  BY DEF Driver, RegisterIrqHandler, RegisterIsrHandler, SetMask, InDriver
<1>2. /\ Depth = 0 /\ writes \in Seq(Seq(WriteRecord)) /\ Len(writes) = 1
      /\ writes[1] = <<>> /\ iflag \in BOOLEAN
      /\ iflag /\ NMI \notin isrHandlers => pc = "running" /\ fitted
      /\ idtLoaded \in BOOLEAN /\ gates \subseteq Vectors
      /\ isrHandlers \subseteq Vectors /\ irqHandlers \subseteq Irqs /\ picMask \in Masks
  BY <1>1, StartFacts, KernelVarsFacts
<1>3. BootState /\ ChipsTold
  BY DEF IInv
<1>4. ASSUME NEW irq \in HookedLines, RegisterIrqHandler(irq)
      PROVE  IInv'
  <2>1. /\ irqHandlers' = irqHandlers \cup {irq}
        /\ UNCHANGED <<pc, idtLoaded, gates, isrHandlers, picMask, picVars, cpuVars>>
    BY <1>4 DEF RegisterIrqHandler
  <2>2. KernelVarsOK'
    <3>1. irq \in Irqs
      BY InterruptsAssumption
    <3> QED BY <1>1, <1>2, <2>1, <3>1, KernelVarsStep
  <2>3. KernelTypeOK' /\ Frames' /\ Handlers' /\ Final' /\ Depth' = 0
    BY <1>1, <1>2, <2>1, <2>2, StartKeeps DEF cpuVars
  <2>4. BootState'
    BY <1>3, <2>1, <2>3 DEF BootState, picVars
  <2>5. ChipsTold'
    BY <1>3, <2>1, ChipsKept DEF picVars, cpuVars
  <2> QED BY <2>3, <2>4, <2>5 DEF IInv
<1>5. ASSUME NEW v \in IsrHooks, RegisterIsrHandler(v)
      PROVE  IInv'
  <2>1. /\ isrHandlers' = isrHandlers \cup {v} /\ gates' = gates \cup {v}
        /\ UNCHANGED <<pc, idtLoaded, irqHandlers, picMask, picVars, cpuVars>>
    BY <1>5 DEF RegisterIsrHandler
  <2>2. KernelVarsOK'
    <3>1. v \in Vectors
      BY InterruptsAssumption DEF Vectors
    <3> QED BY <1>1, <1>2, <2>1, <3>1, KernelVarsStep
  <2>3. KernelTypeOK' /\ Frames' /\ Handlers' /\ Final' /\ Depth' = 0
    BY <1>1, <1>2, <2>1, <2>2, StartKeeps DEF cpuVars
  <2>4. BootState'
    BY <1>1, <1>3, <2>1, <2>3 DEF BootState, picVars
  <2>5. ChipsTold'
    BY <1>3, <2>1, ChipsKept DEF picVars, cpuVars
  <2> QED BY <2>3, <2>4, <2>5 DEF IInv
<1>6. ASSUME NEW irq \in DriverLines, NEW mask,
             mask = i8259_Mask(picMask, irq) \/ mask = i8259_Unmask(picMask, irq),
             SetMask(mask)
      PROVE  IInv'
  <2> DEFINE list == i8259_SetMask(mask)
  <2>1. /\ fitted /\ picMask' = mask /\ Write(list)
        /\ UNCHANGED <<pc, idtLoaded, gates, isrHandlers, irqHandlers, picVars>>
        /\ UNCHANGED <<mode, iflag, stack, contexts, nmis>>
    BY <1>6 DEF SetMask
  <2>2. mask \in Masks
    <3>1. irq \in Irqs /\ picMask \in Masks
      BY <1>2, InterruptsAssumption
    <3>2. i8259_Mask(picMask, irq) \in Masks /\ i8259_Unmask(picMask, irq) \in Masks
      BY <3>1, MaskRange
    <3> QED BY <1>6, <3>2
  <2>3. list \in Seq(WriteRecord) /\ list = i8259_SetMask(mask)
    BY <2>2, SetMaskWrites
  <2> HIDE DEF list
  <2>4. writes' \in Seq(Seq(WriteRecord)) /\ Len(writes') = 1 /\ writes'[1] = list
    BY <1>1, <2>1, <2>3, StartWrites
  <2>5. KernelVarsOK'
    BY <1>1, <1>2, <2>1, <2>2, KernelVarsStep
  <2>6. KernelTypeOK' /\ Frames' /\ Handlers' /\ Final' /\ Depth' = 0
    BY <1>1, <1>2, <2>1, <2>4, <2>5, StartKeeps
  <2>7. BootState'
    BY <1>3, <2>1, <2>6 DEF BootState, picVars
  <2>8. ChipsTold'
    <3>1. Configured'
      BY <1>1, <1>3, <2>1 DEF ChipsTold, Configured, picVars
    <3>2. writes'[1] = i8259_SetMask(picMask)'
      BY <2>1, <2>3, <2>4 DEF i8259_SetMask, Data
    <3>3. MaskTold'
      BY <3>2 DEF MaskTold
    <3> QED BY <1>1, <2>1, <3>1, <3>3 DEF ChipsTold, picVars
  <2> QED BY <2>6, <2>7, <2>8 DEF IInv
<1> QED BY <1>4, <1>5, <1>6 DEF Driver

-----------------------------------------------------------------------------
(* The invariant.                                                          *)

LEMMA InitHolds ==
  ASSUME Init
  PROVE  IInv
<1>1. /\ pc = "idt" /\ idtLoaded = FALSE /\ gates = {}
      /\ isrHandlers = {} /\ irqHandlers = {} /\ picMask = ALL_MASKED
      /\ fitted \in BOOLEAN /\ level = [l \in Lines |-> FALSE]
      /\ mode = "run" /\ iflag = FALSE /\ contexts = <<>> /\ writes = <<(<<>>)>> /\ nmis = 0
  BY DEF Init
<1>2. Depth = 0 /\ contexts \in Seq(ContextRecord) /\ 1 .. Depth = {}
  BY <1>1 DEF Depth
<1>3. /\ writes \in Seq(Seq(WriteRecord)) /\ Len(writes) = 1
      /\ writes[1] = <<>> /\ Len(writes[1]) = 0
  <2>1. <<>> \in Seq(WriteRecord)
    BY EmptySeq
  <2> DEFINE e == <<>>
  <2>2. e \in Seq(WriteRecord) /\ e = <<>> /\ writes = <<e>>
    BY <1>1, <2>1
  <2> HIDE DEF e
  <2> QED BY <2>2
<1>4. /\ pics \in [Chips -> Chip] /\ pics[1] = BiosChip(8) /\ pics[2] = BiosChip(112)
  <2> DEFINE a == BiosChip(8)
             b == BiosChip(112)
  <2>1. a \in Chip /\ b \in Chip
    BY DEF BiosChip, Chip
  <2>2. pics = <<a, b>>
    BY DEF Init
  <2> HIDE DEF a, b
  <2>3. pics[1] = a /\ pics[2] = b /\ pics = [i \in 1 .. 2 |-> pics[i]] /\ Chips = 1 .. 2
    BY <2>2 DEF Chips
  <2> QED BY <2>1, <2>3 DEF a, b
<1>5. KernelTypeOK
  <2>1. KernelVarsOK
    <3>1. picMask \in 0 .. ALL_MASKED
      BY <1>1, MaskValues DEF Masks
    <3>2. /\ pc \in {"idt", "isr", "irq", "probe", "configure", "sti", "running"}
          /\ idtLoaded \in BOOLEAN /\ gates \subseteq Vectors
          /\ isrHandlers \subseteq Vectors /\ irqHandlers \subseteq Irqs
      BY <1>1
    <3> QED BY <3>1, <3>2 DEF KernelVarsOK
  <2>2. PicVarsOK
    BY <1>1, <1>4 DEF PicVarsOK
  <2>3. 0 \in 0 .. MAX_NMIS
    BY InterruptsAssumption
  <2>4. CpuVarsOK
    BY <1>1, <1>2, <1>3, <2>3 DEF CpuVarsOK
  <2> QED BY <2>1, <2>2, <2>4 DEF KernelTypeOK
<1>6. Frames
  <2>1. stack = <<Word("local", 0), Word("local", 0)>>
    BY DEF Init
  <2>2. Word("local", 0) \in WordRecord
    BY DEF Word, WordRecord
  <2>3. stack \in Seq(WordRecord) /\ Len(stack) = 2
    BY <2>1, <2>2
  <2> QED BY <1>2, <1>3, <2>3 DEF Frames, StackMatchesContexts
<1>7. Handlers
  BY <1>1, <1>2 DEF Handlers, VectorIsLine
<1>8. BootState
  BY <1>1, <1>2 DEF BootState
<1>9. ChipsTold
  <2>1. pics[1].expects = "mask" /\ pics[2].expects = "mask"
    BY <1>4 DEF BiosChip
  <2>2. Told(0)
    BY <2>1 DEF Told
  <2>3. MasksOnly
    BY <1>3 DEF MasksOnly
  <2> QED BY <1>1, <1>3, <2>2, <2>3 DEF ChipsTold
<1>10. Final
  BY <1>1, <1>2 DEF Final
<1> QED BY <1>5, <1>6, <1>7, <1>8, <1>9, <1>10 DEF IInv

LEMMA Unchanged ==
  ASSUME IInv, UNCHANGED vars
  PROVE  IInv'
<1>1. UNCHANGED <<kernelVars, fitted, iflag, stack, contexts, writes>>
      /\ level' = level /\ pics' = pics /\ nmis' = nmis /\ mode' = mode
  BY DEF vars, picVars, cpuVars
<1>2. level \in [Lines -> BOOLEAN] /\ pics \in [Chips -> Chip] /\ nmis \in 0 .. MAX_NMIS
  BY DEF IInv, KernelTypeOK, PicVarsOK, CpuVarsOK
<1> QED BY <1>1, <1>2, Aside

LEMMA StepHolds ==
  ASSUME IInv, [Next]_vars
  PROVE  IInv'
<1>1. CASE Boot
  BY <1>1, BootKeeps
<1>2. CASE Driver
  BY <1>2, DriverKeeps
<1>3. CASE PortWrite
  BY <1>3, PortWriteKeeps
<1>4. CASE HandlerStep
  BY <1>4, HandlersKeep, ReturnKeeps DEF HandlerStep
<1>5. CASE Devices
  BY <1>5, DevicesKeep
<1>6. CASE Acknowledge
  BY <1>6, AcknowledgeKeeps
<1>7. CASE Exceptions
  BY <1>7, ExceptionsKeep
<1>8. CASE Idle
  BY <1>8, Unchanged DEF Idle
<1>9. CASE UNCHANGED vars
  BY <1>9, Unchanged
<1> QED BY <1>1, <1>2, <1>3, <1>4, <1>5, <1>6, <1>7, <1>8, <1>9 DEF Next

\* IInv holds in every state: what the boot has set up, what the chips have
\* been told, what stands on the stack and who can still run, together.
THEOREM InterruptInvariant == Spec => []IInv
<1>1. Init => IInv
  BY InitHolds
<1>2. IInv /\ [Next]_vars => IInv'
  BY StepHolds
<1> QED BY <1>1, <1>2, PTL DEF Spec

-----------------------------------------------------------------------------
(* What follows from it.                                                   *)

LEMMA ShadowHolds ==
  ASSUME IInv
  PROVE  KernelInv
<1>1. KernelTypeOK /\ VectorIsLine /\ ChipsTold
  BY DEF IInv, Handlers
<1>2. ASSUME pc = "running", fitted, writes[1] = <<>>
      PROVE  i8259_GetMask(pics) = picMask
  <2>1. MaskTold
    BY <1>1, <1>2 DEF ChipsTold
  <2>2. pics[1].imr = picMask % 256 /\ pics[2].imr = picMask \div 256
    <3>1. \A x, y : <<x>> # <<>> /\ <<x, y>> # <<>>
      OBVIOUS
    <3> QED BY <1>2, <2>1, <3>1 DEF MaskTold, i8259_SetMask
  <2>3. picMask \in Int
    <3>1. KernelVarsOK
      BY <1>1 DEF KernelTypeOK
    <3>2. picMask \in Masks
      BY <3>1, KernelVarsFacts
    <3> QED BY <3>2, MaskValues
  <2>4. (picMask % 256) + 256 * (picMask \div 256) = picMask
    BY <2>3
  <2> QED BY <2>2, <2>4 DEF i8259_GetMask
<1> QED BY <1>1, <1>2 DEF KernelInv, MaskIsShadow

\* For any lines, handlers and depth of nesting: the variables keep their types,
\* the vector of every interrupt taken names the line the chips acknowledged,
\* and g_PicMask is what the chips mask once start() has made its port writes.
THEOREM KernelInvariant == Spec => []KernelInv
BY InterruptInvariant, ShadowHolds, PTL

\* Every word a handler or iret takes from the stack is the one it is taken for,
\* whatever mixture of exceptions with and without an error code, NMIs and lines
\* interrupted one another.
THEOREM StackWordsMatch == Spec => []StackMatchesContexts
<1>1. IInv => StackMatchesContexts
  BY DEF IInv, Frames
<1> QED BY <1>1, InterruptInvariant, PTL

LEMMA ReadyHolds ==
  ASSUME IInv
  PROVE  EnabledWhenReady
<1> SUFFICES ASSUME iflag \/ mode \in {"inta", "cascade"}, NMI \notin isrHandlers
             PROVE  /\ idtLoaded /\ Vectors \ {SYSCALL} \subseteq gates
                    /\ IrqVectors \subseteq isrHandlers
                    /\ pics[1].expects = "mask" /\ pics[1].offset = PIC_REMAP_OFFSET
                    /\ pics[2].expects = "mask" /\ pics[2].offset = PIC_REMAP_OFFSET + 8
  BY DEF EnabledWhenReady
<1>1. pc = "running" /\ fitted
  BY DEF IInv, Handlers, Final, Ready
<1>2. idtLoaded /\ Vectors \ {SYSCALL} \subseteq gates /\ IrqVectors \subseteq isrHandlers
  BY <1>1 DEF IInv, BootState
<1>3. Configured
  BY <1>1 DEF IInv, ChipsTold
<1> QED BY <1>2, <1>3 DEF Configured, PIC_REMAP_OFFSET

\* Interrupts are never enabled before table, gates, handlers and chips are ready
\* for them: neither by start() nor by an iret or the end of a panic.
THEOREM EnabledOnlyWhenReady == Spec => []EnabledWhenReady
BY InterruptInvariant, ReadyHolds, PTL

LEMMA PanicStep ==
  ASSUME IInv, Next, NMI \notin isrHandlers, Panicked
  PROVE  Panicked'
<1>1. KernelTypeOK /\ Frames /\ Final
  BY DEF IInv
<1>2. Depth \in Nat /\ contexts \in Seq(ContextRecord) /\ Len(contexts) = Depth
  BY <1>1, LenProperties DEF KernelTypeOK, CpuVarsOK, Depth
<1>3. PICK k \in 1 .. Depth : contexts[k].at \in {"panic", "hlt"}
  BY DEF Panicked
<1>4. ASSUME contexts' = contexts
      PROVE  Panicked'
  BY <1>3, <1>4 DEF Panicked, Depth
<1>5. ASSUME NEW c, contexts' = Append(contexts, c)
      PROVE  Panicked'
  <2>1. Len(contexts') = Depth + 1 /\ contexts'[k] = contexts[k]
    BY <1>2, <1>5
  <2>2. k \in 1 .. Depth'
    BY <1>2, <2>1 DEF Depth
  <2> QED BY <1>3, <2>1, <2>2 DEF Panicked
<1>6. ASSUME NEW v, NEW e, NEW line, NEW real, Deliver(v, e, line, real)
      PROVE  Panicked'
  BY <1>4, <1>5, <1>6 DEF Deliver, TripleFault, Enter
<1>7. ASSUME NEW place \in Places, GoTo(place),
             place \in {"panic", "hlt"} \/ Top.at \notin {"panic", "hlt"}
      PROVE  Panicked'
  <2>1. /\ Depth' = Depth
        /\ \A j \in 1 .. Depth : contexts'[j].at = (IF j = Depth THEN place ELSE contexts[j].at)
    <3>1. Depth > 0
      BY <1>2
    <3> QED BY <1>1, <1>7, <3>1, GoToFacts
  <2>2. contexts'[k].at \in {"panic", "hlt"}
    BY <1>3, <1>7, <2>1 DEF Top
  <2> QED BY <2>1, <2>2 DEF Panicked
<1>8. CASE Boot \/ Driver
  <2>1. Depth = 0
    BY <1>8 DEF Boot, i686_IDT_Initialize, i686_ISR_Initialize, i8259_Probe, NoPicFound,
                ConfigurePic, RegisterIrqHandlers, i686_EnableInterrupts, Driver,
                RegisterIrqHandler, RegisterIsrHandler, SetMask, InDriver, InStart
  <2> QED BY <2>1
<1>9. CASE PortWrite \/ Devices \/ Idle
  BY <1>4, <1>9 DEF PortWrite, Devices, Raise, Drop, Idle, vars, cpuVars
<1>10. CASE Acknowledge
  BY <1>4, <1>6, <1>10 DEF Acknowledge, Recognise, AcknowledgeMaster, AcknowledgeSlave
<1>11. CASE Exceptions
  BY <1>6, <1>11 DEF Exceptions, Fault, crash_me, NonMaskable
<1>12. CASE i686_ISR_Handler
  <2>1. Top.at = "isr"
    BY <1>12 DEF i686_ISR_Handler, InHandler
  <2> DEFINE n == Regs("interrupt")
             place == IF n \in isrHandlers THEN (IF n \in IrqVectors THEN "irq" ELSE "ret")
                      ELSE IF n >= 32 THEN "ret" ELSE "panic"
  <2>2. GoTo(place) /\ place \in Places
    BY <1>12 DEF i686_ISR_Handler, Places
  <2> HIDE DEF place
  <2> QED BY <1>7, <2>1, <2>2
<1>13. CASE i686_IRQ_Handler
  BY <1>7, <1>13 DEF i686_IRQ_Handler, InHandler, Places
<1>14. CASE i686_Panic
  BY <1>7, <1>14 DEF i686_Panic, Places
<1>15. CASE PanicFallsThrough
  <2>1. Depth > 0 /\ mode = "run" /\ contexts[Depth].at = "hlt"
    BY <1>15 DEF PanicFallsThrough, InHandler, Running, Top
  <2>2. Depth \in 1 .. Depth
    BY <1>2, <2>1
  <2>3. \/ Depth = Depth /\ mode \in {"halt", "reset"}
        \/ Depth < Depth /\ contexts[Depth + 1].vector = NMI
    BY <1>1, <2>1, <2>2 DEF Final
  <2> QED BY <1>2, <2>1, <2>3
<1>16. CASE Return
  <2>1. Depth > 0 /\ Top.at = "ret"
    BY <1>16 DEF Return
  <2>2. Regs("eip") = Depth - 1
    BY <1>1, <2>1, TopFacts
  <2>3. contexts' = SubSeq(contexts, 1, Depth - 1)
    BY <1>16, <2>2 DEF Return
  <2>4. k \in 1 .. Depth - 1
    BY <1>2, <1>3, <2>1 DEF Top
  <2>5. Len(contexts') = Depth - 1 /\ contexts'[k] = contexts[k]
    BY <1>2, <2>3, <2>4
  <2>6. k \in 1 .. Depth'
    BY <2>4, <2>5 DEF Depth
  <2> QED BY <1>3, <2>5, <2>6 DEF Panicked
<1> QED BY <1>8, <1>9, <1>10, <1>11, <1>12, <1>13, <1>14, <1>15, <1>16 DEF Next, HandlerStep

LEMMA HandledOnly ==
  ASSUME IInv, NMI \notin isrHandlers, NEW k \in 1 .. Depth
  PROVE  ~Unhandled(k)
<1>1. contexts[k].at = "ret" => contexts[k].vector \in isrHandlers \/ contexts[k].vector >= 32
  BY DEF IInv, Final
<1>2. contexts[k].vector \in Int
  <2>1. contexts \in Seq(ContextRecord)
    BY DEF IInv, KernelTypeOK, CpuVarsOK
  <2>2. contexts[k] \in ContextRecord
    BY <2>1, ElementOfSeq DEF Depth
  <2> QED BY <2>2 DEF ContextRecord, Vectors
<1> QED BY <1>1, <1>2 DEF Unhandled

\* A panic is the end and no unhandled exception is returned from, as long as no
\* NMI handler is registered: for any nesting of exceptions in one another.
THEOREM PanicsFinal == Spec => PanicIsFinal
<1>1. IInv /\ [Next]_vars =>
        [NMI \notin isrHandlers =>
           /\ Panicked => Panicked'
           /\ \A k \in 1 .. Depth : ~Unhandled(k)]_vars
  BY PanicStep, HandledOnly
<1> QED BY <1>1, InterruptInvariant, PTL DEF Spec, PanicIsFinal
-----------------------------------------------------------------------------
(* What is in service.                                                     *)

\* As long as no NMI handler brings a panic back to life, only start() runs with
\* interrupts enabled: a line interrupts nothing else, so it is context 1.
LinesFirst ==
  /\ iflag \/ mode \in {"inta", "cascade"} => Depth = 0
  /\ \A k \in 1 .. Depth :
       /\ contexts[k].iflag => k = 1
       /\ contexts[k].line = NoLine =>
            contexts[k].vector \notin IrqVectors /\ writes[k + 1] = <<>>
       /\ contexts[k].line # NoLine => k = 1 /\ Ready

\* Context 1 is that of a line.
OfLine == Depth > 0 /\ contexts[1].line # NoLine

\* Its handler ends it on the slave first, if it is one of the slave's, and on
\* the master then.
EndsLeft ==
  OfLine =>
    /\ contexts[1].at \in {"isr", "irq", "ret"}
    /\ contexts[1].at # "ret" => writes[2] = <<>>
    /\ \/ writes[2] = <<>> \/ writes[2] = <<Command(1, EOI)>>
       \/ contexts[1].line >= 8 /\ writes[2] = <<Command(2, EOI), Command(1, EOI)>>

\* The end of that interrupt has still to be sent to the chip.
Due(chip) ==
  /\ OfLine
  /\ \/ contexts[1].at # "ret"
     \/ \E i \in 1 .. Len(writes[2]) : writes[2][i].chip = chip

HeldByMaster ==
  IF mode = "cascade" \/ (Due(1) /\ contexts[1].line >= 8) THEN {CASCADE}
  ELSE IF Due(1) /\ contexts[1].real THEN {contexts[1].line} ELSE {}

HeldBySlave ==
  IF Due(2) /\ contexts[1].line >= 8 /\ contexts[1].real THEN {contexts[1].line - 8} ELSE {}

InService == pics[1].isr = HeldByMaster /\ pics[2].isr = HeldBySlave

Serving == LinesFirst /\ EndsLeft /\ InService

\* What the masks allow: a request the slave's cascade is acknowledged for, and
\* the line of every context that is not a spurious one.
Unmasked ==
  /\ OnlyUnmaskedServed
  /\ mode = "cascade" /\ writes[1] = <<>> => ~Bit(picMask, CASCADE)

LEMMA ServingTypes ==
  ASSUME IInv
  PROVE  /\ Depth \in Nat /\ contexts \in Seq(ContextRecord) /\ Len(contexts) = Depth
         /\ writes \in Seq(Seq(WriteRecord)) /\ Len(writes) = Depth + 1
         /\ \A k \in 1 .. Depth : contexts[k] \in ContextRecord
         /\ pics \in [Chips -> Chip] /\ pics[1] \in Chip /\ pics[2] \in Chip
<1>1. contexts \in Seq(ContextRecord) /\ writes \in Seq(Seq(WriteRecord))
  BY DEF IInv, KernelTypeOK, CpuVarsOK
<1>2. Depth \in Nat /\ Len(contexts) = Depth
  BY <1>1, LenProperties DEF Depth
<1>3. Len(writes) = Depth + 1
  BY DEF IInv, Frames, StackMatchesContexts
<1>4. \A k \in 1 .. Depth : contexts[k] \in ContextRecord
  BY <1>1, <1>2, ElementOfSeq
<1>5. pics \in [Chips -> Chip] /\ pics[1] \in Chip /\ pics[2] \in Chip
  BY DEF IInv, KernelTypeOK, PicVarsOK, Chips
<1> QED BY <1>1, <1>2, <1>3, <1>4, <1>5

\* Nothing was or is done about a line: as much is in service as before.
LEMMA FirstStays ==
  ASSUME EndsLeft, InService,
         OfLine' <=> OfLine,
         OfLine => contexts'[1] = contexts[1] /\ writes'[2] = writes[2],
         mode' = "cascade" <=> mode = "cascade",
         pics'[1].isr = pics[1].isr, pics'[2].isr = pics[2].isr
  PROVE  EndsLeft' /\ InService'
<1>1. EndsLeft'
  BY DEF EndsLeft, Command
<1>2. (Due(1)' <=> Due(1)) /\ (Due(2)' <=> Due(2))
  BY DEF Due
<1>3. Due(1) \/ Due(2) => contexts'[1] = contexts[1]
  BY DEF Due
<1>4. HeldByMaster' = HeldByMaster /\ HeldBySlave' = HeldBySlave
  BY <1>2, <1>3 DEF HeldByMaster, HeldBySlave
<1> QED BY <1>1, <1>4 DEF InService

\* In start() nothing is in service.
LEMMA NoneInStart ==
  ASSUME Depth = 0, mode # "cascade"
  PROVE  ~OfLine /\ HeldByMaster = {} /\ HeldBySlave = {}
BY DEF OfLine, Due, HeldByMaster, HeldBySlave

LEMMA StartServes ==
  ASSUME IInv, Serving, Boot \/ Driver
  PROVE  Serving'
<1>1. InStart /\ pics' = pics /\ contexts' = contexts /\ mode' = mode
  BY DEF Boot, i686_IDT_Initialize, i686_ISR_Initialize, i8259_Probe, NoPicFound,
         ConfigurePic, RegisterIrqHandlers, i686_EnableInterrupts, Driver,
         RegisterIrqHandler, RegisterIsrHandler, SetMask, InDriver, picVars, cpuVars
<1>2. Depth = 0 /\ Depth' = 0 /\ mode = "run"
  BY <1>1 DEF InStart, Running, Depth
<1>3. LinesFirst'
  BY <1>2 DEF LinesFirst
<1>4. ~OfLine /\ ~OfLine'
  BY <1>2 DEF OfLine
<1> QED BY <1>1, <1>3, <1>4, FirstStays DEF Serving

LEMMA DevicesServe ==
  ASSUME IInv, Serving, Devices
  PROVE  Serving'
<1>1. PICK l \in Lines : Raise(l) \/ Drop(l)
  BY DEF Devices
<1>2. UNCHANGED <<kernelVars, fitted, cpuVars>>
  BY <1>1 DEF Raise, Drop
<1>3. l \in Irqs
  BY InterruptsAssumption
<1>4. ChipOf(l) \in Chips
  BY <1>3 DEF ChipOf, Chips
<1> DEFINE c == ChipOf(l)
<1>5. PICK irr : pics' = [pics EXCEPT ![c] = [pics[c] EXCEPT !.irr = irr]]
  BY <1>1 DEF Raise, Drop
<1>6. pics \in [Chips -> Chip]
  BY ServingTypes
<1> HIDE DEF c
<1>7. ASSUME NEW d \in Chips
      PROVE  pics'[d].isr = pics[d].isr
  <2>1. [pics[d] EXCEPT !.irr = irr].isr = pics[d].isr
    BY <1>6 DEF Chip
  <2> QED BY <1>5, <1>6, <2>1
<1>8. pics'[1].isr = pics[1].isr /\ pics'[2].isr = pics[2].isr
  BY <1>7 DEF Chips
<1>9. OfLine' <=> OfLine
  BY <1>2 DEF OfLine, Depth, cpuVars
<1>10. LinesFirst'
  BY <1>2 DEF Serving, LinesFirst, Ready, Depth, cpuVars, kernelVars
<1> QED BY <1>2, <1>8, <1>9, <1>10, FirstStays DEF Serving, cpuVars

LEMMA UnchangedServes ==
  ASSUME Serving, UNCHANGED vars
  PROVE  Serving'
<1>1. UNCHANGED <<kernelVars, fitted, pics, cpuVars>>
  BY DEF vars, picVars
<1>2. LinesFirst'
  BY <1>1 DEF Serving, LinesFirst, Ready, Depth, cpuVars, kernelVars
<1>3. OfLine' <=> OfLine
  BY <1>1 DEF OfLine, Depth, cpuVars
<1> QED BY <1>1, <1>2, <1>3, FirstStays DEF Serving, cpuVars

\* What Enter does to the contexts and to the writes they have still to make.
LEMMA EntryFacts ==
  ASSUME IInv, NEW v, NEW e, NEW line, NEW real \in BOOLEAN, Enter(v, e, line, real)
  PROVE  /\ Depth \in Nat /\ Depth' = Depth + 1
         /\ \A k \in 1 .. Depth : contexts'[k] = contexts[k]
         /\ contexts'[Depth + 1] = Context(v, e, line, real)
         /\ \A k \in 1 .. Depth + 1 : writes'[k] = writes[k]
         /\ writes'[Depth + 2] = <<>>
         /\ mode' = "run" /\ iflag' = FALSE
<1> DEFINE c == Context(v, e, line, real)
<1>1. /\ Depth \in Nat /\ Len(contexts) = Depth /\ contexts \in Seq(ContextRecord)
      /\ writes \in Seq(Seq(WriteRecord)) /\ Len(writes) = Depth + 1
  BY ServingTypes
<1>2. /\ contexts' = Append(contexts, c) /\ writes' = Append(writes, <<>>)
      /\ mode' = "run" /\ iflag' = FALSE
  BY DEF Enter
<1> HIDE DEF c
<1>3. /\ Len(contexts') = Depth + 1 /\ contexts'[Depth + 1] = c
      /\ \A k \in 1 .. Depth : contexts'[k] = contexts[k]
  BY <1>1, <1>2
<1>4. writes'[Depth + 2] = <<>> /\ \A k \in 1 .. Depth + 1 : writes'[k] = writes[k]
  BY <1>1, <1>2
<1> QED BY <1>1, <1>2, <1>3, <1>4 DEF Depth, c

\* An exception entered below or above the context of a line changes nothing.
LEMMA ExceptionEntered ==
  ASSUME IInv, Serving, NEW v, NEW e, v \notin IrqVectors,
         Enter(v, e, NoLine, FALSE), mode \notin {"inta", "cascade"},
         UNCHANGED <<kernelVars, fitted, pics>>
  PROVE  Serving'
<1>1. /\ Depth \in Nat /\ Depth' = Depth + 1
      /\ \A k \in 1 .. Depth : contexts'[k] = contexts[k]
      /\ contexts'[Depth + 1] = Context(v, e, NoLine, FALSE)
      /\ \A k \in 1 .. Depth + 1 : writes'[k] = writes[k]
      /\ writes'[Depth + 2] = <<>>
      /\ mode' = "run" /\ iflag' = FALSE
  BY EntryFacts
<1>2. /\ contexts'[Depth + 1].line = NoLine /\ contexts'[Depth + 1].iflag = iflag
      /\ contexts'[Depth + 1].vector = v
  BY <1>1 DEF Context
<1>3. ASSUME NEW k \in 1 .. Depth'
      PROVE  /\ contexts'[k].iflag => k = 1
             /\ contexts'[k].line = NoLine =>
                  contexts'[k].vector \notin IrqVectors /\ writes'[k + 1] = <<>>
             /\ contexts'[k].line # NoLine => k = 1 /\ Ready
  <2>1. CASE k \in 1 .. Depth
    <3>1. k + 1 \in 1 .. Depth + 1
      BY <1>1, <2>1
    <3>2. contexts'[k] = contexts[k] /\ writes'[k + 1] = writes[k + 1]
      BY <1>1, <2>1, <3>1
    <3> QED BY <2>1, <3>2 DEF Serving, LinesFirst
  <2>2. CASE k = Depth + 1
    <3>1. iflag => Depth = 0
      BY DEF Serving, LinesFirst
    <3>2. k + 1 = Depth + 2
      BY <1>1, <2>2
    <3>3. writes'[k + 1] = <<>>
      BY <1>1, <3>2
    <3>4. /\ contexts'[k].line = NoLine /\ contexts'[k].iflag = iflag
          /\ contexts'[k].vector = v
      BY <1>2, <2>2
    <3>5. iflag => k = 1
      BY <2>2, <3>1
    <3> QED BY <3>3, <3>4, <3>5
  <2> QED BY <1>1, <2>1, <2>2
<1>4. Ready' <=> Ready
  BY DEF Ready, kernelVars
<1>5. LinesFirst'
  BY <1>1, <1>3, <1>4 DEF LinesFirst
<1>6. OfLine' <=> OfLine
  <2>1. CASE Depth = 0
    <3>1. contexts'[1].line = NoLine
      <4>1. Depth + 1 = 1
        BY <2>1
      <4> QED BY <1>2, <4>1
    <3> QED BY <2>1, <3>1 DEF OfLine
  <2>2. CASE Depth > 0
    <3>1. contexts'[1] = contexts[1]
      BY <1>1, <2>2
    <3> QED BY <1>1, <2>2, <3>1 DEF OfLine
  <2> QED BY <1>1, <2>1, <2>2
<1>7. OfLine => contexts'[1] = contexts[1] /\ writes'[2] = writes[2]
  <2> SUFFICES ASSUME Depth > 0
               PROVE  contexts'[1] = contexts[1] /\ writes'[2] = writes[2]
    BY DEF OfLine
  <2>1. 1 \in 1 .. Depth /\ 2 \in 1 .. Depth + 1
    BY <1>1
  <2> QED BY <1>1, <2>1
<1> QED BY <1>1, <1>5, <1>6, <1>7, FirstStays DEF Serving

\* The processor gives up, or takes the exception or Segment Not Present.
LEMMA ExceptionDelivered ==
  ASSUME IInv, Serving, NEW v \in (0 .. 28) \cup {SYSCALL}, NEW e,
         Deliver(v, e, NoLine, FALSE), mode \notin {"inta", "cascade"},
         UNCHANGED <<kernelVars, fitted, pics>>
  PROVE  Serving'
<1>1. v \notin IrqVectors /\ SegmentNotPresent \notin IrqVectors
  BY DEF IrqVectors, PIC_REMAP_OFFSET, SYSCALL, SegmentNotPresent
<1>2. CASE TripleFault
  <2>1. /\ mode' = "reset" /\ UNCHANGED <<iflag, contexts, writes>>
    BY <1>2 DEF TripleFault
  <2>2. LinesFirst'
    BY <2>1 DEF Serving, LinesFirst, Ready, Depth, kernelVars
  <2>3. OfLine' <=> OfLine
    BY <2>1 DEF OfLine, Depth
  <2> QED BY <2>1, <2>2, <2>3, FirstStays DEF Serving
<1>3. CASE Enter(v, e, NoLine, FALSE)
  BY <1>1, <1>3, ExceptionEntered
<1>4. CASE Enter(SegmentNotPresent, 8 * v + 2, NoLine, FALSE)
  BY <1>1, <1>4, ExceptionEntered
<1> QED BY <1>2, <1>3, <1>4 DEF Deliver

LEMMA ExceptionsServe ==
  ASSUME IInv, Serving, Exceptions
  PROVE  Serving'
<1>1. ASSUME NEW v \in Faults, Fault(v)
      PROVE  Serving'
  <2>1. v \in 0 .. 28
    BY InterruptsAssumption
  <2>2. PICK e : Deliver(v, e, NoLine, FALSE)
    BY <1>1 DEF Fault
  <2>3. mode = "run" /\ UNCHANGED <<kernelVars, fitted, pics>>
    BY <1>1 DEF Fault, picVars
  <2> QED BY <2>1, <2>2, <2>3, ExceptionDelivered
<1>2. CASE crash_me
  BY <1>2, ExceptionDelivered DEF crash_me, InDriver, InStart, Running, picVars
<1>3. CASE NonMaskable
  <2>1. NMI \in 0 .. 28
    BY DEF NMI
  <2> QED BY <1>3, <2>1, ExceptionDelivered DEF NonMaskable, picVars
<1> QED BY <1>1, <1>2, <1>3 DEF Exceptions

\* The request of a line delivered, the chips having put into service what they
\* hold for it.
LEMMA LineDelivered ==
  ASSUME IInv, Serving, mode \in {"inta", "cascade"},
         NEW line \in Irqs, NEW real \in BOOLEAN,
         Deliver(PIC_REMAP_OFFSET + line, 0, line, real),
         UNCHANGED <<kernelVars, fitted>>,
         pics'[1].isr = (IF line >= 8 THEN {CASCADE} ELSE IF real THEN {line} ELSE {}),
         pics'[2].isr = (IF line >= 8 /\ real THEN {line - 8} ELSE {})
  PROVE  Serving'
<1> DEFINE v == PIC_REMAP_OFFSET + line
<1>1. Depth = 0
  BY DEF Serving, LinesFirst
<1>2. Ready
  BY AcknowledgingReady
<1>3. Enter(v, 0, line, real)
  <2>1. idtLoaded /\ Vectors \ {SYSCALL} \subseteq gates
    BY <1>2 DEF IInv, BootState, Ready
  <2>2. v \in gates
    BY <2>1 DEF Vectors, SYSCALL, PIC_REMAP_OFFSET, Irqs
  <2> QED BY <2>1, <2>2 DEF Deliver
<1> HIDE DEF v
<1>4. /\ Depth' = 1 /\ contexts'[1] = Context(v, 0, line, real) /\ writes'[2] = <<>>
      /\ mode' = "run" /\ iflag' = FALSE
  <2> DEFINE e == 0
  <2>1. Enter(v, e, line, real)
    BY <1>3
  <2> HIDE DEF e
  <2>2. /\ Depth' = Depth + 1
        /\ contexts'[Depth + 1] = Context(v, e, line, real)
        /\ writes'[Depth + 2] = <<>>
        /\ mode' = "run" /\ iflag' = FALSE
    BY <2>1, EntryFacts
  <2>3. Depth + 1 = 1 /\ Depth + 2 = 2
    BY <1>1
  <2> QED BY <2>2, <2>3 DEF e
<1>5. line # NoLine /\ line \in Nat
  BY DEF Irqs, NoLine
<1>6. /\ contexts'[1].at = "isr" /\ contexts'[1].line = line /\ contexts'[1].real = real
  BY <1>4 DEF Context
<1>7. Ready'
  BY <1>2 DEF Ready, kernelVars
<1>8. LinesFirst'
  <2>1. \A k \in 1 .. Depth' : k = 1
    BY <1>4
  <2> QED BY <1>4, <1>5, <1>6, <1>7, <2>1 DEF LinesFirst
<1>9. EndsLeft'
  BY <1>4, <1>6 DEF EndsLeft
<1>10. Due(1)' /\ Due(2)'
  BY <1>4, <1>5, <1>6 DEF Due, OfLine
<1>11. InService'
  <2>1. HeldByMaster' = (IF line >= 8 THEN {CASCADE} ELSE IF real THEN {line} ELSE {})
    BY <1>4, <1>6, <1>10 DEF HeldByMaster, CASCADE
  <2>2. HeldBySlave' = (IF line >= 8 /\ real THEN {line - 8} ELSE {})
    BY <1>6, <1>10 DEF HeldBySlave
  <2> QED BY <2>1, <2>2 DEF InService
<1> QED BY <1>8, <1>9, <1>11 DEF Serving

\* An acknowledged input is in service, beside those that were.
LEMMA InServiceAdded ==
  ASSUME IInv, NEW c \in Chips, NEW i,
         pics' = [pics EXCEPT ![c] = Acknowledged(@, i)]
  PROVE  /\ pics'[c].isr = pics[c].isr \cup {i}
         /\ \A d \in Chips : d # c => pics'[d].isr = pics[d].isr
<1>1. pics \in [Chips -> Chip] /\ pics[c] \in Chip
  BY ServingTypes
<1>2. Acknowledged(pics[c], i).isr = pics[c].isr \cup {i}
  BY <1>1 DEF Acknowledged, Chip
<1> DEFINE a == Acknowledged(pics[c], i)
<1>3. pics' = [pics EXCEPT ![c] = a]
  OBVIOUS
<1> HIDE DEF a
<1>4. pics'[c] = a /\ \A d \in Chips : d # c => pics'[d] = pics[d]
  BY <1>1, <1>3
<1> QED BY <1>2, <1>4 DEF a

LEMMA AcknowledgeServes ==
  ASSUME IInv, Serving, NMI \notin isrHandlers, Acknowledge
  PROVE  Serving'
<1>1. CASE Recognise
  <2>1. /\ iflag /\ mode = "run" /\ mode' = "inta"
        /\ UNCHANGED <<kernelVars, fitted, pics, iflag, contexts, writes>>
    BY <1>1 DEF Recognise, picVars
  <2>2. Depth = 0 /\ Depth' = 0
    BY <2>1 DEF Serving, LinesFirst, Depth
  <2>3. LinesFirst'
    BY <2>2 DEF LinesFirst
  <2>4. ~OfLine /\ ~OfLine'
    BY <2>2 DEF OfLine
  <2> QED BY <2>1, <2>3, <2>4, FirstStays DEF Serving
<1>2. CASE AcknowledgeMaster
  <2>1. mode = "inta" /\ UNCHANGED <<kernelVars, fitted>>
    BY <1>2 DEF AcknowledgeMaster
  <2>2. Depth = 0 /\ pics[1].isr = {} /\ pics[2].isr = {}
    <3>1. Depth = 0
      BY <2>1 DEF Serving, LinesFirst
    <3> QED BY <2>1, <3>1, NoneInStart DEF Serving, InService
  <2>3. pics[1].offset = PIC_REMAP_OFFSET /\ PicVarsOK
    BY <2>1, AcknowledgingReady DEF IInv, KernelTypeOK
  <2>4. CASE Deliver(pics[1].offset + 7, 0, 7, FALSE) /\ UNCHANGED pics
    <3>1. 7 \in Irqs /\ ~(7 >= 8)
      BY DEF Irqs
    <3>2. Deliver(PIC_REMAP_OFFSET + 7, 0, 7, FALSE)
      BY <2>3, <2>4
    <3>3. pics'[1].isr = {} /\ pics'[2].isr = {}
      BY <2>2, <2>4
    <3> QED BY <2>1, <3>1, <3>2, <3>3, LineDelivered
  <2>5. ASSUME NEW i \in Highest(MasterRequests(pics)),
               pics' = [pics EXCEPT ![1] = Acknowledged(@, i)],
               IF i = CASCADE THEN mode' = "cascade" /\ UNCHANGED <<iflag, stack, contexts, writes>>
                              ELSE Deliver(pics[1].offset + i, 0, i, TRUE)
        PROVE  Serving'
    <3>1. pics'[1].isr = {i} /\ pics'[2].isr = {}
      <4>1. 1 \in Chips /\ 2 \in Chips
        BY DEF Chips
      <4>2. /\ pics'[1].isr = pics[1].isr \cup {i}
            /\ \A d \in Chips : d # 1 => pics'[d].isr = pics[d].isr
        BY <2>5, <4>1, InServiceAdded
      <4> QED BY <2>2, <4>1, <4>2
    <3>2. CASE i = CASCADE
      <4>1. mode' = "cascade" /\ UNCHANGED <<iflag, contexts, writes>>
        BY <2>5, <3>2
      <4>2. Depth' = 0
        BY <2>2, <4>1 DEF Depth
      <4>3. ~OfLine'
        BY <4>2 DEF OfLine
      <4>4. LinesFirst' /\ EndsLeft'
        BY <4>2, <4>3 DEF LinesFirst, EndsLeft
      <4>5. HeldByMaster' = {CASCADE} /\ HeldBySlave' = {}
        BY <4>1, <4>3 DEF HeldByMaster, HeldBySlave, Due
      <4> QED BY <3>1, <3>2, <4>4, <4>5 DEF Serving, InService
    <3>3. CASE i # CASCADE
      <4>1. i \in Irqs /\ ~(i >= 8)
        <5>1. i \in Inputs
          BY <2>3, RequestsAreInputs DEF Highest
        <5> QED BY <5>1 DEF Inputs, Irqs
      <4>2. Deliver(PIC_REMAP_OFFSET + i, 0, i, TRUE)
        BY <2>3, <2>5, <3>3
      <4> QED BY <2>1, <3>1, <4>1, <4>2, LineDelivered
    <3> QED BY <3>2, <3>3
  <2> QED BY <1>2, <2>4, <2>5 DEF AcknowledgeMaster
<1>3. CASE AcknowledgeSlave
  <2>1. mode = "cascade" /\ UNCHANGED <<kernelVars, fitted>>
    BY <1>3 DEF AcknowledgeSlave
  <2>2. Depth = 0 /\ pics[1].isr = {CASCADE} /\ pics[2].isr = {}
    <3>1. Depth = 0
      BY <2>1 DEF Serving, LinesFirst
    <3> QED BY <2>1, <3>1 DEF Serving, InService, HeldByMaster, HeldBySlave, Due, OfLine
  <2>3. pics[2].offset = PIC_REMAP_OFFSET + 8 /\ PicVarsOK
    BY <2>1, AcknowledgingReady DEF IInv, KernelTypeOK
  <2>4. CASE Deliver(pics[2].offset + 7, 0, 15, FALSE) /\ UNCHANGED pics
    <3>1. 15 \in Irqs /\ 15 >= 8 /\ PIC_REMAP_OFFSET + 8 + 7 = PIC_REMAP_OFFSET + 15
      BY DEF Irqs, PIC_REMAP_OFFSET
    <3>2. Deliver(PIC_REMAP_OFFSET + 15, 0, 15, FALSE)
      BY <2>3, <2>4, <3>1
    <3>3. pics'[1].isr = {CASCADE} /\ pics'[2].isr = {}
      BY <2>2, <2>4
    <3> QED BY <2>1, <3>1, <3>2, <3>3, LineDelivered
  <2>5. ASSUME NEW i \in Highest(SlaveRequests(pics)),
               pics' = [pics EXCEPT ![2] = Acknowledged(@, i)],
               Deliver(pics[2].offset + i, 0, i + 8, TRUE)
        PROVE  Serving'
    <3>1. pics'[2].isr = {i} /\ pics'[1].isr = {CASCADE}
      <4>1. 1 \in Chips /\ 2 \in Chips
        BY DEF Chips
      <4>2. /\ pics'[2].isr = pics[2].isr \cup {i}
            /\ \A d \in Chips : d # 2 => pics'[d].isr = pics[d].isr
        BY <2>5, <4>1, InServiceAdded
      <4> QED BY <2>2, <4>1, <4>2
    <3>0. i \in Inputs
      BY <2>3, RequestsAreInputs DEF Highest
    <3>2. /\ i + 8 \in Irqs /\ i + 8 >= 8 /\ i + 8 - 8 = i
          /\ PIC_REMAP_OFFSET + 8 + i = PIC_REMAP_OFFSET + (i + 8)
      BY <3>0 DEF Inputs, Irqs, PIC_REMAP_OFFSET
    <3> DEFINE line == i + 8
    <3>3. Deliver(PIC_REMAP_OFFSET + line, 0, line, TRUE)
      BY <2>3, <2>5, <3>2
    <3>4. line \in Irqs /\ line >= 8 /\ line - 8 = i
      BY <3>0 DEF Inputs, Irqs
    <3> HIDE DEF line
    <3>5. /\ pics'[1].isr = (IF line >= 8 THEN {CASCADE} ELSE IF TRUE THEN {line} ELSE {})
          /\ pics'[2].isr = (IF line >= 8 /\ TRUE THEN {line - 8} ELSE {})
      BY <3>1, <3>4
    <3> QED BY <2>1, <3>3, <3>4, <3>5, LineDelivered
  <2> QED BY <1>3, <2>4, <2>5 DEF AcknowledgeSlave
<1> QED BY <1>1, <1>2, <1>3 DEF Acknowledge

-----------------------------------------------------------------------------
(* Ends of interrupts, sent and written.                                   *)

\* The end of an interrupt takes out of service the one input that was.
LEMMA EndClears ==
  ASSUME NEW chip \in Chip, NEW i, chip.isr = {i} \/ chip.isr = {}
  PROVE  Commanded(chip, EOI).isr = {}
<1>1. Commanded(chip, EOI).isr = chip.isr \ Highest(chip.isr)
  BY DEF Commanded, Chip, EOI, ICW1
<1>2. ASSUME NEW j \in chip.isr, chip.isr = {i}
      PROVE  j \in Highest(chip.isr)
  <2>1. chip.isr \subseteq Inputs
    BY DEF Chip
  <2>2. i \in Int
    BY <1>2, <2>1 DEF Inputs
  <2> QED BY <1>2, <2>2 DEF Highest
<1> QED BY <1>1, <1>2

\* No byte written puts an input into service.
LEMMA WriteAddsNone ==
  ASSUME NEW chip \in Chip, NEW w \in WriteRecord
  PROVE  Written(chip, w).isr \subseteq chip.isr
<1>1. w.byte \in Nat
  BY DEF WriteRecord
<1>2. Commanded(chip, w.byte).isr \subseteq chip.isr
  <2>1. CASE w.byte = ICW1
    <3>1. Commanded(chip, w.byte).isr = {}
      BY <2>1 DEF Commanded, Chip
    <3> QED BY <3>1
  <2>2. CASE w.byte # ICW1
    <3>1. Commanded(chip, w.byte).isr = chip.isr \ Highest(chip.isr)
      BY <2>2 DEF Commanded, Chip
    <3> QED BY <3>1
  <2> QED BY <2>1, <2>2
<1>3. Loaded(chip, w.byte).isr = chip.isr
  BY <1>1, LoadedFields
<1> QED BY <1>2, <1>3 DEF Written

\* The command that ends an interrupt, as it is written to one of the chips.
LEMMA EndWritten ==
  ASSUME IInv, Serving, fitted, NEW c \in Chips, NEW i,
         pics' = [pics EXCEPT ![c] = Written(@, Command(c, EOI))],
         pics[c].isr = {i} \/ pics[c].isr = {}
  PROVE  /\ pics'[c].isr = {}
         /\ \A d \in Chips : d # c => pics'[d].isr = pics[d].isr
<1>1. pics \in [Chips -> Chip] /\ pics[c] \in Chip
  BY ServingTypes
<1>2. Written(pics[c], Command(c, EOI)) = Commanded(pics[c], EOI)
  BY DEF Written, Command
<1> DEFINE chip == Commanded(pics[c], EOI)
<1>3. chip.isr = {}
  BY <1>1, EndClears
<1>4. pics' = [pics EXCEPT ![c] = chip]
  BY <1>2
<1> HIDE DEF chip
<1> QED BY <1>1, <1>3, <1>4

LEMMA PortWriteServes ==
  ASSUME IInv, Serving, PortWrite
  PROVE  Serving'
<1> DEFINE w == Head(Pending)
<1>1. /\ Depth \in Nat /\ Depth' = Depth
      /\ Pending \in Seq(WriteRecord) /\ Len(Pending) \in Nat /\ Len(Pending) > 0
      /\ w = Pending[1] /\ w \in WriteRecord
      /\ \A k \in 1 .. Depth : writes'[k] = writes[k]
      /\ writes'[Depth + 1] = Tail(Pending)
  BY PortWriteFacts
<1>2. /\ UNCHANGED <<kernelVars, fitted, mode, iflag, contexts>> /\ mode = "run"
      /\ pics' = IF fitted THEN [pics EXCEPT ![w.chip] = Written(@, w)] ELSE pics
      /\ Pending # <<>>
  BY DEF PortWrite
<1> HIDE DEF w
<1>3. LinesFirst /\ EndsLeft /\ InService /\ pics \in [Chips -> Chip]
  BY ServingTypes DEF Serving
<1>4. CASE Depth = 0
  <2>1. pics[1].isr = {} /\ pics[2].isr = {}
    BY <1>2, <1>3, <1>4, NoneInStart DEF InService
  <2>2. ASSUME NEW d \in Chips
        PROVE  pics'[d].isr = pics[d].isr
    <3>1. w.chip \in Chips /\ pics[w.chip] \in Chip
      BY <1>1, <1>3 DEF WriteRecord
    <3>2. Written(pics[w.chip], w).isr \subseteq pics[w.chip].isr
      BY <1>1, <3>1, WriteAddsNone
    <3>3. pics[w.chip].isr = {} /\ pics[d].isr = {}
      BY <2>1, <2>2, <3>1 DEF Chips
    <3> DEFINE chip == Written(pics[w.chip], w)
    <3>4. chip.isr = {}
      BY <3>2, <3>3
    <3>5. pics' = IF fitted THEN [pics EXCEPT ![w.chip] = chip] ELSE pics
      BY <1>2
    <3> HIDE DEF chip
    <3> QED BY <1>3, <3>1, <3>3, <3>4, <3>5
  <2>3. pics'[1].isr = pics[1].isr /\ pics'[2].isr = pics[2].isr
    BY <2>2 DEF Chips
  <2>4. ~OfLine /\ ~OfLine'
    BY <1>1, <1>4 DEF OfLine
  <2>5. LinesFirst'
    BY <1>1, <1>4 DEF LinesFirst
  <2> QED BY <1>2, <1>3, <2>3, <2>4, <2>5, FirstStays DEF Serving
<1>5. CASE Depth > 0
  <2> DEFINE line == contexts[1].line
  <2>1. Depth = 1 /\ line # NoLine /\ Ready
    <3>1. Depth \in 1 .. Depth /\ writes[Depth + 1] # <<>>
      BY <1>1, <1>2, <1>5 DEF Pending
    <3>2. contexts[Depth].line # NoLine
      BY <1>3, <3>1 DEF LinesFirst
    <3>3. Depth = 1 /\ Ready
      BY <1>3, <3>1, <3>2 DEF LinesFirst
    <3> QED BY <3>2, <3>3
  <2>2. OfLine /\ Pending = writes[2] /\ writes'[2] = Tail(Pending) /\ 1 + 1 = 2
    BY <1>1, <2>1 DEF OfLine, Pending
  <2>3. contexts[1].at = "ret"
    BY <1>2, <1>3, <2>2 DEF EndsLeft
  <2>4. /\ contexts' = contexts /\ fitted
        /\ pics' = [pics EXCEPT ![w.chip] = Written(@, w)]
    BY <1>2, <2>1 DEF Ready
  <2>5. OfLine' /\ contexts'[1] = contexts[1] /\ contexts'[1].at = "ret"
    BY <1>1, <2>2, <2>3, <2>4 DEF OfLine
  <2>6. Ready' <=> Ready
    BY <1>2 DEF Ready, kernelVars
  <2>7. LinesFirst'
    <3>1. \A k \in 1 .. Depth' : k = 1
      BY <1>1, <2>1
    <3> QED BY <1>2, <1>3, <1>5, <2>1, <2>4, <2>6, <3>1 DEF LinesFirst
  <2>8. 1 \in Chips /\ 2 \in Chips /\ 1 # 2
    BY DEF Chips
  <2>9. CASE writes[2] = <<Command(1, EOI)>>
    <3>1. w = Command(1, EOI) /\ writes'[2] = <<>>
      BY <1>1, <2>2, <2>9
    <3>2. w.chip = 1 /\ writes[2][1].chip = 1 /\ Len(writes[2]) = 1
      BY <2>9, <3>1 DEF Command
    <3>3. ~Due(2)
      BY <2>3, <3>2 DEF Due
    <3>4. \E i : pics[1].isr = {i} \/ pics[1].isr = {}
      BY <1>3 DEF InService, HeldByMaster
    <3>5. pics[2].isr = {}
      BY <1>3, <3>3 DEF InService, HeldBySlave
    <3>6. /\ pics'[1].isr = {}
          /\ \A d \in Chips : d # 1 => pics'[d].isr = pics[d].isr
      BY <2>4, <2>8, <3>1, <3>2, <3>4, EndWritten
    <3>7. ~Due(1)' /\ ~Due(2)'
      BY <2>5, <3>1 DEF Due
    <3>8. HeldByMaster' = {} /\ HeldBySlave' = {}
      BY <1>2, <3>7 DEF HeldByMaster, HeldBySlave
    <3>9. InService'
      BY <2>8, <3>5, <3>6, <3>8 DEF InService
    <3>10. EndsLeft'
      BY <2>5, <3>1 DEF EndsLeft
    <3> QED BY <2>7, <3>9, <3>10 DEF Serving
  <2>10. CASE line >= 8 /\ writes[2] = <<Command(2, EOI), Command(1, EOI)>>
    <3>1. w = Command(2, EOI) /\ writes'[2] = <<Command(1, EOI)>>
      BY <1>1, <2>2, <2>10
    <3>2. /\ w.chip = 2 /\ Len(writes[2]) = 2
          /\ writes[2][1].chip = 2 /\ writes[2][2].chip = 1
      BY <2>10, <3>1 DEF Command
    <3>3. Due(1) /\ Due(2)
      BY <2>2, <3>2 DEF Due
    <3>4. pics[1].isr = {CASCADE}
      BY <1>3, <2>10, <3>3 DEF InService, HeldByMaster
    <3>5. \E i : pics[2].isr = {i} \/ pics[2].isr = {}
      BY <1>3 DEF InService, HeldBySlave
    <3>6. /\ pics'[2].isr = {}
          /\ \A d \in Chips : d # 2 => pics'[d].isr = pics[d].isr
      BY <2>4, <2>8, <3>1, <3>2, <3>5, EndWritten
    <3>7. Due(1)' /\ ~Due(2)'
      <4>1. Len(writes'[2]) = 1 /\ writes'[2][1].chip = 1
        BY <3>1 DEF Command
      <4> QED BY <2>5, <4>1 DEF Due
    <3>8. HeldByMaster' = {CASCADE} /\ HeldBySlave' = {}
      BY <2>5, <2>10, <3>7 DEF HeldByMaster, HeldBySlave, CASCADE
    <3>9. InService'
      BY <2>8, <3>4, <3>6, <3>8 DEF InService
    <3>10. writes'[2] = <<Command(1, EOI)>>'
      BY <3>1 DEF Command, EOI
    <3>11. EndsLeft'
      BY <2>5, <3>10 DEF EndsLeft
    <3> QED BY <2>7, <3>9, <3>11 DEF Serving
  <2> QED BY <1>2, <1>3, <2>2, <2>9, <2>10 DEF EndsLeft
<1> QED BY <1>1, <1>4, <1>5

\* A handler above the context of a line goes to another place.
LEMMA OtherMoves ==
  ASSUME IInv, Serving, Depth > 0, mode = "run", Top.line = NoLine,
         NEW place \in Places, GoTo(place),
         UNCHANGED <<kernelVars, picVars, writes>>,
         mode' \in {"run", "halt"}, iflag' => iflag
  PROVE  Serving'
<1>1. /\ Depth \in Nat /\ Depth' = Depth /\ Len(contexts) = Depth
      /\ \A k \in 1 .. Depth :
           /\ contexts'[k].vector = contexts[k].vector
           /\ contexts'[k].iflag = contexts[k].iflag
           /\ contexts'[k].line = contexts[k].line
           /\ contexts'[k].at = (IF k = Depth THEN place ELSE contexts[k].at)
  BY ServingTypes, GoToFacts DEF IInv
<1>2. LinesFirst'
  <2>1. Ready' <=> Ready
    BY DEF Ready, kernelVars, picVars
  <2>2. iflag' \/ mode' \in {"inta", "cascade"} => Depth' = 0
    BY <1>1 DEF Serving, LinesFirst
  <2> QED BY <1>1, <2>1, <2>2 DEF Serving, LinesFirst
<1>3. contexts[Depth].line = NoLine
  BY DEF Top
<1>4. OfLine' <=> OfLine
  <2>1. 1 \in 1 .. Depth
    BY <1>1
  <2> QED BY <1>1, <2>1 DEF OfLine
<1>5. OfLine => contexts'[1] = contexts[1]
  <2> SUFFICES ASSUME OfLine
               PROVE  contexts'[1] = contexts[1]
    OBVIOUS
  <2>1. Depth # 1
    BY <1>3 DEF OfLine
  <2> QED BY <2>1 DEF GoTo
<1> QED BY <1>2, <1>4, <1>5, FirstStays DEF Serving, picVars

\* What is sent for a line, write by write.
LEMMA EndsSent ==
  ASSUME NEW irq \in Nat
  PROVE  i8259_SendEndOfInterrupt(irq) =
           (IF irq >= 8 THEN <<Command(2, EOI), Command(1, EOI)>> ELSE <<Command(1, EOI)>>)
<1> DEFINE a == Command(2, EOI)
           b == Command(1, EOI)
<1>1. i8259_SendEndOfInterrupt(irq) = (IF irq >= 8 THEN <<a>> ELSE <<>>) \o <<b>>
  BY DEF i8259_SendEndOfInterrupt
<1> HIDE DEF a, b
<1>2. CASE irq >= 8
  <2>1. <<a>> \o <<b>> = <<a, b>>
    <3> DEFINE s == <<a>> \o <<b>>
               t == <<a, b>>
    <3>1. a \in {a, b} /\ b \in {a, b}
      OBVIOUS
    <3>2. <<a>> \in Seq({a, b}) /\ <<b>> \in Seq({a, b}) /\ t \in Seq({a, b})
      BY <3>1
    <3>3. /\ s \in Seq({a, b}) /\ Len(s) = 2
          /\ \A i \in 1 .. 2 : s[i] = IF i <= 1 THEN <<a>>[i] ELSE <<b>>[i - 1]
      <4>1. /\ s \in Seq({a, b}) /\ Len(s) = Len(<<a>>) + Len(<<b>>)
            /\ \A i \in 1 .. Len(<<a>>) + Len(<<b>>) :
                 s[i] = IF i <= Len(<<a>>) THEN <<a>>[i] ELSE <<b>>[i - Len(<<a>>)]
        BY <3>2, ConcatProperties
      <4>2. Len(<<a>>) = 1 /\ Len(<<b>>) = 1
        OBVIOUS
      <4> QED BY <4>1, <4>2
    <3>4. Len(t) = 2 /\ t[1] = a /\ t[2] = b
      OBVIOUS
    <3> HIDE DEF s, t
    <3>5. \A i \in 1 .. 2 : s[i] = t[i]
      BY <3>3, <3>4
    <3> HIDE DEF s, t
    <3>6. s = t
      BY <3>2, <3>3, <3>4, <3>5, SeqEqual
    <3> QED BY <3>6 DEF s, t
  <2> QED BY <1>1, <1>2, <2>1 DEF a, b
<1>3. CASE ~(irq >= 8)
  <2>1. <<>> \o <<b>> = <<b>>
    OBVIOUS
  <2> QED BY <1>1, <1>3, <2>1 DEF a, b
<1> QED BY <1>2, <1>3

\* The handler of a line moves on, and at its end has the chips to tell of it.
LEMMA LineMoves ==
  ASSUME IInv, Serving, Depth > 0, mode = "run", Top.line # NoLine,
         Top.at \in {"isr", "irq"},
         NEW place \in {"irq", "ret"}, GoTo(place),
         UNCHANGED <<kernelVars, picVars, mode, iflag>>, Len(writes') = Len(writes),
         writes'[2] = IF place = "ret" THEN i8259_SendEndOfInterrupt(Top.line) ELSE <<>>
  PROVE  Serving'
<1> DEFINE line == contexts[1].line
<1>1. Depth = 1 /\ Depth \in 1 .. Depth /\ Ready
  <2>1. Depth \in 1 .. Depth
    BY ServingTypes
  <2> QED BY <2>1 DEF Serving, LinesFirst, Top
<1>2. /\ Depth' = 1
      /\ contexts'[1].iflag = contexts[1].iflag /\ contexts'[1].line = line
      /\ contexts'[1].real = contexts[1].real /\ contexts'[1].at = place
  <2>1. KernelTypeOK /\ place \in Places
    BY DEF IInv, Places
  <2>2. /\ Depth' = Depth
        /\ \A k \in 1 .. Depth :
             /\ contexts'[k].iflag = contexts[k].iflag
             /\ contexts'[k].line = contexts[k].line
             /\ contexts'[k].real = contexts[k].real
             /\ contexts'[k].at = (IF k = Depth THEN place ELSE contexts[k].at)
    BY <2>1, GoToFacts
  <2> QED BY <1>1, <2>2
<1>3. line # NoLine /\ line \in Nat /\ Top = contexts[1]
  <2>1. Top = contexts[1]
    BY <1>1 DEF Top
  <2>2. contexts[1] \in ContextRecord
    BY <1>1, ServingTypes
  <2> QED BY <2>1, <2>2 DEF ContextRecord, Irqs
<1>4. LinesFirst'
  <2>1. Ready' <=> Ready
    BY DEF Ready, kernelVars, picVars
  <2>2. \A k \in 1 .. Depth' : k = 1
    BY <1>2
  <2>3. ~iflag /\ mode \notin {"inta", "cascade"}
    BY <1>1 DEF Serving, LinesFirst
  <2> QED BY <1>1, <1>2, <1>3, <2>1, <2>2, <2>3 DEF LinesFirst
<1>5. OfLine /\ OfLine'
  BY <1>1, <1>2, <1>3 DEF OfLine
<1>6. \/ place = "irq" /\ writes'[2] = <<>>
      \/ place = "ret" /\ line >= 8 /\ writes'[2] = <<Command(2, EOI), Command(1, EOI)>>
      \/ place = "ret" /\ ~(line >= 8) /\ writes'[2] = <<Command(1, EOI)>>
  BY <1>3, EndsSent
<1>7. EndsLeft'
  <2>1. /\ <<Command(1, EOI)>>' = <<Command(1, EOI)>>
        /\ <<Command(2, EOI), Command(1, EOI)>>' = <<Command(2, EOI), Command(1, EOI)>>
    BY DEF Command, EOI
  <2>2. /\ contexts'[1].at \in {"isr", "irq", "ret"}
        /\ contexts'[1].at # "ret" => writes'[2] = <<>>
    BY <1>2, <1>6
  <2>3. \/ writes'[2] = <<>> \/ writes'[2] = <<Command(1, EOI)>>'
        \/ contexts'[1].line >= 8 /\ writes'[2] = <<Command(2, EOI), Command(1, EOI)>>'
    BY <1>2, <1>6, <2>1
  <2> QED BY <2>2, <2>3 DEF EndsLeft
<1>8. Due(1) /\ Due(2)
  BY <1>3, <1>5 DEF Due
<1>9. Due(1)' /\ (line >= 8 => Due(2)')
  <2>1. CASE place = "irq"
    BY <1>2, <1>5, <2>1 DEF Due
  <2>2. CASE line >= 8 /\ writes'[2] = <<Command(2, EOI), Command(1, EOI)>>
    <3> DEFINE x == Command(2, EOI)
               y == Command(1, EOI)
    <3>1. x.chip = 2 /\ y.chip = 1 /\ writes'[2] = <<x, y>>
      BY <2>2 DEF Command
    <3> HIDE DEF x, y
    <3>2. Len(writes'[2]) = 2 /\ writes'[2][1].chip = 2 /\ writes'[2][2].chip = 1
      BY ONLY <3>1
    <3> QED BY <1>5, <3>2 DEF Due
  <2>3. CASE ~(line >= 8) /\ writes'[2] = <<Command(1, EOI)>>
    <3> DEFINE y == Command(1, EOI)
    <3>1. y.chip = 1 /\ writes'[2] = <<y>>
      BY <2>3 DEF Command
    <3> HIDE DEF y
    <3>2. Len(writes'[2]) = 1 /\ writes'[2][1].chip = 1
      BY ONLY <3>1
    <3> QED BY <1>5, <2>3, <3>2 DEF Due
  <2> QED BY <1>6, <2>1, <2>2, <2>3
<1>10. HeldByMaster' = HeldByMaster /\ HeldBySlave' = HeldBySlave
  BY <1>2, <1>8, <1>9 DEF HeldByMaster, HeldBySlave
<1>11. InService'
  BY <1>10 DEF Serving, InService, picVars
<1> QED BY <1>4, <1>7, <1>11 DEF Serving

\* Which contexts are of a line, by their vector.
LEMMA LineByVector ==
  ASSUME IInv, Serving, Depth > 0
  PROVE  /\ Depth \in 1 .. Depth /\ Top \in ContextRecord
         /\ Top.line # NoLine <=> Top.vector \in IrqVectors
         /\ Top.line # NoLine => /\ Top.vector = PIC_REMAP_OFFSET + Top.line
                                 /\ Top.line \in Irqs /\ Ready /\ Depth = 1
                                 /\ Top.at \in {"isr", "irq", "ret"}
<1>1. Depth \in 1 .. Depth /\ Top \in ContextRecord
  BY ServingTypes DEF Top
<1>2. /\ Top.line = NoLine => Top.vector \notin IrqVectors
      /\ Top.line # NoLine => /\ Top.vector = PIC_REMAP_OFFSET + Top.line
                              /\ Depth = 1 /\ Ready
  BY <1>1 DEF IInv, Handlers, VectorIsLine, Serving, LinesFirst, Top
<1>3. Top.line # NoLine => Top.line \in Irqs
  BY <1>1 DEF ContextRecord
<1>4. Top.line # NoLine => Top.vector \in IrqVectors
  BY <1>2, <1>3 DEF IrqVectors, PIC_REMAP_OFFSET, Irqs
<1>5. Top.line # NoLine => Top.at \in {"isr", "irq", "ret"}
  BY <1>2 DEF Serving, EndsLeft, OfLine, Top
<1> QED BY <1>1, <1>2, <1>3, <1>4, <1>5

LEMMA HandlersServe ==
  ASSUME IInv, Serving, NMI \notin isrHandlers,
         i686_ISR_Handler \/ i686_IRQ_Handler \/ i686_Panic \/ PanicFallsThrough
  PROVE  Serving'
<1>1. CASE i686_ISR_Handler
  <2> DEFINE n == Regs("interrupt")
             place == IF n \in isrHandlers THEN (IF n \in IrqVectors THEN "irq" ELSE "ret")
                      ELSE IF n >= 32 THEN "ret" ELSE "panic"
  <2>1. /\ Depth > 0 /\ mode = "run" /\ n = Top.vector /\ Top.at = "isr"
        /\ writes[Depth + 1] = <<>>
    BY <1>1, InHandlerFacts DEF i686_ISR_Handler
  <2>2. GoTo(place) /\ UNCHANGED <<kernelVars, picVars, mode, iflag, writes>>
    BY <1>1 DEF i686_ISR_Handler
  <2>3. place \in Places
    BY DEF Places
  <2>4. CASE Top.line = NoLine
    <3> HIDE DEF place
    <3>1. mode' \in {"run", "halt"} /\ (iflag' => iflag)
      BY <2>1, <2>2
    <3> QED BY <2>1, <2>2, <2>3, <2>4, <3>1, OtherMoves
  <2>5. CASE Top.line # NoLine
    <3>1. n \in IrqVectors /\ Ready /\ Depth = 1
      BY <2>1, <2>5, LineByVector
    <3>2. IrqVectors \subseteq isrHandlers
      BY <3>1 DEF IInv, BootState, Ready
    <3>3. place = "irq"
      BY <3>1, <3>2
    <3>4. GoTo("irq") /\ writes'[2] = <<>>
      BY <2>1, <2>2, <3>1, <3>3
    <3> HIDE DEF place, n
    <3> DEFINE p == "irq"
    <3>5. GoTo(p) /\ p \in {"irq", "ret"} /\ p # "ret"
      BY <3>4
    <3> HIDE DEF p
    <3>6. writes'[2] = IF p = "ret" THEN i8259_SendEndOfInterrupt(Top.line) ELSE <<>>
      BY <3>4, <3>5
    <3>7. UNCHANGED <<kernelVars, picVars, mode, iflag>> /\ Len(writes') = Len(writes)
      BY <2>2
    <3> QED BY <2>1, <2>5, <3>5, <3>6, <3>7, LineMoves
  <2> QED BY <2>4, <2>5
<1>2. CASE i686_IRQ_Handler
  <2> DEFINE list == i8259_SendEndOfInterrupt(Top.line)
  <2>1. /\ Depth > 0 /\ mode = "run" /\ Regs("interrupt") = Top.vector
        /\ Top.at = "irq" /\ Len(writes) = Depth + 1 /\ writes \in Seq(Seq(WriteRecord))
    BY <1>2, InHandlerFacts DEF i686_IRQ_Handler
  <2>2. Top.vector \in IrqVectors
    <3>1. Depth \in 1 .. Depth
      BY <2>1, LineByVector
    <3> QED BY <2>1, <3>1 DEF IInv, Handlers, Top
  <2>3. /\ Top.line # NoLine /\ Depth = 1 /\ Top.line \in Irqs
        /\ Top.vector - PIC_REMAP_OFFSET = Top.line
    <3>1. /\ Top.line # NoLine /\ Depth = 1 /\ Top.line \in Irqs
          /\ Top.vector = PIC_REMAP_OFFSET + Top.line
      BY <2>1, <2>2, LineByVector
    <3> QED BY <3>1 DEF PIC_REMAP_OFFSET, Irqs
  <2>4. /\ GoTo("ret") /\ writes' = [writes EXCEPT ![Depth + 1] = list]
        /\ UNCHANGED <<kernelVars, picVars, mode, iflag>>
    BY <1>2, <2>1, <2>3 DEF i686_IRQ_Handler, Write
  <2> HIDE DEF list
  <2>5. writes'[2] = list /\ Len(writes') = Len(writes)
    <3>1. Len(writes) = 2 /\ Depth + 1 = 2
      BY <2>1, <2>3
    <3>2. writes' = [writes EXCEPT ![2] = list]
      BY <2>4, <3>1
    <3> QED BY <2>1, <3>1, <3>2
  <2> DEFINE p == "ret"
  <2>6. GoTo(p) /\ p \in {"irq", "ret"} /\ p = "ret"
    BY <2>4
  <2> HIDE DEF p
  <2>7. writes'[2] = IF p = "ret" THEN i8259_SendEndOfInterrupt(Top.line) ELSE <<>>
    BY <2>5, <2>6 DEF list
  <2> QED BY <2>1, <2>3, <2>4, <2>5, <2>6, <2>7, LineMoves
<1>3. CASE i686_Panic
  <2>1. Depth > 0 /\ mode = "run" /\ Top.at = "panic"
    BY <1>3, InHandlerFacts DEF i686_Panic
  <2>2. Top.line = NoLine
    BY <2>1, LineByVector
  <2>3. /\ GoTo("hlt") /\ mode' \in {"run", "halt"} /\ (iflag' => iflag)
        /\ UNCHANGED <<kernelVars, picVars, writes>>
    BY <1>3 DEF i686_Panic
  <2>4. "hlt" \in Places
    BY DEF Places
  <2> QED BY <2>1, <2>2, <2>3, <2>4, OtherMoves
<1>4. CASE PanicFallsThrough
  <2>1. Depth > 0 /\ mode = "run" /\ Top.at = "hlt"
    BY <1>4, InHandlerFacts DEF PanicFallsThrough
  <2>2. Depth \in 1 .. Depth /\ ~(Depth < Depth)
    BY <2>1, ServingTypes
  <2> QED BY <2>1, <2>2 DEF IInv, Final, Top
<1> QED BY <1>1, <1>2, <1>3, <1>4

LEMMA ReturnServes ==
  ASSUME IInv, Serving, Return
  PROVE  Serving'
<1>1. /\ Depth \in Nat /\ Depth > 0 /\ mode = "run" /\ Top.at = "ret"
      /\ Regs("eip") = Depth - 1 /\ ((Regs("eflags") = 1) <=> Top.iflag)
      /\ Top \in ContextRecord /\ writes[Depth + 1] = <<>>
      /\ writes \in Seq(Seq(WriteRecord)) /\ Len(writes) = Depth + 1
  <2>1. InHandler("ret")
    BY DEF Return, InHandler
  <2> QED BY <2>1, InHandlerFacts
<1>2. contexts \in Seq(ContextRecord) /\ Len(contexts) = Depth
  BY ServingTypes
<1>3. /\ contexts' = SubSeq(contexts, 1, Depth - 1)
      /\ writes' = SubSeq(writes, 1, Depth)
      /\ iflag' => Top.iflag
      /\ UNCHANGED <<kernelVars, picVars, mode>>
  <2>1. Depth - 1 + 1 = Depth
    BY <1>1
  <2> QED BY <1>1, <2>1 DEF Return
<1>4. Depth' = Depth - 1 /\ \A k \in 1 .. Depth - 1 : contexts'[k] = contexts[k]
  <2>1. 1 \in Int /\ Depth - 1 \in Int /\ \A k \in 1 .. Depth - 1 : contexts[k] \in ContextRecord
    BY <1>1, <1>2, ElementOfSeq
  <2>2. /\ Len(SubSeq(contexts, 1, Depth - 1)) =
             IF 1 <= Depth - 1 THEN Depth - 1 - 1 + 1 ELSE 0
        /\ \A i \in 1 .. Depth - 1 - 1 + 1 :
             SubSeq(contexts, 1, Depth - 1)[i] = contexts[1 + i - 1]
    BY <2>1, SubSeqProperties
  <2>3. Len(contexts') = Depth - 1 /\ \A k \in 1 .. Depth - 1 : contexts'[k] = contexts[k]
    BY <1>1, <1>3, <2>2
  <2> QED BY <2>3 DEF Depth
<1>5. \A k \in 1 .. Depth : writes'[k] = writes[k]
  <2>1. 1 \in Int /\ Depth \in Int /\ \A k \in 1 .. Depth : writes[k] \in Seq(WriteRecord)
    BY <1>1, ElementOfSeq
  <2>2. \A i \in 1 .. Depth - 1 + 1 : SubSeq(writes, 1, Depth)[i] = writes[1 + i - 1]
    BY <2>1, SubSeqProperties
  <2> QED BY <1>1, <1>3, <2>2
<1>6. LinesFirst /\ EndsLeft /\ InService /\ Depth \in 1 .. Depth
  BY <1>1 DEF Serving
<1>7. Top.iflag => Depth = 1
  BY <1>6 DEF LinesFirst, Top
<1>8. LinesFirst'
  <2>1. Ready' <=> Ready
    BY <1>3 DEF Ready, kernelVars, picVars
  <2>2. iflag' \/ mode' \in {"inta", "cascade"} => Depth' = 0
    BY <1>1, <1>3, <1>4, <1>7
  <2>3. ASSUME NEW k \in 1 .. Depth'
        PROVE  /\ k \in 1 .. Depth /\ contexts'[k] = contexts[k]
               /\ writes'[k + 1] = writes[k + 1]
    <3>1. k \in 1 .. Depth - 1 /\ k \in 1 .. Depth /\ k + 1 \in 1 .. Depth
      BY <1>1, <1>4
    <3> QED BY <1>4, <1>5, <3>1
  <2> QED BY <1>6, <2>1, <2>2, <2>3 DEF LinesFirst
<1>9. CASE Depth > 1
  <2>1. 1 \in 1 .. Depth - 1 /\ 2 \in 1 .. Depth
    BY <1>1, <1>9
  <2>2. contexts'[1] = contexts[1] /\ writes'[2] = writes[2]
    BY <1>4, <1>5, <2>1
  <2>3. OfLine' <=> OfLine
    BY <1>1, <1>4, <1>9, <2>2 DEF OfLine
  <2> QED BY <1>3, <1>6, <1>8, <2>2, <2>3, FirstStays DEF Serving, picVars
<1>10. CASE Depth = 1
  <2>1. Depth' = 0 /\ writes[2] = <<>> /\ contexts[1].at = "ret" /\ Len(writes[2]) = 0
    <3>1. writes[2] = <<>>
      BY <1>1, <1>10
    <3> QED BY <1>1, <1>4, <1>10, <3>1 DEF Top
  <2>2. ~Due(1) /\ ~Due(2)
    BY <2>1 DEF Due
  <2>3. ~OfLine' /\ ~Due(1)' /\ ~Due(2)'
    BY <2>1 DEF Due, OfLine
  <2>4. InService'
    BY <1>1, <1>3, <1>6, <2>2, <2>3 DEF InService, HeldByMaster, HeldBySlave, picVars
  <2> QED BY <1>8, <2>3, <2>4 DEF Serving, EndsLeft
<1> QED BY <1>1, <1>9, <1>10

-----------------------------------------------------------------------------
(* The inputs in service.                                                  *)

LEMMA HandlersStay ==
  ASSUME [Next]_vars
  PROVE  isrHandlers \subseteq isrHandlers'
<1>1. CASE Boot \/ Driver
  BY <1>1 DEF Boot, i686_IDT_Initialize, i686_ISR_Initialize, i8259_Probe, NoPicFound,
              ConfigurePic, RegisterIrqHandlers, i686_EnableInterrupts, Driver,
              RegisterIrqHandler, RegisterIsrHandler, SetMask
<1>2. CASE PortWrite \/ HandlerStep \/ Devices
  BY <1>2 DEF PortWrite, HandlerStep, i686_ISR_Handler, i686_IRQ_Handler, i686_Panic,
              PanicFallsThrough, Return, Devices, Raise, Drop, kernelVars
<1>3. CASE Acknowledge \/ Exceptions
  BY <1>3 DEF Acknowledge, Recognise, AcknowledgeMaster, AcknowledgeSlave,
              Exceptions, Fault, crash_me, NonMaskable, kernelVars
<1>4. CASE Idle \/ UNCHANGED vars
  BY <1>4 DEF Idle, vars, kernelVars
<1> QED BY <1>1, <1>2, <1>3, <1>4 DEF Next

LEMMA ServingStep ==
  ASSUME IInv, Serving, NMI \notin isrHandlers, [Next]_vars
  PROVE  Serving'
<1>1. CASE Boot \/ Driver
  BY <1>1, StartServes
<1>2. CASE PortWrite
  BY <1>2, PortWriteServes
<1>3. CASE HandlerStep
  BY <1>3, HandlersServe, ReturnServes DEF HandlerStep
<1>4. CASE Devices
  BY <1>4, DevicesServe
<1>5. CASE Acknowledge
  BY <1>5, AcknowledgeServes
<1>6. CASE Exceptions
  BY <1>6, ExceptionsServe
<1>7. CASE Idle \/ UNCHANGED vars
  BY <1>7, UnchangedServes DEF Idle
<1> QED BY <1>1, <1>2, <1>3, <1>4, <1>5, <1>6, <1>7 DEF Next

LEMMA ServingInit ==
  ASSUME Init
  PROVE  Serving
<1>1. Depth = 0 /\ mode = "run" /\ 1 .. Depth = {}
  BY DEF Init, Depth
<1>2. pics[1].isr = {} /\ pics[2].isr = {}
  BY DEF Init, BiosChip
<1>3. ~OfLine /\ HeldByMaster = {} /\ HeldBySlave = {}
  BY <1>1, NoneInStart
<1> QED BY <1>1, <1>2, <1>3 DEF Serving, LinesFirst, EndsLeft, InService

\* Only the interrupt of context 1 may have its end still to be sent.
LEMMA UnfinishedIsDue ==
  ASSUME IInv, Serving, NEW chip \in Chips
  PROVE  Unfinished(chip) = IF Due(chip) THEN {1} ELSE {}
<1>1. Depth \in Nat
  BY ServingTypes
<1>2. ASSUME NEW k \in Unfinished(chip)
      PROVE  k = 1 /\ Due(chip)
  <2>1. k \in 1 .. Depth /\ contexts[k].line # NoLine
    BY DEF Unfinished
  <2>2. k = 1 /\ k + 1 = 2
    BY <2>1 DEF Serving, LinesFirst
  <2>3. \/ contexts[1].at \in {"isr", "irq"}
        \/ \E i \in 1 .. Len(writes[2]) : writes[2][i].chip = chip
    BY <2>2 DEF Unfinished
  <2>4. OfLine
    BY <1>1, <2>1, <2>2 DEF OfLine
  <2> QED BY <2>2, <2>3, <2>4 DEF Due
<1>3. ASSUME Due(chip)
      PROVE  1 \in Unfinished(chip)
  <2>1. 1 \in 1 .. Depth /\ contexts[1].line # NoLine /\ 1 + 1 = 2
    BY <1>1, <1>3 DEF Due, OfLine
  <2>2. \/ contexts[1].at \in {"isr", "irq"}
        \/ \E i \in 1 .. Len(writes[2]) : writes[2][i].chip = chip
    BY <1>3 DEF Due, Serving, EndsLeft
  <2> QED BY <2>1, <2>2 DEF Unfinished
<1> QED BY <1>2, <1>3

LEMMA OwedIsHeld ==
  ASSUME IInv, Serving
  PROVE  Owed(1) = HeldByMaster /\ Owed(2) = HeldBySlave
<1> DEFINE line == contexts[1].line
<1>1. /\ Unfinished(1) = (IF Due(1) THEN {1} ELSE {})
      /\ Unfinished(2) = (IF Due(2) THEN {1} ELSE {})
  BY UnfinishedIsDue DEF Chips
<1>2. OfLine => line \in 0 .. 15
  <2>1. OfLine => contexts[1] \in ContextRecord
    BY ServingTypes DEF OfLine
  <2> QED BY <2>1 DEF OfLine, ContextRecord, Irqs
<1>3. /\ OfLine /\ line >= 8 => ChipOf(line) = 2 /\ InputOf(line) = line - 8
      /\ OfLine /\ ~(line >= 8) => ChipOf(line) = 1 /\ InputOf(line) = line
  BY <1>2 DEF ChipOf, InputOf
<1>4. mode = "cascade" => ~OfLine
  BY DEF Serving, LinesFirst, OfLine
<1>5. (Due(1) => OfLine) /\ (Due(2) => OfLine)
  BY DEF Due
<1>6. Owed(2) = HeldBySlave
  <2>1. Owed(2) = {InputOf(contexts[k].line) :
                     k \in {j \in Unfinished(2) : ChipOf(contexts[j].line) = 2
                                                  /\ contexts[j].real}}
    BY DEF Owed
  <2>2. CASE Due(2) /\ line >= 8 /\ contexts[1].real
    <3>1. {j \in Unfinished(2) : ChipOf(contexts[j].line) = 2 /\ contexts[j].real} = {1}
      BY <1>1, <1>3, <1>5, <2>2
    <3>2. Owed(2) = {InputOf(line)}
      BY <2>1, <3>1
    <3> QED BY <1>3, <1>5, <2>2, <3>2 DEF HeldBySlave
  <2>3. CASE ~(Due(2) /\ line >= 8 /\ contexts[1].real)
    <3>1. {j \in Unfinished(2) : ChipOf(contexts[j].line) = 2 /\ contexts[j].real} = {}
      BY <1>1, <1>3, <1>5, <2>3
    <3> QED BY <2>1, <2>3, <3>1 DEF HeldBySlave
  <2> QED BY <2>2, <2>3
<1>7. Owed(1) = HeldByMaster
  <2> DEFINE own == {InputOf(contexts[k].line) :
                       k \in {j \in Unfinished(1) : ChipOf(contexts[j].line) = 1
                                                    /\ contexts[j].real}}
             slaves == mode = "cascade" \/ \E k \in Unfinished(1) : contexts[k].line >= 8
  <2>1. Owed(1) = own \cup (IF slaves THEN {CASCADE} ELSE {})
    BY DEF Owed
  <2>2. slaves <=> mode = "cascade" \/ (Due(1) /\ line >= 8)
    BY <1>1
  <2>3. CASE Due(1) /\ ~(line >= 8) /\ contexts[1].real
    <3>1. {j \in Unfinished(1) : ChipOf(contexts[j].line) = 1 /\ contexts[j].real} = {1}
      BY <1>1, <1>3, <1>5, <2>3
    <3>2. own = {line}
      BY <1>3, <1>5, <2>3, <3>1
    <3>3. ~slaves
      BY <1>4, <1>5, <2>2, <2>3
    <3> HIDE DEF own, slaves
    <3>4. Owed(1) = {line}
      BY <2>1, <3>2, <3>3
    <3> QED BY <1>4, <1>5, <2>3, <3>4 DEF HeldByMaster
  <2>4. CASE ~(Due(1) /\ ~(line >= 8) /\ contexts[1].real)
    <3>1. {j \in Unfinished(1) : ChipOf(contexts[j].line) = 1 /\ contexts[j].real} = {}
      BY <1>1, <1>3, <1>5, <2>4
    <3>2. own = {}
      BY <3>1
    <3> HIDE DEF own, slaves
    <3>3. Owed(1) = IF slaves THEN {CASCADE} ELSE {}
      BY <2>1, <3>2
    <3> QED BY <2>2, <2>4, <3>3 DEF HeldByMaster
  <2> QED BY <2>3, <2>4
<1> QED BY <1>6, <1>7

LEMMA InServiceHolds ==
  ASSUME IInv, NMI \notin isrHandlers => Serving
  PROVE  InServiceWhileHandled
<1> SUFFICES ASSUME NMI \notin isrHandlers
             PROVE  pics[1].isr = Owed(1) /\ pics[2].isr = Owed(2)
  BY DEF InServiceWhileHandled, Chips
<1> QED BY OwedIsHeld DEF Serving, InService

\* For any lines, handlers, faults and depth of nesting: an input of a chip is in
\* service from the cycle that acknowledges it to the very port write that ends
\* it.  Spurious requests of either chip, exceptions inside a handler and lines
\* that fall between the cycles leave none behind, and none is ended twice.
THEOREM ServedToTheEnd == Spec => []InServiceWhileHandled
<1> DEFINE S == NMI \notin isrHandlers => Serving
<1>1. Init => S
  BY ServingInit
<1>2. IInv /\ S /\ [Next]_vars => S'
  BY ServingStep, HandlersStay
<1>3. IInv /\ S => InServiceWhileHandled
  BY InServiceHolds
<1> HIDE DEF S
<1> QED BY <1>1, <1>2, <1>3, InterruptInvariant, PTL DEF Spec

-----------------------------------------------------------------------------
(* Masked lines.                                                           *)

\* The bits of g_PicMask, in the two bytes it is sent as.
LEMMA MaskBits ==
  ASSUME NEW mask \in Nat, NEW i \in Inputs
  PROVE  /\ Bit(mask % 256, i) <=> Bit(mask, i)
         /\ Bit(mask \div 256, i) <=> Bit(mask, i + 8)
<1>1. ASSUME NEW p \in {1, 2, 4, 8, 16, 32, 64, 128}
      PROVE  /\ ((mask % 256) \div p) % 2 = (mask \div p) % 2
             /\ (mask \div 256) \div p = mask \div (256 * p)
  <2>1. CASE p = 1
    BY <2>1
  <2>2. CASE p = 2
    BY <2>2
  <2>3. CASE p = 4
    BY <2>3
  <2>4. CASE p = 8
    BY <2>4
  <2>5. CASE p = 16
    BY <2>5
  <2>6. CASE p = 32
    BY <2>6
  <2>7. CASE p = 64
    BY <2>7
  <2>8. CASE p = 128
    BY <2>8
  <2> QED BY <2>1, <2>2, <2>3, <2>4, <2>5, <2>6, <2>7, <2>8
<1>2. \E p \in {1, 2, 4, 8, 16, 32, 64, 128} : 2^i = p /\ 2^(i + 8) = 256 * p
  <2>1. i = 0 => 2^i = 1 /\ 2^(i + 8) = 256
    BY 2^0 = 1, 2^8 = 256
  <2>2. i = 1 => 2^i = 2 /\ 2^(i + 8) = 512
    BY 2^1 = 2, 2^9 = 512
  <2>3. i = 2 => 2^i = 4 /\ 2^(i + 8) = 1024
    BY 2^2 = 4, 2^10 = 1024
  <2>4. i = 3 => 2^i = 8 /\ 2^(i + 8) = 2048
    BY 2^3 = 8, 2^11 = 2048
  <2>5. i = 4 => 2^i = 16 /\ 2^(i + 8) = 4096
    BY 2^4 = 16, 2^12 = 4096
  <2>6. i = 5 => 2^i = 32 /\ 2^(i + 8) = 8192
    BY 2^5 = 32, 2^13 = 8192
  <2>7. i = 6 => 2^i = 64 /\ 2^(i + 8) = 16384
    BY 2^6 = 64, 2^14 = 16384
  <2>8. i = 7 => 2^i = 128 /\ 2^(i + 8) = 32768
    BY 2^7 = 128, 2^15 = 32768
  <2> DEFINE a == 2^i
             b == 2^(i + 8)
  <2>9. \/ a = 1 /\ b = 256
        \/ a = 2 /\ b = 512
        \/ a = 4 /\ b = 1024
        \/ a = 8 /\ b = 2048
        \/ a = 16 /\ b = 4096
        \/ a = 32 /\ b = 8192
        \/ a = 64 /\ b = 16384
        \/ a = 128 /\ b = 32768
    <3>1. i \in {0, 1, 2, 3, 4, 5, 6, 7}
      BY DEF Inputs
    <3>2. /\ i = 0 => a = 1 /\ b = 256
          /\ i = 1 => a = 2 /\ b = 512
          /\ i = 2 => a = 4 /\ b = 1024
          /\ i = 3 => a = 8 /\ b = 2048
          /\ i = 4 => a = 16 /\ b = 4096
          /\ i = 5 => a = 32 /\ b = 8192
          /\ i = 6 => a = 64 /\ b = 16384
          /\ i = 7 => a = 128 /\ b = 32768
      BY <2>1, <2>2, <2>3, <2>4, <2>5, <2>6, <2>7, <2>8
    <3> HIDE DEF a, b
    <3> QED BY <3>1, <3>2
  <2> HIDE DEF a, b
  <2>10. a \in {1, 2, 4, 8, 16, 32, 64, 128} /\ b = 256 * a
    BY <2>9
  <2> QED BY <2>10 DEF a, b
<1>3. PICK p \in {1, 2, 4, 8, 16, 32, 64, 128} : 2^i = p /\ 2^(i + 8) = 256 * p
  BY <1>2
<1> DEFINE a == 2^i
           b == 2^(i + 8)
<1>4. a = p /\ b = 256 * p
  BY <1>3
<1>5. /\ Bit(mask % 256, i) <=> ((mask % 256) \div a) % 2 = 1
      /\ Bit(mask, i) <=> (mask \div a) % 2 = 1
      /\ Bit(mask \div 256, i) <=> ((mask \div 256) \div a) % 2 = 1
      /\ Bit(mask, i + 8) <=> (mask \div b) % 2 = 1
  BY DEF Bit
<1> HIDE DEF a, b
<1> QED BY <1>1, <1>4, <1>5

\* While an interrupt is acknowledged and start() has no write to make, what the
\* chips present is not masked in g_PicMask.
LEMMA PresentedUnmasked ==
  ASSUME IInv, mode \in {"inta", "cascade"}, writes[1] = <<>>
  PROVE  /\ \A i \in MasterRequests(pics) : i \in Inputs /\ ~Bit(picMask, i)
         /\ \A i \in SlaveRequests(pics) : i \in Inputs /\ ~Bit(picMask, i + 8)
<1>1. PicVarsOK /\ KernelVarsOK
  BY DEF IInv, KernelTypeOK
<1>2. picMask \in Nat
  BY <1>1, KernelVarsFacts, MaskValues
<1>3. pics[1].imr = picMask % 256 /\ pics[2].imr = picMask \div 256
  <2>1. MaskTold
    BY AcknowledgingReady DEF IInv, ChipsTold, Ready
  <2>2. \A x, y : <<x>> # <<>> /\ <<x, y>> # <<>>
    OBVIOUS
  <2> QED BY <2>1, <2>2 DEF MaskTold, i8259_SetMask
<1>4. /\ \A i \in MasterRequests(pics) : i \in Inputs /\ ~Bit(pics[1].imr, i)
      /\ \A i \in SlaveRequests(pics) : i \in Inputs /\ ~Bit(pics[2].imr, i)
  <2>1. SlaveRequests(pics) \subseteq Inputs /\ MasterRequests(pics) \subseteq Inputs
    BY <1>1, RequestsAreInputs
  <2>2. \A chip, requests : \A i \in Presented(chip, requests) : ~Bit(chip.imr, i)
    BY DEF Presented
  <2> QED BY <2>1, <2>2 DEF MasterRequests, SlaveRequests
<1>5. ASSUME NEW i \in Inputs
      PROVE  /\ Bit(pics[1].imr, i) <=> Bit(picMask, i)
             /\ Bit(pics[2].imr, i) <=> Bit(picMask, i + 8)
  <2>1. /\ Bit(picMask % 256, i) <=> Bit(picMask, i)
        /\ Bit(picMask \div 256, i) <=> Bit(picMask, i + 8)
    BY <1>2, MaskBits
  <2> QED BY <1>3, <2>1
<1> QED BY <1>4, <1>5

\* What no context is added to, and no write of start() is finished by, keeps
\* Unmasked.
LEMMA UnmaskedKept ==
  ASSUME Unmasked, picMask' = picMask, writes'[1] = writes[1],
         Depth \in Nat, Depth' \in Nat, Depth' <= Depth,
         \A k \in 1 .. Depth' : /\ contexts'[k].real = contexts[k].real
                                /\ contexts'[k].line = contexts[k].line,
         mode' = "cascade" => mode = "cascade"
  PROVE  Unmasked'
<1>1. \A k \in 1 .. Depth' : k \in 1 .. Depth
  OBVIOUS
<1>2. OnlyUnmaskedServed'
  BY <1>1 DEF Unmasked, OnlyUnmaskedServed
<1> QED BY <1>2 DEF Unmasked

\* An interrupt taken whose request the masks allow.
LEMMA UnmaskedEntered ==
  ASSUME IInv, Unmasked,
         NEW v, NEW e, NEW line, NEW real \in BOOLEAN, Enter(v, e, line, real),
         picMask' = picMask,
         real /\ writes[1] = <<>> =>
           ~Bit(picMask, line) /\ (line >= 8 => ~Bit(picMask, CASCADE))
  PROVE  Unmasked'
<1>1. /\ Depth \in Nat /\ Depth' = Depth + 1
      /\ \A k \in 1 .. Depth : contexts'[k] = contexts[k]
      /\ contexts'[Depth + 1] = Context(v, e, line, real)
      /\ \A k \in 1 .. Depth + 1 : writes'[k] = writes[k]
      /\ mode' = "run"
  BY EntryFacts
<1>2. contexts'[Depth + 1].line = line /\ contexts'[Depth + 1].real = real
  BY <1>1 DEF Context
<1>3. writes'[1] = writes[1]
  BY <1>1
<1>4. ASSUME NEW k \in 1 .. Depth', contexts'[k].real, writes[1] = <<>>
      PROVE  /\ ~Bit(picMask, contexts'[k].line)
             /\ contexts'[k].line >= 8 => ~Bit(picMask, CASCADE)
  <2>1. CASE k \in 1 .. Depth
    <3>1. contexts'[k] = contexts[k]
      BY <1>1, <2>1
    <3> QED BY <1>4, <2>1, <3>1 DEF Unmasked, OnlyUnmaskedServed
  <2>2. CASE k = Depth + 1
    <3>1. contexts'[k].line = line /\ real
      BY <1>2, <1>4, <2>2
    <3> QED BY <1>4, <3>1
  <2> QED BY <1>1, <2>1, <2>2
<1>5. OnlyUnmaskedServed'
  <2>1. \A i : Bit(picMask, i)' <=> Bit(picMask, i)
    BY DEF Bit
  <2>2. ASSUME NEW k \in 1 .. Depth', contexts'[k].real, writes'[1] = <<>>
        PROVE  /\ ~Bit(picMask', contexts'[k].line)
               /\ contexts'[k].line >= 8 => ~Bit(picMask', CASCADE)
    BY <1>3, <1>4, <2>2
  <2> QED BY <2>2 DEF OnlyUnmaskedServed, CASCADE
<1> QED BY <1>1, <1>5 DEF Unmasked

LEMMA UnmaskedDelivered ==
  ASSUME IInv, Unmasked,
         NEW v, NEW e, NEW line, NEW real \in BOOLEAN, Deliver(v, e, line, real),
         picMask' = picMask,
         real /\ writes[1] = <<>> =>
           ~Bit(picMask, line) /\ (line >= 8 => ~Bit(picMask, CASCADE))
  PROVE  Unmasked'
<1>1. CASE TripleFault
  <2>1. /\ mode' = "reset" /\ UNCHANGED <<contexts, writes>>
    BY <1>1 DEF TripleFault
  <2>2. Depth \in Nat /\ Depth' = Depth
    BY <2>1, ServingTypes DEF Depth
  <2> QED BY <2>1, <2>2, UnmaskedKept
<1>2. CASE Enter(v, e, line, real)
  BY <1>2, UnmaskedEntered
<1>3. CASE Enter(SegmentNotPresent, 8 * v + 2, NoLine, FALSE)
  <2> DEFINE none == FALSE
             code == 8 * v + 2
  <2>1. Enter(SegmentNotPresent, code, NoLine, none) /\ none \in BOOLEAN /\ ~none
    BY <1>3
  <2> HIDE DEF none, code
  <2> QED BY <2>1, UnmaskedEntered
<1> QED BY <1>1, <1>2, <1>3 DEF Deliver

LEMMA AcknowledgeUnmasked ==
  ASSUME IInv, Unmasked, Acknowledge
  PROVE  Unmasked'
<1>1. picMask' = picMask /\ Depth \in Nat
  BY ServingTypes DEF Acknowledge, Recognise, AcknowledgeMaster, AcknowledgeSlave, kernelVars
<1>2. CASE Recognise
  <2>1. mode' = "inta" /\ UNCHANGED <<contexts, writes>>
    BY <1>2 DEF Recognise
  <2>2. Depth' = Depth
    BY <2>1 DEF Depth
  <2> QED BY <1>1, <2>1, <2>2, UnmaskedKept
<1>3. CASE AcknowledgeMaster
  <2>1. mode = "inta"
    BY <1>3 DEF AcknowledgeMaster
  <2>2. writes[1] = <<>> => \A i \in MasterRequests(pics) : i \in Inputs /\ ~Bit(picMask, i)
    BY <2>1, PresentedUnmasked
  <2>3. CASE Deliver(pics[1].offset + 7, 0, 7, FALSE)
    <3> DEFINE none == FALSE
    <3>1. Deliver(pics[1].offset + 7, 0, 7, none) /\ none \in BOOLEAN /\ ~none
      BY <2>3
    <3> HIDE DEF none
    <3> QED BY <1>1, <3>1, UnmaskedDelivered
  <2>4. ASSUME NEW i \in Highest(MasterRequests(pics)),
               IF i = CASCADE THEN mode' = "cascade" /\ UNCHANGED <<iflag, stack, contexts, writes>>
                              ELSE Deliver(pics[1].offset + i, 0, i, TRUE)
        PROVE  Unmasked'
    <3>1. i \in MasterRequests(pics)
      BY DEF Highest
    <3>2. CASE i = CASCADE
      <4>1. mode' = "cascade" /\ UNCHANGED <<contexts, writes>>
        BY <2>4, <3>2
      <4>2. Depth' = Depth
        BY <4>1 DEF Depth
      <4>3. OnlyUnmaskedServed'
        BY <1>1, <4>1, <4>2 DEF Unmasked, OnlyUnmaskedServed
      <4>4. writes'[1] = <<>> => ~Bit(picMask', CASCADE)
        BY <1>1, <2>2, <3>1, <3>2, <4>1
      <4> QED BY <4>3, <4>4 DEF Unmasked, CASCADE
    <3>3. CASE i # CASCADE
      <4> DEFINE real == TRUE
      <4>1. Deliver(pics[1].offset + i, 0, i, real) /\ real \in BOOLEAN
        BY <2>4, <3>3
      <4> HIDE DEF real
      <4>2. writes[1] = <<>> => ~Bit(picMask, i) /\ ~(i >= 8)
        BY <2>2, <3>1 DEF Inputs
      <4> QED BY <1>1, <4>1, <4>2, UnmaskedDelivered
    <3> QED BY <3>2, <3>3
  <2> QED BY <1>3, <2>3, <2>4 DEF AcknowledgeMaster
<1>4. CASE AcknowledgeSlave
  <2>1. mode = "cascade"
    BY <1>4 DEF AcknowledgeSlave
  <2>2. writes[1] = <<>> =>
          \A i \in SlaveRequests(pics) : i \in Inputs /\ ~Bit(picMask, i + 8)
    BY <2>1, PresentedUnmasked
  <2>3. CASE Deliver(pics[2].offset + 7, 0, 15, FALSE)
    <3> DEFINE none == FALSE
    <3>1. Deliver(pics[2].offset + 7, 0, 15, none) /\ none \in BOOLEAN /\ ~none
      BY <2>3
    <3> HIDE DEF none
    <3> QED BY <1>1, <3>1, UnmaskedDelivered
  <2>4. ASSUME NEW i \in Highest(SlaveRequests(pics)),
               Deliver(pics[2].offset + i, 0, i + 8, TRUE)
        PROVE  Unmasked'
    <3> DEFINE real == TRUE
    <3>1. Deliver(pics[2].offset + i, 0, i + 8, real) /\ real \in BOOLEAN
      BY <2>4
    <3> HIDE DEF real
    <3>2. i \in SlaveRequests(pics)
      BY DEF Highest
    <3>3. writes[1] = <<>> => ~Bit(picMask, i + 8) /\ ~Bit(picMask, CASCADE)
      BY <2>1, <2>2, <3>2 DEF Unmasked
    <3> QED BY <1>1, <3>1, <3>3, UnmaskedDelivered
  <2> QED BY <1>4, <2>3, <2>4 DEF AcknowledgeSlave
<1> QED BY <1>2, <1>3, <1>4 DEF Acknowledge

LEMMA UnmaskedStep ==
  ASSUME IInv, IInv', Unmasked, [Next]_vars
  PROVE  Unmasked'
<1>0. Depth \in Nat /\ Depth' \in Nat /\ Len(writes) = Depth + 1 /\ writes \in Seq(Seq(WriteRecord))
      /\ contexts \in Seq(ContextRecord) /\ Len(contexts) = Depth
  <2>1. Depth' \in Nat
    <3>1. contexts' \in Seq(ContextRecord)
      BY DEF IInv, KernelTypeOK, CpuVarsOK, ContextRecord, Places, Vectors, Irqs, NoLine
    <3>2. Len(contexts') \in Nat
      BY <3>1, LenProperties
    <3> QED BY <3>2 DEF Depth
  <2> QED BY <2>1, ServingTypes
<1>1. CASE Boot \/ Driver
  <2>1. InStart /\ contexts' = contexts /\ mode' = mode
    BY <1>1 DEF Boot, i686_IDT_Initialize, i686_ISR_Initialize, i8259_Probe, NoPicFound,
         ConfigurePic, RegisterIrqHandlers, i686_EnableInterrupts, Driver,
         RegisterIrqHandler, RegisterIsrHandler, SetMask, InDriver, cpuVars
  <2>2. Depth' = 0 /\ mode' = "run"
    BY <2>1 DEF InStart, Running, Depth
  <2> QED BY <2>2 DEF Unmasked, OnlyUnmaskedServed
<1>2. CASE PortWrite
  <2>1. /\ Depth' = Depth /\ \A k \in 1 .. Depth : writes'[k] = writes[k]
    BY <1>2, PortWriteFacts
  <2>2. picMask' = picMask /\ contexts' = contexts /\ mode' = mode /\ mode = "run"
    BY <1>2 DEF PortWrite, kernelVars
  <2>3. CASE Depth = 0
    BY <2>1, <2>2, <2>3 DEF Unmasked, OnlyUnmaskedServed
  <2>4. CASE Depth > 0
    <3>1. writes'[1] = writes[1]
      BY <1>0, <2>1, <2>4
    <3> QED BY <1>0, <2>1, <2>2, <3>1, UnmaskedKept
  <2> QED BY <1>0, <2>3, <2>4
<1>3. CASE i686_ISR_Handler \/ i686_IRQ_Handler \/ i686_Panic \/ PanicFallsThrough
  <2>1. PICK place \in Places : GoTo(place)
    <3>1. CASE i686_ISR_Handler
      <4> DEFINE n == Regs("interrupt")
                 place == IF n \in isrHandlers THEN (IF n \in IrqVectors THEN "irq" ELSE "ret")
                          ELSE IF n >= 32 THEN "ret" ELSE "panic"
      <4>1. GoTo(place) /\ place \in Places
        BY <3>1 DEF i686_ISR_Handler, Places
      <4> HIDE DEF place
      <4> QED BY <4>1
    <3>2. CASE i686_IRQ_Handler
      BY <3>2 DEF i686_IRQ_Handler, Places
    <3>3. CASE i686_Panic
      BY <3>3 DEF i686_Panic, Places
    <3>4. CASE PanicFallsThrough
      BY <3>4 DEF PanicFallsThrough, Places
    <3> QED BY <1>3, <3>1, <3>2, <3>3, <3>4
  <2>2. Depth > 0 /\ picMask' = picMask /\ mode = "run" /\ mode' \in {"run", "halt"}
    BY <1>3 DEF i686_ISR_Handler, i686_IRQ_Handler, i686_Panic, PanicFallsThrough,
                InHandler, Running, kernelVars
  <2>3. writes'[1] = writes[1]
    <3>1. CASE i686_IRQ_Handler
      <4>1. PICK list : writes' = [writes EXCEPT ![Depth + 1] = list]
        BY <3>1 DEF i686_IRQ_Handler, Write
      <4>2. Depth + 1 # 1
        BY <1>0, <2>2
      <4> QED BY <4>1, <4>2
    <3>2. CASE i686_ISR_Handler \/ i686_Panic \/ PanicFallsThrough
      BY <3>2 DEF i686_ISR_Handler, i686_Panic, PanicFallsThrough
    <3> QED BY <1>3, <3>1, <3>2
  <2>4. /\ Depth' = Depth
        /\ \A k \in 1 .. Depth : /\ contexts'[k].line = contexts[k].line
                                 /\ contexts'[k].real = contexts[k].real
    BY <2>1, <2>2, GoToFacts DEF IInv
  <2> QED BY <1>0, <2>2, <2>3, <2>4, UnmaskedKept
<1>4. CASE Return
  <2>1. Depth > 0 /\ mode = "run" /\ Regs("eip") = Depth - 1
    <3>1. InHandler("ret")
      BY <1>4 DEF Return, InHandler
    <3> QED BY <3>1, InHandlerFacts
  <2>2. /\ contexts' = SubSeq(contexts, 1, Depth - 1)
        /\ writes' = SubSeq(writes, 1, Depth)
        /\ picMask' = picMask /\ mode' = mode
    <3>1. Depth - 1 + 1 = Depth
      BY <1>0
    <3> QED BY <1>4, <2>1, <3>1 DEF Return, kernelVars
  <2>3. Depth' = Depth - 1 /\ \A k \in 1 .. Depth - 1 : contexts'[k] = contexts[k]
    <3>1. 1 \in Int /\ Depth - 1 \in Int /\ \A k \in 1 .. Depth - 1 : contexts[k] \in ContextRecord
      BY <1>0, ElementOfSeq
    <3>2. /\ Len(SubSeq(contexts, 1, Depth - 1)) =
               IF 1 <= Depth - 1 THEN Depth - 1 - 1 + 1 ELSE 0
          /\ \A i \in 1 .. Depth - 1 - 1 + 1 :
               SubSeq(contexts, 1, Depth - 1)[i] = contexts[1 + i - 1]
      BY <3>1, SubSeqProperties
    <3>3. Len(contexts') = Depth - 1 /\ \A k \in 1 .. Depth - 1 : contexts'[k] = contexts[k]
      BY <1>0, <2>1, <2>2, <3>2
    <3> QED BY <3>3 DEF Depth
  <2>4. writes'[1] = writes[1]
    <3>1. 1 \in Int /\ Depth \in Int /\ \A k \in 1 .. Depth : writes[k] \in Seq(WriteRecord)
      BY <1>0, ElementOfSeq
    <3>2. \A i \in 1 .. Depth - 1 + 1 : SubSeq(writes, 1, Depth)[i] = writes[1 + i - 1]
      BY <3>1, SubSeqProperties
    <3> QED BY <1>0, <2>1, <2>2, <3>2
  <2> QED BY <1>0, <2>2, <2>3, <2>4, UnmaskedKept
<1>5. CASE Devices
  <2>1. picMask' = picMask /\ UNCHANGED <<contexts, writes, mode>>
    BY <1>5 DEF Devices, Raise, Drop, kernelVars, cpuVars
  <2>2. Depth' = Depth
    BY <2>1 DEF Depth
  <2> QED BY <1>0, <2>1, <2>2, UnmaskedKept
<1>6. CASE Acknowledge
  BY <1>6, AcknowledgeUnmasked
<1>7. CASE Exceptions
  <2>1. picMask' = picMask
    BY <1>7 DEF Exceptions, Fault, crash_me, NonMaskable, kernelVars
  <2> DEFINE none == FALSE
  <2>2. PICK v, e : Deliver(v, e, NoLine, none)
    BY <1>7 DEF Exceptions, Fault, crash_me, NonMaskable
  <2>3. none \in BOOLEAN /\ ~none
    OBVIOUS
  <2> HIDE DEF none
  <2> QED BY <2>1, <2>2, <2>3, UnmaskedDelivered
<1>8. CASE Idle \/ UNCHANGED vars
  <2>1. picMask' = picMask /\ UNCHANGED <<contexts, writes, mode>>
    BY <1>8 DEF Idle, vars, kernelVars, cpuVars
  <2>2. Depth' = Depth
    BY <2>1 DEF Depth
  <2> QED BY <1>0, <2>1, <2>2, UnmaskedKept
<1> QED BY <1>1, <1>2, <1>3, <1>4, <1>5, <1>6, <1>7, <1>8 DEF Next, HandlerStep

\* For any lines and drivers: whatever moment of a request, an acknowledge cycle
\* or a mask half written it is, no handler runs for a line that g_PicMask, or its
\* bit for the cascade, masks, once start() has made its port writes.
THEOREM MaskedNeverServed == Spec => []OnlyUnmaskedServed
<1>1. Init => Unmasked
  BY DEF Init, Depth, Unmasked, OnlyUnmaskedServed
<1>2. IInv /\ IInv' /\ Unmasked /\ [Next]_vars => Unmasked'
  BY UnmaskedStep
<1>3. Unmasked => OnlyUnmaskedServed
  BY DEF Unmasked
<1> QED BY <1>1, <1>2, <1>3, InterruptInvariant, PTL DEF Spec
=============================================================================
