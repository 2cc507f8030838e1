------------------------------- MODULE Interrupts -------------------------------
(***************************************************************************)
(* Interrupts in the kernel: the boot of hal.c up to sti (IDT, gates, PIC, *)
(* handlers), the entry stubs and isr_common of isr.asm on a stack of      *)
(* words, the dispatch of isr.c and irq.c, panic, and a kernel that        *)
(* registers handlers and masks and unmasks lines, on a processor that     *)
(* takes faults, NMIs and the requests of two 8259s whose input lines rise *)
(* and fall at any time.                                                   *)
(*                                                                         *)
(* The processor has one program per context: context 0 is start(), every  *)
(* interrupt taken adds one; only the last runs.                           *)
(***************************************************************************)
EXTENDS Pic

CONSTANTS
  Lines,       \* the lines devices are connected to
  DriverLines, \* what the kernel passes to Mask and Unmask
  HookedLines, \* lines it may register handlers for
  Faults,      \* exceptions its instructions may raise
  IsrHooks,    \* vectors it may register handlers for
  MAX_CONTEXTS,\* bound: interrupts nested in one another
  MAX_NMIS     \* bound: NMIs in a behaviour

Vectors == 0 .. 255
PIC_REMAP_OFFSET == 32
IrqVectors == PIC_REMAP_OFFSET .. PIC_REMAP_OFFSET + 15

NMI == 2
SegmentNotPresent == 11
SYSCALL == 128            \* 0x80, the gate i686_ISR_Initialize disables

\* Exceptions the processor pushes an error code for.
CpuErrorCodes == {8, 10, 11, 12, 13, 14, 17, 21, 29, 30}

ASSUME InterruptsAssumption ==
  /\ Lines \subseteq Irqs \ {CASCADE} /\ DriverLines \cup HookedLines \subseteq Irqs
  /\ Faults \subseteq (0 .. 28) \ {NMI}
  /\ IsrHooks \subseteq 0 .. 31
  /\ MAX_CONTEXTS \in Nat /\ MAX_NMIS \in Nat

NoLine == -1
FAULT_CODE == 2           \* the error code of the exceptions that have one

VARIABLES
  pc,          \* where start() is in HAL_Initialize
  idtLoaded,
  gates,       \* vectors whose gate is present
  isrHandlers, \* vectors g_ISRHandlers has an entry for
  irqHandlers, \* lines g_IRQHandlers has an entry for
  picMask,     \* g_PicMask
  fitted,      \* is there an 8259?
  pics, level, \* the chips, and the level of their input lines
  mode,        \* the processor: "run", "inta", "cascade", "halt" or "reset"
  iflag,
  stack,       \* words pushed, the last one on top
  contexts,    \* one record per interrupt taken and not returned from
  writes,      \* per context, the port writes it has still to make
  nmis

kernelVars == <<pc, idtLoaded, gates, isrHandlers, irqHandlers, picMask>>
picVars == <<fitted, pics, level>>
cpuVars == <<mode, iflag, stack, contexts, writes, nmis>>
vars == <<kernelVars, picVars, cpuVars>>

Word(field, value) == [field |-> field, value |-> value]

\* What the interrupt being served was, kept beside the stack for the
\* properties (line: the IRQ acknowledged, real: not a spurious one).
Context(vector, error, line, real) ==
  [at |-> "isr", vector |-> vector, error |-> error, line |-> line,
   real |-> real, iflag |-> iflag]

Init ==
  /\ pc = "idt" /\ idtLoaded = FALSE /\ gates = {}
  /\ isrHandlers = {} /\ irqHandlers = {} /\ picMask = ALL_MASKED
  /\ fitted \in BOOLEAN
  /\ pics = <<BiosChip(8), BiosChip(112)>>
  /\ level = [l \in Lines |-> FALSE]
  /\ mode = "run" /\ iflag = FALSE
  /\ stack = <<Word("local", 0), Word("local", 0)>>
  /\ contexts = <<>> /\ writes = <<(<<>>)>> /\ nmis = 0

Depth == Len(contexts)
Top == contexts[Depth]
Pending == writes[Depth + 1]         \* port writes of the running context
Running == mode = "run" /\ Pending = <<>>
InStart == Running /\ Depth = 0

-----------------------------------------------------------------------------
(* The lines of the devices (external).                                    *)

Raise(l) ==
  /\ fitted /\ ~level[l]
  /\ level' = [level EXCEPT ![l] = TRUE]
  /\ pics' = [pics EXCEPT ![ChipOf(l)].irr = @ \cup {InputOf(l)}]
  /\ UNCHANGED <<kernelVars, fitted, cpuVars>>

\* A request not acknowledged by now is withdrawn.
Drop(l) ==
  /\ level[l]
  /\ level' = [level EXCEPT ![l] = FALSE]
  /\ pics' = [pics EXCEPT ![ChipOf(l)].irr = @ \ {InputOf(l)}]
  /\ UNCHANGED <<kernelVars, fitted, cpuVars>>

-----------------------------------------------------------------------------
(* Port writes, one at a time, by whoever runs.                            *)

PortWrite ==
  /\ mode = "run" /\ Pending # <<>>
  /\ LET w == Head(Pending) IN
     pics' = IF fitted THEN [pics EXCEPT ![w.chip] = Written(@, w)] ELSE pics
  /\ writes' = [writes EXCEPT ![Depth + 1] = Tail(@)]
  /\ UNCHANGED <<kernelVars, fitted, level, mode, iflag, stack, contexts, nmis>>

Write(list) == writes' = [writes EXCEPT ![Depth + 1] = list]

-----------------------------------------------------------------------------
(* HAL_Initialize after the GDT.                                           *)

i686_IDT_Initialize ==
  /\ InStart /\ pc = "idt" /\ pc' = "isr"
  /\ idtLoaded' = TRUE
  /\ UNCHANGED <<gates, isrHandlers, irqHandlers, picMask, picVars, cpuVars>>

\* Every vector gets an interrupt gate to its stub.
i686_ISR_InitializeGates == Vectors

\* All gates set and enabled, then 0x80 disabled.
i686_ISR_Initialize ==
  /\ InStart /\ pc = "isr" /\ pc' = "irq"
  /\ gates' = i686_ISR_InitializeGates \ {SYSCALL}
  /\ UNCHANGED <<idtLoaded, isrHandlers, irqHandlers, picMask, picVars, cpuVars>>

\* i8259_Disable, i8259_SetMask(0x1337).
i8259_Probe ==
  /\ InStart /\ pc = "irq" /\ pc' = "probe"
  /\ picMask' = PROBE_MASK
  /\ Write(i8259_SetMask(ALL_MASKED) \o i8259_SetMask(PROBE_MASK))
  /\ UNCHANGED <<idtLoaded, gates, isrHandlers, irqHandlers, picVars,
                 mode, iflag, stack, contexts, nmis>>

\* No PIC: the kernel goes on with interrupts disabled.
NoPicFound ==
  /\ InStart /\ pc = "probe" /\ ~fitted
  /\ pc' = "running"
  /\ UNCHANGED <<idtLoaded, gates, isrHandlers, irqHandlers, picMask, picVars, cpuVars>>

ConfigurePic ==
  /\ InStart /\ pc = "probe" /\ fitted /\ i8259_GetMask(pics) = PROBE_MASK
  /\ pc' = "configure"
  /\ picMask' = ALL_MASKED
  /\ Write(i8259_Configure(PIC_REMAP_OFFSET, PIC_REMAP_OFFSET + 8))
  /\ UNCHANGED <<idtLoaded, gates, isrHandlers, irqHandlers, picVars,
                 mode, iflag, stack, contexts, nmis>>

\* i686_IRQ_Handler registered for the 16 lines, one after the other.
RegisterIrqHandlers ==
  /\ InStart /\ pc = "configure" /\ pc' = "sti"
  /\ isrHandlers' = isrHandlers \cup IrqVectors
  /\ gates' = gates \cup IrqVectors
  /\ UNCHANGED <<idtLoaded, irqHandlers, picMask, picVars, cpuVars>>

\* Deviation: interrupts enabled before the chips are configured.
EnableTooEarly ==
  /\ InStart /\ pc \in {"probe", "sti"}
  /\ pc' = IF pc = "sti" THEN "running" ELSE pc
  /\ iflag' = TRUE
  /\ UNCHANGED <<idtLoaded, gates, isrHandlers, irqHandlers, picMask, picVars,
                 mode, stack, contexts, writes, nmis>>

i686_EnableInterrupts ==
  /\ InStart /\ pc = "sti" /\ pc' = "running"
  /\ iflag' = TRUE
  /\ UNCHANGED <<idtLoaded, gates, isrHandlers, irqHandlers, picMask, picVars,
                 mode, stack, contexts, writes, nmis>>

Boot ==
  \/ i686_IDT_Initialize \/ i686_ISR_Initialize
  \/ i8259_Probe \/ NoPicFound \/ ConfigurePic
  \/ RegisterIrqHandlers \/ i686_EnableInterrupts

-----------------------------------------------------------------------------
(* What a driver in the kernel calls once it runs.                         *)

InDriver == InStart /\ pc = "running"

RegisterIrqHandler(irq) ==
  /\ InDriver
  /\ irqHandlers' = irqHandlers \cup {irq}
  /\ UNCHANGED <<pc, idtLoaded, gates, isrHandlers, picMask, picVars, cpuVars>>

RegisterIsrHandler(v) ==
  /\ InDriver
  /\ isrHandlers' = isrHandlers \cup {v}
  /\ gates' = gates \cup {v}
  /\ UNCHANGED <<pc, idtLoaded, irqHandlers, picMask, picVars, cpuVars>>

SetMask(mask) ==
  /\ InDriver /\ fitted
  /\ picMask' = mask /\ Write(i8259_SetMask(mask))
  /\ UNCHANGED <<pc, idtLoaded, gates, isrHandlers, irqHandlers, picVars,
                 mode, iflag, stack, contexts, nmis>>

Driver ==
  \/ \E irq \in HookedLines : RegisterIrqHandler(irq)
  \/ \E irq \in DriverLines :
       \/ SetMask(i8259_Mask(picMask, irq))
       \/ SetMask(i8259_Unmask(picMask, irq))
  \/ \E v \in IsrHooks : RegisterIsrHandler(v)

-----------------------------------------------------------------------------
(* Entry and return: the processor, the stubs, isr_common.                 *)

\* Deviation: a page fault's error code taken for a missing one.
ErrorCodesWithoutPageFault == {8, 10, 11, 12, 13, 17, 21}

\* ISR_ERRORCODE stubs; the others push a dummy 0.
ISRS_WITH_ERROR_CODE == {8, 10, 11, 12, 13, 14, 17, 21}

\* The words pushed before i686_ISR_Handler is called, bottom first: those of
\* the processor (no ss and esp, the privilege does not change; an error code of
\* exceptions, not of lines), of the stub, of isr_common.
Pushed(v, error, line) ==
  <<Word("eflags", IF iflag THEN 1 ELSE 0), Word("cs", 8), Word("eip", Depth)>>
  \o (IF v \in CpuErrorCodes /\ line = NoLine THEN <<Word("error", error)>> ELSE <<>>)
  \o (IF v \in ISRS_WITH_ERROR_CODE THEN <<>> ELSE <<Word("error", 0)>>)
  \o <<Word("interrupt", v), Word("pusha", Depth), Word("ds", 16)>>

\* Registers: distance of the fields from the pointer passed to the handler.
Offset == [interrupt |-> 2, error |-> 3, eip |-> 4, cs |-> 5, eflags |-> 6]

Regs(field) == stack[Len(stack) - Offset[field]].value

Enter(v, error, line, real) ==
  /\ stack' = stack \o Pushed(v, error, line)
  /\ contexts' = Append(contexts, Context(v, error, line, real))
  /\ writes' = Append(writes, <<>>)
  /\ mode' = "run" /\ iflag' = FALSE

TripleFault == mode' = "reset" /\ UNCHANGED <<iflag, stack, contexts, writes>>

\* Vector v through the IDT.  An absent gate raises Segment Not Present, whose
\* error code names the gate; without a gate for that one, the processor
\* gives up, and so it does before the IDT is loaded.
Deliver(v, error, line, real) ==
  IF ~idtLoaded THEN TripleFault
  ELSE IF v \in gates THEN Enter(v, error, line, real)
  ELSE IF SegmentNotPresent \in gates THEN Enter(SegmentNotPresent, 8 * v + 2, NoLine, FALSE)
  ELSE TripleFault

\* pop ds, popa, add esp 8, iret: the words are taken for what they should be.
Return ==
  /\ Running /\ Depth > 0 /\ Top.at = "ret"
  /\ contexts' = SubSeq(contexts, 1, Regs("eip"))
  /\ writes' = SubSeq(writes, 1, Regs("eip") + 1)
  /\ iflag' = (Regs("eflags") = 1)
  /\ stack' = SubSeq(stack, 1, Len(stack) - 7)
  /\ UNCHANGED <<kernelVars, picVars, mode, nmis>>

-----------------------------------------------------------------------------
(* What makes the processor leave a program.                               *)

Nested == Depth < MAX_CONTEXTS

\* Between two instructions, with a request presented.
Recognise ==
  /\ mode = "run" /\ iflag /\ fitted /\ Nested
  /\ MasterRequests(pics) # {}
  /\ mode' = "inta"
  /\ UNCHANGED <<kernelVars, picVars, iflag, stack, contexts, writes, nmis>>

\* First acknowledge cycle.  When no request is left, PIC1 answers as line 7.
AcknowledgeMaster ==
  /\ mode = "inta"
  /\ \/ /\ MasterRequests(pics) = {}
        /\ Deliver(pics[1].offset + 7, 0, 7, FALSE)
        /\ UNCHANGED pics
     \/ \E i \in Highest(MasterRequests(pics)) :
          /\ pics' = [pics EXCEPT ![1] = Acknowledged(@, i)]
          /\ IF i = CASCADE THEN mode' = "cascade" /\ UNCHANGED <<iflag, stack, contexts, writes>>
                            ELSE Deliver(pics[1].offset + i, 0, i, TRUE)
  /\ UNCHANGED <<kernelVars, fitted, level, nmis>>

\* Second cycle, to the slave: likewise as line 15.
AcknowledgeSlave ==
  /\ mode = "cascade"
  /\ \/ /\ SlaveRequests(pics) = {}
        /\ Deliver(pics[2].offset + 7, 0, 15, FALSE)
        /\ UNCHANGED pics
     \/ \E i \in Highest(SlaveRequests(pics)) :
          /\ pics' = [pics EXCEPT ![2] = Acknowledged(@, i)]
          /\ Deliver(pics[2].offset + i, 0, i + 8, TRUE)
  /\ UNCHANGED <<kernelVars, fitted, level, nmis>>

\* Any instruction may fault, and start() may call crash_me (int 0x80).
Fault(v) ==
  /\ mode = "run" /\ Nested
  /\ Deliver(v, IF v \in CpuErrorCodes THEN FAULT_CODE ELSE 0, NoLine, FALSE)
  /\ UNCHANGED <<kernelVars, picVars, nmis>>

crash_me ==
  /\ InDriver /\ Nested
  /\ Deliver(SYSCALL, 0, NoLine, FALSE)
  /\ UNCHANGED <<kernelVars, picVars, nmis>>

\* An NMI ends hlt, and keeps others out until iret.
NonMaskable ==
  /\ mode \in {"run", "halt"} /\ Nested /\ nmis < MAX_NMIS
  /\ \A k \in 1 .. Depth : contexts[k].vector # NMI
  /\ Deliver(NMI, 0, NoLine, FALSE)
  /\ nmis' = nmis + 1
  /\ UNCHANGED <<kernelVars, picVars>>

-----------------------------------------------------------------------------
(* i686_ISR_Handler, i686_IRQ_Handler, i686_Panic.                         *)

GoTo(place) == contexts' = [contexts EXCEPT ![Depth].at = place]

InHandler(place) == Running /\ Depth > 0 /\ Top.at = place

\* Deviation: an unhandled exception reported, but not the end.
HandlerReports ==
  /\ InHandler("isr")
  /\ LET n == Regs("interrupt") IN
     GoTo(IF n \in isrHandlers /\ n \in IrqVectors THEN "irq" ELSE "ret")
  /\ UNCHANGED <<kernelVars, picVars, mode, iflag, stack, writes, nmis>>

\* A registered handler other than i686_IRQ_Handler just returns.
i686_ISR_Handler ==
  /\ InHandler("isr")
  /\ LET n == Regs("interrupt") IN
     GoTo(IF n \in isrHandlers THEN (IF n \in IrqVectors THEN "irq" ELSE "ret")
          ELSE IF n >= 32 THEN "ret" ELSE "panic")
  /\ UNCHANGED <<kernelVars, picVars, mode, iflag, stack, writes, nmis>>

\* Deviation: a line nobody registered a handler for is not acknowledged.
EndOnlyWhenHandled ==
  /\ InHandler("irq")
  /\ GoTo("ret")
  /\ LET irq == Regs("interrupt") - PIC_REMAP_OFFSET IN
     Write(IF irq \in irqHandlers THEN i8259_SendEndOfInterrupt(irq) ELSE <<>>)
  /\ UNCHANGED <<kernelVars, picVars, mode, iflag, stack, nmis>>

\* The handler of the line runs, or "Unhandled IRQ" is printed; then the end
\* of the interrupt is sent.
i686_IRQ_Handler ==
  /\ InHandler("irq")
  /\ GoTo("ret")
  /\ Write(i8259_SendEndOfInterrupt(Regs("interrupt") - PIC_REMAP_OFFSET))
  /\ UNCHANGED <<kernelVars, picVars, mode, iflag, stack, nmis>>

\* cli, hlt.
i686_Panic ==
  /\ InHandler("panic")
  /\ GoTo("hlt") /\ mode' = "halt" /\ iflag' = FALSE
  /\ UNCHANGED <<kernelVars, picVars, stack, writes, nmis>>

\* Behind hlt comes i686_EnableInterrupts.
PanicFallsThrough ==
  /\ InHandler("hlt")
  /\ GoTo("ret") /\ iflag' = TRUE
  /\ UNCHANGED <<kernelVars, picVars, mode, stack, writes, nmis>>

HandlerStep ==
  \/ i686_ISR_Handler \/ i686_IRQ_Handler
  \/ i686_Panic \/ PanicFallsThrough \/ Return

-----------------------------------------------------------------------------

Devices == \E l \in Lines : Raise(l) \/ Drop(l)

Acknowledge == Recognise \/ AcknowledgeMaster \/ AcknowledgeSlave

Exceptions == (\E v \in Faults : Fault(v)) \/ crash_me \/ NonMaskable

\* The for (;;) of start(), hlt, or a machine being reset.
Idle == (mode \in {"halt", "reset"} \/ InDriver) /\ UNCHANGED vars

Next ==
  \/ Boot \/ Driver \/ PortWrite \/ HandlerStep
  \/ Devices \/ Acknowledge \/ Exceptions \/ Idle

Spec == Init /\ [][Next]_vars

\* The processor executes the boot and the handlers, and takes interrupts.
FairSpec ==
  /\ Spec
  /\ WF_vars(Boot) /\ WF_vars(PortWrite) /\ WF_vars(HandlerStep) /\ WF_vars(Acknowledge)

-----------------------------------------------------------------------------

Places == {"isr", "irq", "ret", "panic", "hlt"}

ContextRecord ==
  [at : Places, vector : Vectors, error : Nat, line : Irqs \cup {NoLine},
   real : BOOLEAN, iflag : BOOLEAN]

WriteRecord == [chip : Chips, port : {"command", "data"}, byte : Nat]

KernelVarsOK ==
  /\ pc \in {"idt", "isr", "irq", "probe", "configure", "sti", "running"}
  /\ idtLoaded \in BOOLEAN /\ gates \subseteq Vectors
  /\ isrHandlers \subseteq Vectors /\ irqHandlers \subseteq Irqs
  /\ picMask \in 0 .. ALL_MASKED

PicVarsOK ==
  fitted \in BOOLEAN /\ pics \in [Chips -> Chip] /\ level \in [Lines -> BOOLEAN]

CpuVarsOK ==
  /\ mode \in {"run", "inta", "cascade", "halt", "reset"} /\ iflag \in BOOLEAN
  /\ contexts \in Seq(ContextRecord) /\ writes \in Seq(Seq(WriteRecord))
  /\ nmis \in 0 .. MAX_NMIS

\* Every variable has its type.
KernelTypeOK == KernelVarsOK /\ PicVarsOK /\ CpuVarsOK

\* Interrupts are enabled, in start() or in a handler, only when all the boot
\* set up for them is there: the table, its gates, the handlers, and chips
\* that answer with vectors behind the exceptions.  (With an NMI handler a
\* panic may fall through to sti without any of it.)
EnabledWhenReady ==
  (iflag \/ mode \in {"inta", "cascade"}) /\ NMI \notin isrHandlers =>
    /\ idtLoaded /\ Vectors \ {SYSCALL} \subseteq gates
    /\ IrqVectors \subseteq isrHandlers
    /\ pics[1].expects = "mask" /\ pics[1].offset = PIC_REMAP_OFFSET
    /\ pics[2].expects = "mask" /\ pics[2].offset = PIC_REMAP_OFFSET + 8

\* What the processor finds on the stack is what was interrupted: the words of
\* context k say its vector and error code, and that iret goes on with context
\* k - 1 and its interrupt flag.  So no stub pushes a word too many or too few.
StackMatchesContexts ==
  /\ Len(stack) = 2 + 7 * Depth
  /\ Len(writes) = Depth + 1
  /\ \A k \in 1 .. Depth :
       LET word(i) == stack[2 + 7 * (k - 1) + i].value IN
       /\ word(1) = (IF contexts[k].iflag THEN 1 ELSE 0)
       /\ word(3) = k - 1
       /\ word(4) = contexts[k].error
       /\ word(5) = contexts[k].vector

\* The interrupts whose end has still to be sent to a chip.
Unfinished(chip) ==
  {k \in 1 .. Depth :
     /\ contexts[k].line # NoLine
     /\ \/ contexts[k].at \in {"isr", "irq"}
        \/ \E i \in 1 .. Len(writes[k + 1]) : writes[k + 1][i].chip = chip}

\* The inputs of a chip that should be in service.
Owed(chip) ==
  {InputOf(contexts[k].line) :
     k \in {j \in Unfinished(chip) : ChipOf(contexts[j].line) = chip /\ contexts[j].real}}
  \cup (IF chip = 1 /\ (mode = "cascade" \/ \E k \in Unfinished(1) : contexts[k].line >= 8)
        THEN {CASCADE} ELSE {})

\* An input is in service exactly while its handler has not sent the end of
\* the interrupt: a spurious request of either chip, a nested fault or NMI, a
\* line that falls between the acknowledge cycles leave none behind and end
\* none too early.  (While no NMI handler can bring a panic back to life.)
InServiceWhileHandled ==
  NMI \notin isrHandlers => \A chip \in Chips : pics[chip].isr = Owed(chip)

\* The vector tells the handler the line that was acknowledged.
VectorIsLine ==
  \A k \in 1 .. Depth :
    contexts[k].line # NoLine => contexts[k].vector = PIC_REMAP_OFFSET + contexts[k].line

\* g_PicMask is what the chips have been told, but for writes under way.
MaskIsShadow ==
  pc = "running" /\ fitted /\ writes[1] = <<>> => i8259_GetMask(pics) = picMask

\* Types, and what ties the parts of the state together.
KernelInv == KernelTypeOK /\ VectorIsLine /\ MaskIsShadow

\* No line is served that a driver has masked: outside SetMask, g_PicMask
\* speaks for the chips, also for the master's cascade input.
OnlyUnmaskedServed ==
  \A k \in 1 .. Depth :
    contexts[k].real /\ writes[1] = <<>> =>
      /\ ~Bit(picMask, contexts[k].line)
      /\ contexts[k].line >= 8 => ~Bit(picMask, CASCADE)

Panicked == \E k \in 1 .. Depth : contexts[k].at \in {"panic", "hlt"}

Unhandled(k) ==
  /\ contexts[k].at = "ret"
  /\ contexts[k].vector < 32 /\ contexts[k].vector \notin isrHandlers

\* After an unhandled exception the interrupted program never runs again; a
\* panic is the end, as long as no NMI handler is registered whose return
\* takes the processor past hlt.
PanicIsFinal ==
  [][NMI \notin isrHandlers =>
       /\ Panicked => Panicked'
       /\ \A k \in 1 .. Depth : ~Unhandled(k)]_vars

Waiting(l) ==
  /\ InDriver /\ iflag
  /\ InputOf(l) \in pics[ChipOf(l)].irr /\ ~Bit(picMask, l)

\* A request of a line the drivers unmasked, and its cascade with it, does not
\* wait while the processor idles: no stale in-service bit keeps it out.
RequestsServed ==
  \A l \in Lines :
    (Waiting(l) /\ (l >= 8 => ~Bit(picMask, CASCADE)))
      ~> ~(Waiting(l) /\ (l >= 8 => ~Bit(picMask, CASCADE)))

\* "mask all interrupts until they are enabled by the device driver": unmasking
\* its line is all a driver has to do for its requests to be served.
UnmaskingIsEnough == \A l \in Lines : Waiting(l) ~> ~Waiting(l)
=============================================================================
