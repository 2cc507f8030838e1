---------------------------------- MODULE Pic ----------------------------------
(***************************************************************************)
(* The two cascaded 8259 interrupt controllers and the kernel's driver for *)
(* them (kernel/arch/i686/i8259.c).  The driver's functions are the        *)
(* sequences of port writes they make; what a write does to a chip, which  *)
(* request a chip presents and what an acknowledge cycle changes is the    *)
(* hardware, as the driver relies on it.                                   *)
(***************************************************************************)
EXTENDS Integers, Sequences

Chips == {1, 2}            \* PIC1 and PIC2, its slave at line 2
Inputs == 0 .. 7
CASCADE == 2
Irqs == 0 .. 15

Bit(byte, i) == (byte \div 2^i) % 2 = 1

ChipOf(irq) == IF irq >= 8 THEN 2 ELSE 1
InputOf(irq) == irq % 8

-----------------------------------------------------------------------------
(* The chips.                                                              *)

Chip ==
  [expects : {"icw2", "icw3", "icw4", "mask"},  \* what the data port takes next
   offset : Nat, imr : Nat, irr : SUBSET Inputs, isr : SUBSET Inputs]

\* As the BIOS leaves them: remapped to offset, nothing masked.
BiosChip(offset) ==
  [expects |-> "mask", offset |-> offset, imr |-> 0, irr |-> {}, isr |-> {}]

Highest(set) == {i \in set : \A j \in set : i <= j}

ICW1 == 17    \* PIC_ICW1_ICW4 | PIC_ICW1_INITIALIZE
EOI == 32     \* PIC_CMD_END_OF_INTERRUPT

\* A byte on the command port: ICW1 starts the initialisation over, a
\* non-specific end of interrupt clears the highest input in service.
Commanded(chip, byte) ==
  IF byte = ICW1 THEN [chip EXCEPT !.expects = "icw2", !.imr = 0, !.irr = {}, !.isr = {}]
  ELSE [chip EXCEPT !.isr = @ \ Highest(@)]

\* A byte on the data port.
Loaded(chip, byte) ==
  CASE chip.expects = "icw2" -> [chip EXCEPT !.expects = "icw3", !.offset = byte - (byte % 8)]
    [] chip.expects = "icw3" -> [chip EXCEPT !.expects = "icw4"]
    [] chip.expects = "icw4" -> [chip EXCEPT !.expects = "mask"]
    [] OTHER -> [chip EXCEPT !.imr = byte]

Written(chip, w) ==
  IF w.port = "command" THEN Commanded(chip, w.byte) ELSE Loaded(chip, w.byte)

\* The inputs a chip would have served now: requested, not masked, and of a
\* higher priority than all in service.
Presented(chip, requests) ==
  IF chip.expects # "mask" THEN {}
  ELSE {i \in requests : ~Bit(chip.imr, i) /\ \A j \in chip.isr : i < j}

SlaveRequests(pics) == Presented(pics[2], pics[2].irr)

MasterRequests(pics) ==
  Presented(pics[1], pics[1].irr \cup (IF SlaveRequests(pics) # {} THEN {CASCADE} ELSE {}))

\* Acknowledged: input i goes from requested to in service.
Acknowledged(chip, i) == [chip EXCEPT !.irr = @ \ {i}, !.isr = @ \cup {i}]

-----------------------------------------------------------------------------
(* The driver, as sequences of port writes.                                *)

Command(chip, byte) == [chip |-> chip, port |-> "command", byte |-> byte]
Data(chip, byte) == [chip |-> chip, port |-> "data", byte |-> byte]

ALL_MASKED == 65535    \* 0xFFFF
PROBE_MASK == 4919     \* 0x1337

i8259_SetMask(mask) == <<Data(1, mask % 256), Data(2, mask \div 256)>>

i8259_GetMask(pics) == pics[1].imr + 256 * pics[2].imr

\* Deviation: the mask not set again after the initialisation words.
ConfigureUnmasked(offsetPic1, offsetPic2) ==
  i8259_SetMask(ALL_MASKED) \o
  <<Command(1, ICW1), Command(2, ICW1),
    Data(1, offsetPic1), Data(2, offsetPic2),
    Data(1, 4), Data(2, 2),
    Data(1, 1), Data(2, 1)>>

\* Deviation: the offset of the second chip not used.
ConfigureOneOffset(offsetPic1, offsetPic2) ==
  i8259_SetMask(ALL_MASKED) \o
  <<Command(1, ICW1), Command(2, ICW1),
    Data(1, offsetPic1), Data(2, offsetPic1),
    Data(1, 4), Data(2, 2),
    Data(1, 1), Data(2, 1)>> \o
  i8259_SetMask(ALL_MASKED)

\* ICW1 to ICW4 on both chips, everything masked before and after.
i8259_Configure(offsetPic1, offsetPic2) ==
  i8259_SetMask(ALL_MASKED) \o
  <<Command(1, ICW1), Command(2, ICW1),
    Data(1, offsetPic1), Data(2, offsetPic2),
    Data(1, 4), Data(2, 2),
    Data(1, 1), Data(2, 1)>> \o
  i8259_SetMask(ALL_MASKED)

\* Deviation: the master not told of a slave's interrupt.
SendEOIToOne(irq) == <<Command(ChipOf(irq), EOI)>>

i8259_SendEndOfInterrupt(irq) ==
  (IF irq >= 8 THEN <<Command(2, EOI)>> ELSE <<>>) \o <<Command(1, EOI)>>

\* The new value of g_PicMask.
i8259_Mask(mask, irq) == IF Bit(mask, irq) THEN mask ELSE mask + 2^irq
i8259_Unmask(mask, irq) == IF Bit(mask, irq) THEN mask - 2^irq ELSE mask
=============================================================================
