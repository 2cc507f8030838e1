----------------------------- MODULE MCInterrupts -----------------------------
(***************************************************************************)
(* A device at line 0 of PIC1 and one at line 10, behind PIC2; a driver    *)
(* that masks and unmasks these and the cascade; page faults, an NMI and   *)
(* an NMI handler.                                                         *)
(***************************************************************************)
EXTENDS Interrupts

MCLines == {0, 10}
MCDriverLines == {0, 2, 10}
MCHookedLines == {0}
MCFaults == {14}
MCIsrHooks == {2}
=============================================================================
