--------------------------------- MODULE Boot ---------------------------------
(***************************************************************************)
(* From the boot sector to start(): stage 1 (Stage1) loads the second      *)
(* stage and jumps to its entry (stage2/entry.asm), which turns on the A20 *)
(* gate through the keyboard controller (KeyboardController), enters       *)
(* protected mode and calls start().                                       *)
(*                                                                         *)
(* Until entry's cli the BIOS serves the keyboard.  After it nobody does:  *)
(* a scancode that comes in stays in the output buffer.                    *)
(***************************************************************************)
EXTENDS Stage1, KeyboardController

VARIABLES
  at,      \* entry.asm: the next port access of EnableA20, or where it ended
  popped   \* the byte EnableA20 keeps on the stack

entryVars == <<at, popped>>
vars == <<stage1Vars, kbcVars, entryVars>>

Init == Stage1Init /\ KbcInit /\ at = "off" /\ popped = port

-----------------------------------------------------------------------------

\* The code at entry is there to be executed.
EntryLoaded == pc = "stage2" /\ Loaded(Len(image.stage2))

\* cli, with or without a scancode the BIOS has not fetched yet.
Entry ==
  /\ EntryLoaded /\ at = "off"
  /\ at' = "disable"
  /\ \/ UNCHANGED kbcVars
     \/ Key
  /\ UNCHANGED <<stage1Vars, popped>>

\* A20WaitInput: the input buffer is empty.
A20WaitInput == input = "none"

\* A20WaitOutput: there is something in the output buffer.
A20WaitOutput == output # NONE

\* Deviation: without waiting for the input buffer.
SendAtOnce(from, to, what, byte) ==
  /\ at = from
  /\ Write(what, byte)
  /\ at' = to
  /\ UNCHANGED <<stage1Vars, popped>>

\* Wait, then out.  Only the processor fills the input buffer, so nothing can
\* come between the two.
Send(from, to, what, byte) ==
  /\ at = from /\ A20WaitInput
  /\ Write(what, byte)
  /\ at' = to
  /\ UNCHANGED <<stage1Vars, popped>>

\* in al, 60h; push eax: whatever made the output buffer full.
ReadCtrlOutputPort ==
  /\ at = "read" /\ A20WaitOutput
  /\ popped' = output /\ Read
  /\ at' = "writeCommand"
  /\ UNCHANGED stage1Vars

EnableA20 ==
  \/ Send("disable", "readCommand", "DisableKeyboard", data)
  \/ Send("readCommand", "read", "ReadCtrlOutputPort", data)
  \/ ReadCtrlOutputPort
  \/ Send("writeCommand", "write", "WriteCtrlOutputPort", data)
  \/ Send("write", "enable", "data", [popped EXCEPT !.a20 = TRUE])
  \/ Send("enable", "wait", "EnableKeyboard", data)

\* The last wait, the descriptor table, protected mode, bss, call start.
CallStart ==
  /\ at = "wait" /\ A20WaitInput
  /\ at' = "start"
  /\ UNCHANGED <<stage1Vars, kbcVars, popped>>

EntryStep == Entry \/ EnableA20 \/ CallStart

\* The controller works on its own; bit 0 of the port cleared resets the
\* processor wherever it is.
Controller ==
  /\ Execute
  /\ at' = IF port'.bit0 THEN at ELSE "reset"
  /\ UNCHANGED <<stage1Vars, popped>>

Keystroke == at \notin {"off", "reset", "start"} /\ Key /\ UNCHANGED <<stage1Vars, entryVars>>

\* Stage 1, while the BIOS keeps the controller's buffers empty.
Stage1Step == Loading /\ UNCHANGED <<kbcVars, entryVars>>

\* int 16h after a message, or the reset line: from the start again.
Reboot ==
  /\ \/ WaitKeyAndReboot
     \/ at = "reset" /\ Restart
  /\ input' = "none" /\ output' = NONE /\ keyboard' = TRUE /\ expecting' = FALSE
  /\ port' = [port EXCEPT !.bit0 = TRUE] /\ data' = port'
  /\ at' = "off" /\ popped' = port'

\* The machine does what nobody wrote: memory at 0x500 is not the second
\* stage, or stage 1 has overwritten itself.
Astray == pc = "overwritten" \/ (pc = "stage2" /\ ~EntryLoaded)

Stopped == (Astray \/ at = "start") /\ UNCHANGED vars

Next == Stage1Step \/ EntryStep \/ Controller \/ Keystroke \/ Reboot \/ Stopped

Spec == Init /\ [][Next]_vars

\* The processor goes on and the controller takes what is written to it; keys
\* and reboots come or do not.
FairSpec ==
  Spec /\ WF_vars(Stage1Step) /\ WF_vars(EntryStep) /\ WF_vars(Controller)

-----------------------------------------------------------------------------
(* What makes the way to start() correct.                                  *)

Handshake ==
  {"disable", "readCommand", "read", "writeCommand", "write", "enable", "wait"}

TypeOK ==
  /\ Stage1TypeOK /\ KbcTypeOK
  /\ at \in Handshake \cup {"off", "start", "reset"} /\ popped \in Byte

\* Processor and controller agree on how far the handshake is: which command
\* may still be in the input buffer, what is already done.
InStep ==
  /\ at # "off" => EntryLoaded
  /\ at \in {"off", "disable", "start"} => input = "none"
  /\ at = "readCommand" => input \in {"none", "DisableKeyboard"}
  /\ at = "read" =>
       /\ input \in {"none", "ReadCtrlOutputPort"}
       /\ input = "none" => output # NONE
  /\ at = "writeCommand" => input \in {"none", "ReadCtrlOutputPort"}
  /\ at = "write" =>
       input = "WriteCtrlOutputPort" \/ (input = "none" /\ expecting)
  /\ at = "enable" => \/ input = "data" /\ expecting /\ data.a20
                      \/ input = "none" /\ port.a20
  /\ at = "wait" => port.a20 /\ (input = "EnableKeyboard" \/ (input = "none" /\ keyboard))

\* A byte that came from the port keeps the processor running; only one from
\* a key, written back, may clear the reset line.
PortBytes ==
  /\ port.source = "port" /\ (port.bit0 \/ at = "reset")
  /\ output # NONE /\ output.source = "port" => output.bit0 \/ at = "reset"
  /\ at \in {"writeCommand", "write", "enable"} /\ popped.source = "port" => popped.bit0
  /\ at = "enable" /\ input = "data" => data.bit0 = popped.bit0

\* The inductive invariant of the way from the boot sector to start().
BootInv == TypeOK /\ Progress /\ InStep /\ PortBytes

\* start() is entered with the A20 gate open, the keyboard on again and the
\* controller's input buffer empty, for every pace of the controller and every
\* keystroke; the processor is reset on the way only if a scancode was in the
\* output buffer where entry.asm expects the port ("read control output port",
\* entry.asm:69).
EntersReady ==
  /\ at = "start" => port.a20 /\ keyboard /\ input = "none"
  /\ at = "reset" => popped.source = "key"

\* Every attempt to boot comes to an end: start(), the message of a read that
\* failed, or one of the ends stage 1 and entry.asm do not exclude.
BootDecides == (pc = "probe") ~> (pc = "error" \/ Astray \/ at \in {"start", "reset"})
=============================================================================
