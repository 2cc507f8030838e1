-------------------------- MODULE KeyboardController --------------------------
(***************************************************************************)
(* The 8042 keyboard controller as stage 2's EnableA20 uses it (external): *)
(* an input buffer the processor writes and the controller empties when it *)
(* gets to it, an output buffer for scancodes and answers, and the control *)
(* output port, of which two bits matter: the processor's reset line (bit  *)
(* 0, active low) and the A20 gate (bit 1).                                *)
(***************************************************************************)
EXTENDS Integers

CONSTANT NONE    \* the empty output buffer

Commands == {"DisableKeyboard", "EnableKeyboard",
             "ReadCtrlOutputPort", "WriteCtrlOutputPort"}

\* A byte, by its two bits and where it comes from: a scancode or the port.
Byte == [source : {"key", "port"}, bit0 : BOOLEAN, a20 : BOOLEAN]

ASSUME NoneAssumption == NONE \notin Byte

VARIABLES
  input,     \* input buffer: "none", a command or "data"
  data,      \* the data byte written last
  output,    \* output buffer: NONE or a byte
  keyboard,  \* does the controller take scancodes?
  port,      \* the control output port
  expecting  \* is the next data byte for the port?

kbcVars == <<input, data, output, keyboard, port, expecting>>

KbcInit ==
  /\ input = "none" /\ output = NONE /\ keyboard = TRUE /\ expecting = FALSE
  /\ port \in {[source |-> "port", bit0 |-> TRUE, a20 |-> a] : a \in BOOLEAN}
  /\ data = port

\* The controller takes what the processor wrote last.
Execute ==
  /\ input # "none"
  /\ input' = "none"
  /\ keyboard' = CASE input = "DisableKeyboard" -> FALSE
                   [] input = "EnableKeyboard" -> TRUE
                   [] OTHER -> keyboard
  /\ output' = IF input = "ReadCtrlOutputPort" THEN port ELSE output
  /\ port' = IF input = "data" /\ expecting
             THEN [data EXCEPT !.source = "port"] ELSE port
  /\ expecting' = (input = "WriteCtrlOutputPort")
  /\ UNCHANGED data

\* A key goes down or up.
Key ==
  /\ keyboard /\ output = NONE
  /\ output' \in [source : {"key"}, bit0 : BOOLEAN, a20 : BOOLEAN]
  /\ UNCHANGED <<input, data, keyboard, port, expecting>>

\* The processor writes a command to port 64h or a byte to port 60h; what was
\* in the buffer is lost.
Write(what, byte) ==
  /\ input' = what /\ data' = byte
  /\ UNCHANGED <<output, keyboard, port, expecting>>

\* The processor reads port 60h.
Read ==
  /\ output' = NONE
  /\ UNCHANGED <<input, data, keyboard, port, expecting>>

KbcTypeOK ==
  /\ input \in Commands \cup {"none", "data"} /\ data \in Byte
  /\ output \in {NONE} \cup Byte
  /\ keyboard \in BOOLEAN /\ expecting \in BOOLEAN
  /\ port \in Byte
=============================================================================
