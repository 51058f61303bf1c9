---------------------------- MODULE QuadReadFlash ----------------------------
(***************************************************************************)
(* What a bus master may rely on when it reads the flash of N25QX.hpp: all *)
(* is told by the number of rising edges since the one that selected it,   *)
(* and by what was on dq at the first fourteen of them.                    *)
(***************************************************************************)
EXTENDS Integers, Sequences

CONSTANTS Nibble, ReadCommand, dummy_cycles

VARIABLES
  cs_n, dq, \* the bus
  memory,   \* the nibbles that are configured; the others are 0
  heard,    \* what was on dq while the command and the address were sent
  edges,    \* rising edges since the flash was selected
  out       \* the nibble it answered last

vars == <<cs_n, dq, memory, heard, edges, out>>

NibbleAt(i) == IF i \in DOMAIN memory THEN memory[i] ELSE 0

\* Eight bits and then six nibbles, the first of each worth most; of the bits only
\* the line that carries them counts.
Bit(n) == heard[n] % 2
Command ==
  128 * Bit(1) + 64 * Bit(2) + 32 * Bit(3) + 16 * Bit(4)
  + 8 * Bit(5) + 4 * Bit(6) + 2 * Bit(7) + Bit(8)
Address ==
  16^5 * heard[9] + 16^4 * heard[10] + 16^3 * heard[11]
  + 16^2 * heard[12] + 16 * heard[13] + heard[14]
Reads == edges < 8 \/ Command = ReadCommand

\* One cycle less than dummy_cycles, but two at least.
FirstAnswer == 14 + (IF dummy_cycles > 3 THEN dummy_cycles - 1 ELSE 2)

Init ==
  /\ cs_n = 1 /\ dq = 0 /\ memory = <<>> /\ heard = <<>> /\ edges = 0 /\ out = 0

\* The master and the configuration do as they please.
Environment ==
  /\ \/ cs_n' \in {0, 1} /\ dq' \in Nibble \cup {dq} /\ UNCHANGED memory
     \/ memory' # memory /\ UNCHANGED <<cs_n, dq>>
  /\ UNCHANGED <<heard, edges, out>>

\* After the selection cs_n is not looked at until the answer; a command other
\* than ReadCommand is the last thing the flash hears.
Hear ==
  /\ edges < 14 /\ Reads
  /\ edges = 0 => cs_n = 0
  /\ heard' = Append(heard, dq) /\ edges' = edges + 1
  /\ UNCHANGED <<cs_n, dq, memory, out>>

Prepare ==
  /\ edges \in 14 .. FirstAnswer - 1
  /\ dq' = 0 /\ edges' = edges + 1
  /\ out' = IF edges' = FirstAnswer THEN 0 ELSE out
  /\ UNCHANGED <<cs_n, memory, heard>>

Answer ==
  /\ edges >= FirstAnswer /\ cs_n = 0
  /\ out' = NibbleAt(2 * Address + edges - FirstAnswer)
  /\ dq' = out' /\ edges' = edges + 1
  /\ UNCHANGED <<cs_n, memory, heard>>

\* The answer is driven once more at the falling edge.
Hold ==
  /\ edges >= FirstAnswer
  /\ dq' = out /\ UNCHANGED <<cs_n, memory, heard, edges, out>>

Release ==
  /\ edges >= FirstAnswer /\ cs_n = 1
  /\ heard' = <<>> /\ edges' = 0 /\ UNCHANGED <<cs_n, dq, memory, out>>

Next == Environment \/ Hear \/ Prepare \/ Answer \/ Hold \/ Release

Spec == Init /\ [][Next]_vars
=============================================================================
