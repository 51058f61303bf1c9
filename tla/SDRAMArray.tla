------------------------------ MODULE SDRAMArray ------------------------------
(***************************************************************************)
(* What a memory controller can rely on: the command table at the top of   *)
(* generic_sdram.hpp, with cells by row, bank and column and one open row  *)
(* per bank, and backdoors that copy and clear blocks of words, once per   *)
(* strobe.  It is weaker than the data sheet the header names in two       *)
(* points, where the code departs from it: of the bytes that dm masks only *)
(* the first is sure to be kept, and reads that wait together are answered *)
(* in any order.  There is no code for this module; GenericSDRAM is shown  *)
(* to implement it.                                                        *)
(***************************************************************************)
EXTENDS Integers, SequencesExt

CONSTANTS
  Rows, BankCount, ColCount, \* what a controller addresses
  Word, Zero,
  Pins,    \* what a controller may drive
  Strobes, \* what a testbench may ask of the backdoors
  OFFSET   \* the Wishbone address of the first cell

VARIABLES
  cells,   \* the word at each row, bank and column
  open,    \* per bank: its open row
  answers, \* words that were read and not returned yet, the oldest first
  dq,      \* the data pins
  pins,    \* what the controller drives
  strobe   \* what the testbench drives

vars == <<cells, open, answers, dq, pins, strobe>>

Banks == 0 .. BankCount - 1
Places == Rows \X Banks \X (0 .. ColCount - 1)

\* The Wishbone address of a cell, and the cell at an address.
Address(p) == OFFSET + 4 * ((p[1] * BankCount + p[2]) * ColCount + p[3])
At(address) == CHOOSE p \in Places : Address(p) = address

Init ==
  /\ cells \in [Places -> Word]
  /\ open = [b \in Banks |-> 0] /\ answers = <<>> /\ dq = Zero
  /\ pins.cke = 0 /\ strobe.copy = 0 /\ strobe.clear = 0

(***************************************************************************)
(* The command table, sampled when the clock rises.                        *)
(***************************************************************************)
Is(p, ras, cas, we) == p.cs_n = 0 /\ p.ras_n = ras /\ p.cas_n = cas /\ p.we_n = we

Driven(p) == IF p.drives THEN p.dq ELSE dq
Place(p) == <<open[p.ba], p.ba, p.a>>

\* Each word read is returned once.
Nop(p) ==
  /\ p.cs_n = 1 \/ Is(p, 1, 1, 1)
  /\ IF answers = <<>> THEN dq' = Driven(p) /\ UNCHANGED answers
     ELSE \E i \in 1 .. Len(answers) : dq' = answers[i] /\ answers' = RemoveAt(answers, i)
  /\ UNCHANGED <<cells, open>>

Active(p) ==
  /\ Is(p, 0, 1, 1)
  /\ open' = [open EXCEPT ![p.ba] = p.a]
  /\ dq' = Driven(p) /\ UNCHANGED <<cells, answers>>

Read(p) ==
  /\ Is(p, 1, 0, 1)
  /\ answers' = Append(answers, cells[Place(p)])
  /\ dq' = Driven(p) /\ UNCHANGED <<cells, open>>

\* A set bit of dm masks the byte it stands for.
Masks(dm) == {k \in 0 .. 3 : (dm \div 2^k) % 2 = 1}

Write(p) ==
  /\ Is(p, 1, 0, 0)
  /\ \E kept \in SUBSET Masks(p.dm) :
       /\ 0 \in Masks(p.dm) => 0 \in kept
       /\ cells' = [cells EXCEPT ![Place(p)] =
            [k \in 0 .. 3 |-> IF k \in kept THEN @[k] ELSE Driven(p)[k]]]
  /\ dq' = Driven(p) /\ UNCHANGED <<open, answers>>

\* A[10] stands for all the banks.
Precharge(p) ==
  /\ Is(p, 0, 1, 0)
  /\ open' = IF (p.a \div 2^10) % 2 = 1 THEN [b \in Banks |-> 0] ELSE [open EXCEPT ![p.ba] = 0]
  /\ dq' = Driven(p) /\ UNCHANGED <<cells, answers>>

NoEffect(p) ==
  /\ Is(p, 0, 0, 1) \/ Is(p, 0, 0, 0)
  /\ dq' = Driven(p) /\ UNCHANGED <<cells, open, answers>>

Clock(p) ==
  /\ pins' = p /\ UNCHANGED strobe
  /\ IF p.cke = 1
       THEN Nop(p) \/ Active(p) \/ Read(p) \/ Write(p) \/ Precharge(p) \/ NoEffect(p)
       ELSE dq' = Driven(p) /\ UNCHANGED <<cells, open, answers>>

(***************************************************************************)
(* The backdoors.  A block is copied as it was before the copy.            *)
(***************************************************************************)
Rises(s, line) == strobe[line] = 0 /\ s[line] = 1

Copied(s, p) ==
  LET d == Address(p) - s.copy_to IN
  IF Rises(s, "copy") /\ d \in 0 .. s.copy_size - 1 THEN cells[At(s.copy_from + d)] ELSE cells[p]

Backdoor(s) ==
  /\ strobe' = s
  /\ cells' = [p \in Places |->
       IF Rises(s, "clear") /\ Address(p) \in s.clear_from .. s.clear_to - 1
         THEN Zero ELSE Copied(s, p)]
  /\ UNCHANGED <<open, answers, dq, pins>>

Next ==
  \/ \E p \in Pins : Clock(p)
  \/ \E s \in Strobes : Backdoor(s)

Spec == Init /\ [][Next]_vars
=============================================================================
