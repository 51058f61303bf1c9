---------------------------- MODULE WishboneBus ----------------------------
(***************************************************************************)
(* The wires between a Wishbone master and a slave, as the ports of        *)
(* TLM2WB (tlms/tlm_adapters/tlm2wishbone.hpp) and of WBRAM                *)
(* (models/wishbone/wbram.hpp) declare them.  A byte is a value of the set *)
(* Byte and a 32-bit word a function from its four byte lanes: no handler  *)
(* computes on a byte, they only move them between lanes.                  *)
(***************************************************************************)
EXTENDS Integers

CONSTANTS Byte,     \* the values of a byte
          ZeroByte, \* 0x00
          OnesByte  \* 0xff

ASSUME ByteAssumption == ZeroByte \in Byte /\ OnesByte \in Byte

DWIDTH_BYTES == 4
Lane == 0 .. DWIDTH_BYTES - 1
Word == [Lane -> Byte]

ZeroWord == [i \in Lane |-> ZeroByte]
OnesWord == [i \in Lane |-> OnesByte]

\* What the master drives (adr is a word address, sel the enabled lanes) and
\* what the slave answers.
MasterOut == [cyc : BOOLEAN, stb : BOOLEAN, we : BOOLEAN,
              adr : Nat, dat : Word, sel : SUBSET Lane]
SlaveOut == [ack : BOOLEAN, dat : Word]

\* The wires before anybody has written to them.
NoMasterOut == [cyc |-> FALSE, stb |-> FALSE, we |-> FALSE,
                adr |-> 0, dat |-> ZeroWord, sel |-> {}]
NoSlaveOut == [ack |-> FALSE, dat |-> ZeroWord]

Strobe(m) == m.cyc /\ m.stb

\* The reports by which a master and a slave end the whole simulation.
MasterReports == {"unsupported_cmd", "ack_timeout", "stray_pointer"}
SlaveReports == {"out_of_bound"}
Reports == {"none"} \cup MasterReports \cup SlaveReports
=============================================================================
