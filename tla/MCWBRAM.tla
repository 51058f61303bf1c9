------------------------------ MODULE MCWBRAM ------------------------------
(* A two-word WBRAM under a master that follows no protocol.               *)
EXTENDS WBRAM

CONSTANTS b0, b1, bF

MCByte == {b0, b1, bF}
B1Word == [i \in Lane |-> b1]

Access(on, write, address, lanes) ==
  [cyc |-> on, stb |-> on, we |-> write, adr |-> address, dat |-> B1Word, sel |-> lanes]

\* Released bus, cycle without strobe, full and partial writes, reads; the
\* addresses are the first word, the one at mem_size and the one after it.
MCMasters ==
  {NoMasterOut, [NoMasterOut EXCEPT !.cyc = TRUE]}
    \cup {Access(TRUE, TRUE, a, lanes) : a \in {0, mem_size, mem_size + 1}, lanes \in {Lane, {1, 2}}}
    \cup {Access(TRUE, FALSE, a, {}) : a \in {0, mem_size}}
=============================================================================
