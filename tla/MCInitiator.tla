---------------------------- MODULE MCInitiator ----------------------------
(* Two initiators.  From address 32 on there is a memory that answers at    *)
(* once, below it TLM2WB as in test_wishbone_adapter.cpp: the clock has a   *)
(* period of 1 ns and a word takes three edges.                             *)
EXTENDS InitiatorProofs

CONSTANT MaxWords \* the longest stream of a helper call

Calls ==
  {[dir |-> d, addr |-> a, len |-> 4 * n, wid |-> 4 * n, ptr |-> IF d = "READ" THEN "dst" ELSE "src",
    byt |-> b] : d \in Dirs, a \in {0, 32}, n \in {1, MaxWords}, b \in {FALSE}}
  \cup {[dir |-> "WRITE", addr |-> 0, len |-> 4, wid |-> 0, ptr |-> "src", byt |-> TRUE]}
  \cup {[dir |-> "READ", addr |-> 0, len |-> 4, wid |-> 0, ptr |-> "dst", byt |-> FALSE]}

Words(p) == (IF p.wid = 0 THEN p.len ELSE p.wid) \div 4
TargetTimes(p) == IF p.addr >= 32 THEN {0} ELSE (3 * Words(p) - 1) .. (3 * Words(p))
=============================================================================
