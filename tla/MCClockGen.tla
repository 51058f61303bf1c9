------------------------------ MODULE MCClockGen ------------------------------
(* Symmetric clocks, with phases MULT divides or not; clocks that start high *)
(* with more or less of the phase left; a clock that is low for longer.      *)
EXTENDS ClockGen

Clock(hi, lo, first, edge) == [hi |-> hi, lo |-> lo, first |-> first, edge |-> edge]
MCClocks ==
  {Clock(n, n, FALSE, edge) : n \in {3, 4, 5, 7, 10, 15}, edge \in {0, 2}}
    \cup {Clock(10, 10, TRUE, edge) : edge \in {0, 3, 4, 10}}
    \cup {Clock(6, 9, FALSE, 1)}
=============================================================================
