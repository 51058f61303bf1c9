------------------------------- MODULE MCN25QX -------------------------------
(* Eight commands, the read command among them, and eight addresses, where   *)
(* two regions overlap and where nothing is configured.                      *)
EXTENDS N25QX

Either == {0, 5}
BusValues ==
  [n \in 0 .. 14 |->
     IF n \in {0, 4, 7, 9, 13, 14} THEN Either
     ELSE IF n \in {1, 2, 6} THEN {5}
     ELSE {0}]
Images == {<<161, 44>>, <<63>>}
Regions == {5, 6}
=============================================================================
