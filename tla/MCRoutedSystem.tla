--------------------------- MODULE MCRoutedSystem ---------------------------
(* test_multiport.cpp scaled down: memories of two words, of which the second *)
(* and third have their base address masked out, and a ROM whose image does   *)
(* not end on a word.                                                         *)
EXTENDS RoutedSystemProofs, Bitwise, TLC

Multiport ==
  (0 :> [baseAddress |-> 0, topAddress |-> 8, mask |-> 31]) @@
  (1 :> [baseAddress |-> 32, topAddress |-> 44, mask |-> 223]) @@
  (2 :> [baseAddress |-> 96, topAddress |-> 104, mask |-> 255])

BitAnd(a, b) == a & b

Ones == [k \in 0 .. 3 |-> 1]
Stripes == [k \in 0 .. 3 |-> k % 2]
Unwritten == {Stripes}
ImageOf6 == [o \in 0 .. 5 |-> o % 2]

\* The word in which the image ends may be Stripes or this one, and not Ones.
OtherTail == [k \in 0 .. 3 |-> IF k = 0 THEN 0 ELSE 1]
Words == {Ones, Stripes, OtherTail}

Call(d, a, b, w, v) ==
  [dir |-> d, addr |-> a, len |-> 4, wid |-> w, byt |-> b, value |-> v,
   ptr |-> IF d = "READ" THEN "dst" ELSE "src"]

\* The same word of both memories, the first word beyond a memory (40), the
\* first and the last of the image (96, 100), and an address of no region (44).
MultiportCalls ==
  {Call("WRITE", a, FALSE, 4, Ones) : a \in {4, 36, 96}}
  \cup {Call("READ", a, FALSE, 4, Ones) : a \in {36, 40, 44, 96, 100}}
  \cup {Call("WRITE", 4, TRUE, 4, Ones), Call("WRITE", 4, FALSE, 0, Ones)}

\* test_basic_routing.cpp: the region is larger than the memory.
Basic == (0 :> [baseAddress |-> 0, topAddress |-> 64, mask |-> 255])
BasicCalls == {Call(d, a, FALSE, 4, Ones) : d \in {"READ", "WRITE"}, a \in {0, 4, 8, 12, 64}}
=============================================================================
