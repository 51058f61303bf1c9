-------------------------- MODULE MCWishboneSystem --------------------------
(* A TLM2WB and a WBRAM of a few words, with two callers.                  *)
EXTENDS WishboneSystem

CONSTANTS t1, t2, b0, b1, b2, bF

MCByte == {b0, b1, b2, bF}

\* The four bytes of each word differ in the places a lane mix-up would swap.
Payload(n) == [b \in 0 .. n - 1 |->
  CASE b % 4 = 0 -> b1 [] b % 4 = 1 -> b2 [] b % 4 = 2 -> b0 [] OTHER -> IF b < 4 THEN b0 ELSE b2]

Request(cmd, addr, width, masked, mask) ==
  [cmd |-> cmd, addr |-> addr, len |-> 4, wid |-> width, masked |-> masked,
   mask |-> mask, data |-> Payload(IF width = 0 THEN 4 ELSE width)]

\* A stream of two words, one word with byte enables, and reading them back;
\* a stream that leaves the memory at its second word.
MCRequests ==
  {Request("WRITE", 4, 8, FALSE, {}), Request("WRITE", 4, 0, TRUE, {0, 3}),
   Request("READ", 4, 8, FALSE, {}), Request("READ", 20, 4, FALSE, {}),
   Request("WRITE", 8, 8, FALSE, {}), Request("IGNORE", 0, 4, FALSE, {})}
=============================================================================
