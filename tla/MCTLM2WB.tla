------------------------------ MODULE MCTLM2WB ------------------------------
(* Small instances of TLM2WB: two callers and a slave that does anything.   *)
EXTENDS TLM2WB, TLC

CONSTANTS t1, t2, b0, b1, bF

MCByte == {b0, b1, bF}

Payload(n) == [b \in 0 .. n - 1 |-> IF b % 4 = 0 THEN b1 ELSE b0]
Request(cmd, addr, width, masked, mask) ==
  [cmd |-> cmd, addr |-> addr, len |-> 4, wid |-> width, masked |-> masked,
   mask |-> mask, data |-> Payload(IF width = 0 THEN 4 ELSE width)]

\* One word, a two-beat stream, a width of 0, byte enables, an illegal command.
MCRequests ==
  {Request("WRITE", 4, 8, TRUE, {0, 3, 5}), Request("WRITE", 0, 0, FALSE, {}),
   Request("READ", 4, 12, FALSE, {}), Request("READ", 8, 4, FALSE, {}),
   Request("IGNORE", 0, 4, FALSE, {})}

\* Single words and two-beat streams, for callers that overlap.
MCShortRequests ==
  {Request("WRITE", 4, 4, FALSE, {}), Request("WRITE", 0, 8, FALSE, {}),
   Request("READ", 8, 8, FALSE, {})}

MCSlaveData == {ZeroWord, [i \in Lane |-> IF i = 0 THEN bF ELSE b1]}

Callers == Permutations({t1, t2})
=============================================================================
