------------------------------ MODULE TLMRouter ------------------------------
(***************************************************************************)
(* tlms/tlm_router/tlm_router.hpp: which target a transaction goes to, and *)
(* the address the target sees.  The router keeps nothing between calls    *)
(* but its address map, which the testbench sets up with                   *)
(* setInitiatorProperties before the simulation starts.                    *)
(***************************************************************************)
EXTENDS Integers

CONSTANTS
  Targets,          \* the router's initiator sockets, numbered from 0
  initiatorsConfig, \* per target: baseAddress, topAddress, mask
  BitwiseAnd(_, _)         \* bitwise and

Matches(i, address) ==
  address >= initiatorsConfig[i].baseAddress /\ address < initiatorsConfig[i].topAddress

\* The first region that contains the address, whatever the later ones say.
Decodes(i, address) ==
  i \in Targets /\ Matches(i, address) /\ \A j \in Targets : j < i => ~Matches(j, address)

Unmapped(address) == \A i \in Targets : ~Matches(i, address)

masked_address(i, address) == BitwiseAnd(address, initiatorsConfig[i].mask)
=============================================================================
