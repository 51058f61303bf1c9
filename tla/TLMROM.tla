------------------------------- MODULE TLMROM -------------------------------
(***************************************************************************)
(* tlms/tlm_memories/tlm_rom.hpp: a constant image behind b_transport.     *)
(***************************************************************************)
EXTENDS Integers

CONSTANTS
  baseaddr,
  ROM       \* the bytes of the image, from 0

\* addr is unsigned: an address below baseaddr wraps to a large one.
Relative(payload) == payload.addr - baseaddr
Outside(payload) == Relative(payload) \notin DOMAIN ROM

Bytes(payload) == Relative(payload) .. Relative(payload) + payload.len - 1

Readable(payload) == payload.cmd = "READ" /\ Bytes(payload) \subseteq DOMAIN ROM

Image(payload) == [k \in 0 .. 3 |-> ROM[Relative(payload) + k]]

\* Only the first byte of an access is checked: those beyond the image are
\* whatever follows the vector in the memory of the program.
PastEnd(payload) ==
  payload.cmd = "READ" /\ ~Outside(payload) /\ ~(Bytes(payload) \subseteq DOMAIN ROM)
EndsAs(payload, word) ==
  \A k \in 0 .. 3 :
    Relative(payload) + k \in DOMAIN ROM => word[k] = ROM[Relative(payload) + k]
=============================================================================
