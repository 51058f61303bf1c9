------------------------------- MODULE Memory -------------------------------
(***************************************************************************)
(* tlms/commons/memory.h: memories of SIZE words behind b_transport.  The  *)
(* counters are sc_signals, which one process only may write: the thread   *)
(* of whichever initiator came first.                                      *)
(***************************************************************************)
EXTENDS Integers

CONSTANTS
  Memories,
  SIZE,    \* in words
  Garbage, \* what a word may hold that nobody has written
  LongMod  \* where the counters wrap

VARIABLES
  mem,    \* per memory: its words; not initialised
  ops,    \* per memory: rd_ops as "READ" and wr_ops as "WRITE"
  writer  \* per memory: the thread that writes each counter, as a set

Init ==
  /\ mem \in [Memories -> [0 .. SIZE - 1 -> Garbage]]
  /\ ops = [m \in Memories |-> [c \in {"READ", "WRITE"} |-> 0]]
  /\ writer = [m \in Memories |-> [c \in {"READ", "WRITE"} |-> {}]]

Adr(payload) == payload.addr \div 4

\* The checks of b_transport in their order.
Status(payload) ==
  IF Adr(payload) > SIZE THEN "ADDRESS_ERROR"
  ELSE IF payload.byt THEN "BYTE_ENABLE_ERROR"
  ELSE IF payload.len > 4 \/ payload.wid < payload.len THEN "BURST_ERROR"
  ELSE "OK"

\* adr = SIZE passes the check and is outside mem.
Stray(payload) == Status(payload) = "OK" /\ Adr(payload) = SIZE
InMemory(payload) == Status(payload) = "OK" /\ Adr(payload) < SIZE

MayCount(m, cmd, th) == writer[m][cmd] \subseteq {th}

Count(m, cmd, th) ==
  /\ ops' = [ops EXCEPT ![m][cmd] = (@ + 1) % LongMod]
  /\ writer' = [writer EXCEPT ![m][cmd] = {th}]

Write(m, payload, th, word) ==
  /\ InMemory(payload) /\ MayCount(m, "WRITE", th)
  /\ mem' = [mem EXCEPT ![m][Adr(payload)] = word]
  /\ Count(m, "WRITE", th)

Read(m, payload, th) ==
  /\ InMemory(payload) /\ MayCount(m, "READ", th)
  /\ Count(m, "READ", th)
  /\ UNCHANGED mem

WordAt(m, payload) == mem[m][Adr(payload)]
=============================================================================
