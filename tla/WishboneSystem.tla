---------------------------- MODULE WishboneSystem ----------------------------
(***************************************************************************)
(* The system of tlms/tlm_adapters/tests/test_wishbone_adapter.cpp: a      *)
(* TLM2WB whose Wishbone port is wired to a WBRAM.  Both run on the same   *)
(* clock edge, in either order; the wires of one are the inputs of the     *)
(* other.                                                                  *)
(***************************************************************************)
EXTENDS WishboneBus

CONSTANTS Threads, Requests, Timeouts, UIntMod, mem_size, LongMod

VARIABLES
  state, adr, ptr, len, byt, wid, wnr, elapsed, timeout, due,
  pc, trans, buf, resp,
  memory, word, n_tran, db_wr_ops, db_rd_ops, ram_due,
  m2s, m2s_next, s2m, s2m_next, report

\* The callers take turns (two overlapping calls are the subject of TLM2WB).
Bridge == INSTANCE TLM2WBProofs WITH Exclusive <- TRUE, SlaveData <- Word
RAM == INSTANCE WBRAMProofs WITH Masters <- MasterOut

ASSUME SystemAssumption ==
  /\ UIntMod \in Nat /\ UIntMod > DWIDTH_BYTES
  /\ Timeouts # {} /\ Timeouts \subseteq Nat
  /\ mem_size \in Nat /\ LongMod \in Nat /\ LongMod > 0
  /\ \A req \in Requests : Bridge!SupportedRequest(req)

bridgeOnly == <<state, adr, ptr, len, byt, wid, wnr, elapsed, timeout,
                pc, trans, buf, resp, m2s_next, due>>
ramOnly == <<memory, word, n_tran, db_wr_ops, db_rd_ops, s2m_next, ram_due>>
vars == <<bridgeOnly, ramOnly, m2s, s2m, report>>

Init == Bridge!Init /\ RAM!Init

Call == Bridge!Call /\ UNCHANGED ramOnly
Resume == Bridge!Resume /\ UNCHANGED ramOnly
Configure == Bridge!Configure /\ UNCHANGED ramOnly
BridgeRuns == Bridge!Handler /\ UNCHANGED ramOnly
RAMRuns == RAM!Handleop /\ UNCHANGED bridgeOnly
ClockEdge == Bridge!ClockEdge(s2m_next) /\ RAM!ClockEdge(m2s_next)
Stopped == report # "none" /\ UNCHANGED vars

Next == Call \/ Resume \/ Configure \/ BridgeRuns \/ RAMRuns \/ ClockEdge \/ Stopped

Spec == Init /\ [][Next]_vars

\* As in TLM2WB: the kernel runs what it has woken and advances the clock.
Fairness ==
  WF_vars(Resume) /\ WF_vars(BridgeRuns) /\ WF_vars(RAMRuns) /\ WF_vars(ClockEdge)
FairSpec == Spec /\ Fairness

-----------------------------------------------------------------------------
(* The implementation of BlockingTransport *)

\* From its access in the memory to the acknowledge seen by the bridge.
Accessed == state = "WAITING_FOR_ACK" /\ (n_tran \/ s2m.ack)

\* A written word counts from its access in the memory on, a read one when it
\* is in the caller's buffer.
BeatDone(t) == pc[t] = "woken" \/ (wnr /\ Accessed)
BeatsDone ==
  IF \A t \in Threads : pc[t] = "idle" THEN 0
  ELSE ptr.off \div DWIDTH_BYTES + (IF BeatDone(ptr.own) THEN 1 ELSE 0)

ReadsDone == IF Accessed /\ ~wnr THEN (db_rd_ops + LongMod - 1) % LongMod ELSE db_rd_ops

Mem == [a \in 0 .. mem_size |-> RAM!retrieve_word(a)]
Calling == {t \in Threads : pc[t] # "idle"}
Failed == report # "none"

\* The stride is the one the code has: adr += len steps a word address by a count
\* of bytes.  A caller that expects consecutive words, as the labels check_@4,
\* check_@8, check_@C and check_@10 of test_wishbone_adapter.cpp:36-39 do, is not
\* served: the second word is at 0x14.
Transport == INSTANCE BlockingTransport WITH
  MemSize <- mem_size, Stride <- DWIDTH_BYTES, mem <- Mem, calling <- Calling,
  beat <- BeatsDone, writes <- db_wr_ops, reads <- ReadsDone, failed <- Failed

\* Through the clock, the handshake and the byte lanes, every call transfers
\* each of its words exactly once, in order, between the bytes of its buffer that
\* are due and the lanes of the word, and returns.  The first word is the one
\* addressed; those after it are at the code's own stride, for reads and writes
\* alike, which is not a claim that it is the right one.
ImplementsTransport == Transport!FairSpec

\* Where the two processes are in a transfer, in whichever order they run on an
\* edge.  While the strobe is seen without acknowledge the bridge counts its
\* first edge and the memory performs the access; on the next edge, which shows
\* the acknowledge, the bridge takes it and the memory ends the access; without
\* strobe nothing is pending.
FirstEdge ==
  /\ state = "WAITING_FOR_ACK" /\ m2s_next = m2s /\ elapsed = (IF due THEN 0 ELSE 1)
  /\ n_tran = ~ram_due /\ s2m_next.ack = ~ram_due
SecondEdge ==
  /\ due => state = "WAITING_FOR_ACK" /\ elapsed = 1
  /\ n_tran = ram_due /\ s2m_next.ack = ram_due
NothingPending ==
  /\ ~s2m.ack /\ ~n_tran /\ ~s2m_next.ack
  /\ state = "WAITING_FOR_ACK" => elapsed = 0

SystemInStep ==
  report = "none" =>
    IF ~Strobe(m2s) THEN NothingPending ELSE IF s2m.ack THEN SecondEdge ELSE FirstEdge

\* A WBRAM answers on the second edge the bridge waits, so no timeout above 2
\* ever expires.
NeverTimesOut == (\A n \in Timeouts : n > 2) => report # "ack_timeout"

\* The memory is never left in the middle of an access: when the bridge is not
\* waiting, n_tran is clear, so the first edge of the next request is not
\* mistaken for the second of an old one.
NoStaleAccess ==
  report = "none" /\ ~due /\ ~ram_due /\ state # "WAITING_FOR_ACK" => ~n_tran
=============================================================================
