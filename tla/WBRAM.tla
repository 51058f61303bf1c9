------------------------------- MODULE WBRAM -------------------------------
(***************************************************************************)
(* models/wishbone/wbram.hpp: a word memory behind a Wishbone slave port.  *)
(* handleop runs once per rising clock edge.  It performs an access on the *)
(* first edge that shows a strobe and acknowledges it; n_tran makes it let *)
(* the second one pass, on which the master sees the acknowledge.          *)
(***************************************************************************)
EXTENDS WishboneBus

CONSTANTS mem_size, \* the argument of the constructor, in words
          LongMod,  \* 2^63 in the build: where the debug counters wrap
          Masters   \* what a master may drive, when the memory stands alone

ASSUME WBRAMAssumption ==
  /\ mem_size \in Nat
  /\ LongMod \in Nat /\ LongMod > 0
  /\ Masters \subseteq MasterOut

VARIABLES
  memory,         \* the std::map: the words written so far, by word address
  word,           \* the word of the last access
  n_tran,
  db_wr_ops, db_rd_ops,
  m2s,            \* the master wires now
  s2m, s2m_next,  \* the slave wires now, and as written for the next edge
  ram_due,        \* handleop has still to run on this edge
  report          \* "out_of_bound" once SC_REPORT_FATAL has aborted, or "none"

store == <<memory, word, n_tran, db_wr_ops, db_rd_ops>>
vars == <<store, m2s, s2m, s2m_next, ram_due, report>>

OneMore(address) == address > mem_size + 1 \* mutant: off by one
OutOfBound(address) == address > mem_size

\* A location nobody has written reads as ones: set_bit(i, 'X') sets the bit.
retrieve_word(address) ==
  IF address \in DOMAIN memory THEN memory[address] ELSE OnesWord

set_word(address, value, sel) ==
  [i \in Lane |-> IF i \in sel THEN value[i] ELSE retrieve_word(address)[i]]

Put(address, value) ==
  [a \in DOMAIN memory \cup {address} |-> IF a = address THEN value ELSE memory[a]]

HandleopRuns == report = "none" /\ ram_due /\ ram_due' = FALSE
NoAccess == UNCHANGED <<memory, word, db_wr_ops, db_rd_ops>>

\* dat_o keeps its word when only ack_o is written.
AckKept == s2m_next' = s2m_next       \* mutant: ack_o.write(false) is missing
WithdrawAck == s2m_next' = [s2m_next EXCEPT !.ack = FALSE]

NoStrobe ==
  /\ HandleopRuns /\ ~Strobe(m2s)
  /\ WithdrawAck
  /\ NoAccess /\ UNCHANGED <<n_tran, m2s, s2m, report>>

\* The second edge of an access.
NTranNoWithdraw == \* mutant: the acknowledge outlives its access
  /\ HandleopRuns /\ Strobe(m2s) /\ n_tran
  /\ n_tran' = FALSE
  /\ NoAccess /\ UNCHANGED <<m2s, s2m, s2m_next, report>>
EndAccess ==
  /\ HandleopRuns /\ Strobe(m2s) /\ n_tran
  /\ n_tran' = FALSE
  /\ WithdrawAck
  /\ NoAccess /\ UNCHANGED <<m2s, s2m, report>>

AckLost(w) == \* mutant: ack_o.write(false) comes last
  /\ word' = w /\ n_tran' = TRUE
  /\ s2m_next' = [ack |-> FALSE, dat |-> w]
Acknowledge(w) ==
  /\ word' = w
  /\ n_tran' = TRUE
  /\ s2m_next' = [ack |-> TRUE, dat |-> w]

Write ==
  /\ HandleopRuns /\ Strobe(m2s) /\ ~n_tran /\ m2s.we /\ ~OutOfBound(m2s.adr)
  /\ LET w == set_word(m2s.adr, m2s.dat, m2s.sel) IN
       memory' = Put(m2s.adr, w) /\ Acknowledge(w)
  /\ db_wr_ops' = (db_wr_ops + 1) % LongMod
  /\ UNCHANGED <<db_rd_ops, m2s, s2m, report>>

Read ==
  /\ HandleopRuns /\ Strobe(m2s) /\ ~n_tran /\ ~m2s.we /\ ~OutOfBound(m2s.adr)
  /\ Acknowledge(retrieve_word(m2s.adr))
  /\ db_rd_ops' = (db_rd_ops + 1) % LongMod
  /\ UNCHANGED <<memory, db_wr_ops, m2s, s2m, report>>

\* SC_REPORT_FATAL aborts the program.
Abort ==
  /\ HandleopRuns /\ Strobe(m2s) /\ ~n_tran /\ OutOfBound(m2s.adr)
  /\ report' = "out_of_bound"
  /\ UNCHANGED <<store, m2s, s2m, s2m_next>>

Handleop == NoStrobe \/ EndAccess \/ Write \/ Read \/ Abort

\* A rising edge; m is what the master drives from here on.
ClockEdge(m) ==
  /\ report = "none" /\ ~ram_due
  /\ ram_due' = TRUE /\ m2s' = m /\ s2m' = s2m_next
  /\ UNCHANGED <<store, s2m_next, report>>

\* handleop also runs once before the first edge (it is not dont_initialize).
Init ==
  /\ memory = [a \in {} |-> ZeroWord] /\ word = ZeroWord /\ n_tran = FALSE
  /\ db_wr_ops = 0 /\ db_rd_ops = 0
  /\ m2s = NoMasterOut /\ s2m = NoSlaveOut /\ s2m_next = NoSlaveOut
  /\ ram_due = TRUE /\ report = "none"

\* A master is free to raise and drop the strobe and to change its request at
\* any edge, acknowledged or not.
AnyEdge == \E m \in Masters : ClockEdge(m)

\* The master may end the simulation on its own account.
MasterEnds ==
  /\ report = "none" /\ report' \in MasterReports
  /\ UNCHANGED <<store, m2s, s2m, s2m_next, ram_due>>

Stopped == report # "none" /\ UNCHANGED vars

Next == Handleop \/ AnyEdge \/ MasterEnds \/ Stopped
Spec == Init /\ [][Next]_vars
FairSpec == Spec /\ WF_vars(Handleop) /\ WF_vars(AnyEdge)

-----------------------------------------------------------------------------
TypeOK ==
  /\ DOMAIN memory \subseteq 0 .. mem_size
  /\ \A a \in DOMAIN memory : memory[a] \in Word
  /\ word \in Word /\ n_tran \in BOOLEAN
  /\ db_wr_ops \in 0 .. LongMod - 1 /\ db_rd_ops \in 0 .. LongMod - 1
  /\ m2s \in MasterOut /\ s2m \in SlaveOut /\ s2m_next \in SlaveOut
  /\ ram_due \in BOOLEAN /\ report \in Reports

\* An acknowledge lasts one edge whatever the master does, so that one access
\* can never be taken for two.
AckOnce == [][~ram_due /\ ram_due' /\ s2m.ack => ~s2m'.ack]_vars

\* The two-edge bookkeeping never goes out of step with the wires: an
\* acknowledge belongs to a pending access and carries its word, and handleop
\* withdraws it on the very edge on which the master can see it.
AckIsPending ==
  /\ s2m_next.ack => n_tran /\ s2m_next.dat = word
  /\ ram_due => s2m = s2m_next
  /\ report = "none" /\ ~ram_due /\ s2m.ack => ~s2m_next.ack

\* A strobe that is held is acknowledged, also when an earlier strobe was
\* dropped in the middle of its access.
HeldStrobeIsAcked ==
  <>[](Strobe(m2s) /\ report = "none") => []<>s2m.ack
=============================================================================
