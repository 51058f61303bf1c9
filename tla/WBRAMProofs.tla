---------------------------- MODULE WBRAMProofs ----------------------------
(***************************************************************************)
(* Theorems about WBRAM under any master and for any size of the memory.   *)
(***************************************************************************)
EXTENDS WBRAM, TLAPS

USE DEF Reports, MasterReports, SlaveReports

LEMMA WordTypes == ZeroWord \in Word /\ OnesWord \in Word
BY ByteAssumption DEF ZeroWord, OnesWord, Word

LEMMA AccessTypes ==
  ASSUME TypeOK, NEW address \in Nat
  PROVE  /\ retrieve_word(address) \in Word
         /\ set_word(address, m2s.dat, m2s.sel) \in Word
<1>1. retrieve_word(address) \in Word
  BY WordTypes DEF TypeOK, retrieve_word
<1>2. m2s.dat \in Word
  BY DEF TypeOK, MasterOut
<1> QED BY <1>1, <1>2 DEF set_word, Word

LEMMA TypeHandleop ==
  ASSUME TypeOK, Handleop PROVE TypeOK'
<1>1. CASE NoStrobe \/ EndAccess
  BY <1>1 DEF NoStrobe, EndAccess, HandleopRuns, WithdrawAck, NoAccess, TypeOK, SlaveOut
<1>2. CASE Write
  <2> DEFINE w == set_word(m2s.adr, m2s.dat, m2s.sel)
  <2>1. m2s.adr \in Nat /\ m2s.adr \in 0 .. mem_size
    BY <1>2, WBRAMAssumption DEF Write, OutOfBound, TypeOK, MasterOut
  <2>2. w \in Word
    BY <2>1, AccessTypes
  <2>3. memory' = Put(m2s.adr, w) /\ word' = w /\ s2m_next' = [ack |-> TRUE, dat |-> w]
    BY <1>2 DEF Write, Acknowledge
  <2>4. /\ DOMAIN memory' \subseteq 0 .. mem_size
        /\ \A a \in DOMAIN memory' : memory'[a] \in Word
    BY <2>1, <2>2, <2>3 DEF Put, TypeOK
  <2>5. db_wr_ops' \in 0 .. LongMod - 1
    BY <1>2, WBRAMAssumption DEF Write, TypeOK
  <2>6. word' \in Word /\ s2m_next' \in SlaveOut
    BY <2>2, <2>3 DEF SlaveOut
  <2> HIDE DEF w
  <2> QED BY <1>2, <2>4, <2>5, <2>6 DEF Write, HandleopRuns, Acknowledge, TypeOK
<1>3. CASE Read
  <2>1. retrieve_word(m2s.adr) \in Word
    BY AccessTypes DEF TypeOK, MasterOut
  <2>2. db_rd_ops' \in 0 .. LongMod - 1
    BY <1>3, WBRAMAssumption DEF Read, TypeOK
  <2>3. word' \in Word /\ s2m_next' \in SlaveOut /\ n_tran' = TRUE
    BY <1>3, <2>1 DEF Read, Acknowledge, SlaveOut
  <2> QED BY <1>3, <2>2, <2>3 DEF Read, HandleopRuns, TypeOK
<1>4. CASE Abort
  BY <1>4 DEF Abort, HandleopRuns, store, TypeOK
<1> QED BY <1>1, <1>2, <1>3, <1>4 DEF Handleop

LEMMA RAMTypeInit == Init => TypeOK
<1>1. NoMasterOut \in MasterOut /\ NoSlaveOut \in SlaveOut
  BY WordTypes DEF NoMasterOut, NoSlaveOut, MasterOut, SlaveOut
<1>2. Init => DOMAIN memory = {}
  BY DEF Init
<1>3. Init => db_wr_ops \in 0 .. LongMod - 1 /\ db_rd_ops \in 0 .. LongMod - 1
  BY WBRAMAssumption DEF Init
<1> QED BY <1>1, <1>2, <1>3, WordTypes DEF Init, TypeOK

LEMMA RAMTypeStep ==
  ASSUME TypeOK, [Next]_vars PROVE TypeOK'
<1>1. CASE Handleop
  BY <1>1, TypeHandleop
<1>2. CASE AnyEdge
  BY <1>2, WBRAMAssumption DEF AnyEdge, ClockEdge, store, TypeOK
<1>3. CASE MasterEnds
  BY <1>3 DEF MasterEnds, store, TypeOK
<1>4. CASE UNCHANGED vars
  BY <1>4 DEF vars, store, TypeOK
<1> QED BY <1>1, <1>2, <1>3, <1>4 DEF Next, Stopped

\* Every word is stored at an address the bound check accepts, and the map,
\* the counters and the wires keep their types.
THEOREM RAMTypeCorrect == Spec => []TypeOK
<1>1. TypeOK /\ [Next]_vars => TypeOK'
  BY RAMTypeStep
<1> QED BY RAMTypeInit, <1>1, PTL DEF Spec

LEMMA PendingStep ==
  ASSUME TypeOK, AckIsPending, [Next]_vars PROVE AckIsPending'
<1> USE DEF AckIsPending, TypeOK, SlaveOut
<1>1. CASE NoStrobe \/ EndAccess
  <2>1. ~s2m_next'.ack /\ ~ram_due' /\ report' = report
    BY <1>1 DEF NoStrobe, EndAccess, HandleopRuns, WithdrawAck
  <2> QED BY <2>1
<1>2. CASE Write \/ Read
  <2>1. /\ n_tran' /\ s2m_next'.dat = word' /\ ~ram_due'
        /\ ram_due /\ ~n_tran /\ s2m' = s2m
    BY <1>2 DEF Write, Read, Acknowledge, HandleopRuns
  <2> QED BY <2>1
<1>3. CASE Abort
  BY <1>3 DEF Abort, HandleopRuns, store
<1>4. CASE AnyEdge
  BY <1>4 DEF AnyEdge, ClockEdge, store
<1>5. CASE MasterEnds
  BY <1>5 DEF MasterEnds, store
<1>6. CASE UNCHANGED vars
  BY <1>6 DEF vars, store
<1> QED BY <1>1, <1>2, <1>3, <1>4, <1>5, <1>6 DEF Next, Handleop, Stopped

LEMMA PendingInit == Init => AckIsPending
BY DEF Init, AckIsPending, NoSlaveOut

\* An acknowledge belongs to a pending access, under any master.
THEOREM AckAlwaysPending == Spec => []AckIsPending
<1>1. TypeOK /\ AckIsPending /\ [Next]_vars => AckIsPending'
  BY PendingStep
<1> QED BY <1>1, PendingInit, RAMTypeCorrect, PTL DEF Spec

\* No acknowledge is seen on two edges in a row.
THEOREM AckSeenOnce == Spec => AckOnce
<1>1. AckIsPending /\ [Next]_vars =>
        [~ram_due /\ ram_due' /\ s2m.ack => ~s2m'.ack]_vars
  <2> SUFFICES ASSUME AckIsPending, Next, ~ram_due, ram_due', s2m.ack
               PROVE  ~s2m'.ack
    OBVIOUS
  <2>1. AnyEdge
    BY DEF Next, Handleop, NoStrobe, EndAccess, Write, Read, Abort, HandleopRuns,
           MasterEnds, Stopped, vars
  <2> QED BY <2>1 DEF AnyEdge, ClockEdge, AckIsPending
<1> QED BY <1>1, AckAlwaysPending, PTL DEF Spec, AckOnce
=============================================================================
