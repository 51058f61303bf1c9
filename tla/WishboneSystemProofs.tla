------------------------- MODULE WishboneSystemProofs -------------------------
(***************************************************************************)
(* Theorems about a TLM2WB wired to a WBRAM, for any requests of callers   *)
(* that take turns, any timeouts and any size of the memory.  Each side,   *)
(* seen alone, behaves as its own specification allows, so what            *)
(* TLM2WBProofs and WBRAMProofs say of its steps holds here; the timing of *)
(* the two together is new.                                                *)
(***************************************************************************)
EXTENDS WishboneSystem, TLAPS

LEMMA ConstantFacts ==
  /\ Bridge!ZeroWord \in Bridge!Word /\ Word = Bridge!Word /\ Word = RAM!Word
  /\ MasterOut = Bridge!MasterOut /\ MasterOut = RAM!MasterOut
  /\ SlaveOut = Bridge!SlaveOut /\ SlaveOut = RAM!SlaveOut
BY ByteAssumption
   DEF ZeroWord, Bridge!ZeroWord, Word, Bridge!Word, RAM!Word, MasterOut,
       Bridge!MasterOut, RAM!MasterOut, SlaveOut, Bridge!SlaveOut, RAM!SlaveOut,
       Lane, Bridge!Lane, RAM!Lane, DWIDTH_BYTES, Bridge!DWIDTH_BYTES, RAM!DWIDTH_BYTES

LEMMA Assumptions ==
  /\ ZeroByte \in Byte /\ OnesByte \in Byte
  /\ UIntMod \in Nat /\ UIntMod > Bridge!DWIDTH_BYTES
  /\ Timeouts # {} /\ Timeouts \subseteq Nat
  /\ Word \subseteq Bridge!Word /\ Bridge!ZeroWord \in Word
  /\ \A req \in Requests : Bridge!SupportedRequest(req)
  /\ mem_size \in Nat /\ LongMod \in Nat /\ LongMod > 0
  /\ MasterOut \subseteq RAM!MasterOut
BY ByteAssumption, SystemAssumption, ConstantFacts DEF DWIDTH_BYTES, Bridge!DWIDTH_BYTES

-----------------------------------------------------------------------------
(* Each side alone *)

\* What the bridge sees of a step of the system is a step of TLM2WB: an access
\* out of bounds is the slave ending the simulation.
LEMMA BridgeStep ==
  ASSUME RAM!TypeOK, [Next]_vars PROVE [Bridge!Next]_(Bridge!vars)
<1>1. CASE Call \/ Resume \/ Configure \/ BridgeRuns
  BY <1>1 DEF Call, Resume, Configure, BridgeRuns, Bridge!Next
<1>2. CASE RAMRuns
  <2>1. UNCHANGED <<bridgeOnly, m2s, s2m>>
    BY <1>2 DEF RAMRuns, RAM!Handleop, RAM!NoStrobe, RAM!EndAccess, RAM!Write, RAM!Read,
                RAM!Abort
  <2>2. CASE RAM!Abort
    <3>1. report = "none" /\ report' \in Bridge!SlaveReports
      BY <2>2 DEF RAM!Abort, RAM!HandleopRuns, Bridge!SlaveReports
    <3> QED BY <2>1, <3>1 DEF bridgeOnly, Bridge!Next, Bridge!SlaveEnds, Bridge!Running,
                Bridge!members, Bridge!wires, Bridge!callers
  <2>3. CASE ~RAM!Abort
    <3>1. report' = report
      BY <1>2, <2>3 DEF RAMRuns, RAM!Handleop, RAM!NoStrobe, RAM!EndAccess, RAM!Write,
                         RAM!Read
    <3> QED BY <2>1, <3>1 DEF bridgeOnly, Bridge!vars, Bridge!members, Bridge!wires,
                Bridge!callers
  <2> QED BY <2>2, <2>3
<1>3. CASE ClockEdge
  <2>1. s2m_next \in Bridge!Answers
    BY ConstantFacts DEF RAM!TypeOK, SlaveOut, RAM!SlaveOut, Bridge!Answers
  <2> QED BY <1>3, <2>1 DEF ClockEdge, Bridge!AnyEdge, Bridge!Next
<1>4. CASE UNCHANGED vars
  BY <1>4 DEF vars, bridgeOnly, Bridge!vars, Bridge!members, Bridge!wires, Bridge!callers
<1> QED BY <1>1, <1>2, <1>3, <1>4 DEF Next, Stopped

LEMMA RAMStep ==
  ASSUME Bridge!TypeOK, Bridge!TypeOK', [Next]_vars PROVE [RAM!Next]_(RAM!vars)
<1>1. CASE Call \/ Resume \/ Configure \/ BridgeRuns
  <2>1. UNCHANGED <<ramOnly, m2s, s2m>>
    BY <1>1 DEF Call, Resume, Configure, BridgeRuns, Bridge!Call, Bridge!BeginTransport,
       Bridge!RejectCommand, Bridge!Resume, Bridge!FinishTransport, Bridge!NextBeat,
       Bridge!Configure, Bridge!SetTimeout, Bridge!Handler, Bridge!IdleEdge,
       Bridge!DriveWrite, Bridge!DriveRead, Bridge!NoAck, Bridge!Acked,
       Bridge!StrayPointer, Bridge!wires
  <2>2. report' = report \/ (report = "none" /\ report' \in RAM!MasterReports)
    BY <1>1 DEF Call, Resume, Configure, BridgeRuns, Bridge!Call, Bridge!BeginTransport,
       Bridge!RejectCommand, Bridge!Resume, Bridge!FinishTransport, Bridge!NextBeat,
       Bridge!Configure, Bridge!SetTimeout, Bridge!Handler, Bridge!IdleEdge,
       Bridge!DriveWrite, Bridge!DriveRead, Bridge!NoAck, Bridge!Acked, Bridge!CountEdge,
       Bridge!StrayPointer, Bridge!HandlerRuns, Bridge!Running, RAM!MasterReports
  <2> QED BY <2>1, <2>2 DEF ramOnly, RAM!Next, RAM!MasterEnds, RAM!vars, RAM!store
<1>2. CASE RAMRuns
  BY <1>2 DEF RAMRuns, RAM!Next
<1>3. CASE ClockEdge
  <2>1. m2s_next \in MasterOut
    BY ConstantFacts DEF Bridge!TypeOK
  <2> QED BY <1>3, <2>1 DEF ClockEdge, RAM!AnyEdge, RAM!Next
<1>4. CASE UNCHANGED vars
  BY <1>4 DEF vars, ramOnly, RAM!vars, RAM!store
<1> QED BY <1>1, <1>2, <1>3, <1>4 DEF Next, Stopped

\* What the two component proofs give.
Sides == Bridge!TypeOK /\ RAM!TypeOK /\ Bridge!Turns /\ RAM!AckIsPending

LEMMA SidesInit == Init => Sides
BY Bridge!TypeInit, RAM!RAMTypeInit, Bridge!TurnsInit, RAM!PendingInit, Assumptions
   DEF Init, Sides

LEMMA SidesStep ==
  ASSUME Sides, [Next]_vars PROVE Sides'
<1>1. [Bridge!Next]_(Bridge!vars)
  BY BridgeStep DEF Sides
<1>2. Bridge!TypeOK'
  BY <1>1, Bridge!TypeStep, Assumptions DEF Sides
<1>3. Bridge!Turns'
  BY <1>1, Bridge!TurnsStep, Assumptions DEF Sides
<1>4. [RAM!Next]_(RAM!vars)
  BY <1>2, RAMStep DEF Sides
<1>5. RAM!TypeOK'
  BY <1>4, RAM!RAMTypeStep, Assumptions DEF Sides
<1>6. RAM!AckIsPending'
  BY <1>4, RAM!PendingStep, Assumptions DEF Sides
<1> QED BY <1>2, <1>3, <1>5, <1>6 DEF Sides

LEMMA SidesAlways == Spec => []Sides
<1>1. Sides /\ [Next]_vars => Sides'
  BY SidesStep
<1> QED BY SidesInit, <1>1, PTL DEF Spec

\* The bridge in the system behaves as a TLM2WB with some slave, and the memory
\* as a WBRAM with some master: what is proved of each alone, the request held
\* until its acknowledge or the acknowledge seen once, holds in the system.
THEOREM SidesAsSpecified == Spec => Bridge!Spec /\ RAM!Spec
<1>1. Sides /\ Sides' /\ [Next]_vars => [Bridge!Next]_(Bridge!vars) /\ [RAM!Next]_(RAM!vars)
  BY BridgeStep, RAMStep DEF Sides
<1>2. Init => Bridge!Init /\ RAM!Init
  BY DEF Init
<1> QED BY <1>1, <1>2, SidesAlways, PTL DEF Spec, Bridge!Spec, RAM!Spec

-----------------------------------------------------------------------------
(* The timing of the two together *)

StepFacts == Sides /\ SystemInStep

LEMMA InStepInit == Init => SystemInStep
BY DEF Init, Bridge!Init, RAM!Init, SystemInStep, NothingPending, Strobe,
       Bridge!NoMasterOut, Bridge!NoSlaveOut, RAM!NoMasterOut, RAM!NoSlaveOut

\* The strobe of the next edge is up exactly while the bridge waits, and an
\* edge still to be handled has shown what was written before it.
LEMMA BusFacts ==
  ASSUME Sides
  PROVE  /\ state = "WAITING_FOR_ACK" <=> Strobe(m2s_next)
         /\ state = "IDLE" <=> \A t \in Threads : pc[t] # "waiting"
         /\ due => m2s = m2s_next
         /\ ram_due => s2m = s2m_next
         /\ due \in BOOLEAN /\ ram_due \in BOOLEAN /\ n_tran \in BOOLEAN
         /\ s2m.ack \in BOOLEAN /\ s2m_next.ack \in BOOLEAN
         /\ elapsed \in Nat /\ timeout \in Timeouts
BY DEF Sides, Bridge!Turns, Bridge!BusInStep, Bridge!Strobe, Strobe, RAM!AckIsPending,
       RAM!TypeOK, Bridge!TypeOK, RAM!SlaveOut

LEMMA InStepCall ==
  ASSUME StepFacts, Call PROVE SystemInStep'
<1>1. CASE report' # "none"
  BY <1>1 DEF SystemInStep
<1>2. CASE report' = "none"
  <2>1. PICK t \in Threads, req \in Requests : Bridge!BeginTransport(t, req)
    BY <1>2 DEF Call, Bridge!Call, Bridge!RejectCommand
  <2>2. state = "IDLE"
    BY <2>1, BusFacts DEF Bridge!BeginTransport, StepFacts
  <2>3. state' # "WAITING_FOR_ACK" /\ UNCHANGED <<m2s, m2s_next, s2m, due, elapsed, report>>
    BY <2>1 DEF Bridge!BeginTransport, Bridge!Executing, Bridge!wires
  <2> QED BY <2>2, <2>3 DEF Call, ramOnly, StepFacts, SystemInStep, NothingPending,
              FirstEdge, SecondEdge
<1> QED BY <1>1, <1>2

LEMMA InStepResume ==
  ASSUME StepFacts, Resume PROVE SystemInStep'
<1>1. PICK t \in Threads : Bridge!FinishTransport(t) \/ Bridge!NextBeat(t)
  BY DEF Resume, Bridge!Resume
<1>2. state = "IDLE" /\ report = "none"
  <2>1. pc[t] = "woken" /\ report = "none"
    BY <1>1 DEF Bridge!FinishTransport, Bridge!NextBeat, Bridge!Running
  <2>2. \A u \in Threads : pc[u] # "waiting"
    BY <2>1 DEF StepFacts, Sides, Bridge!Turns, Bridge!StreamInStep, Bridge!InFlight
  <2> QED BY <2>1, <2>2, BusFacts DEF StepFacts
<1>3. state' # "WAITING_FOR_ACK" /\ UNCHANGED <<m2s, m2s_next, s2m, due, elapsed, report>>
  BY <1>1, <1>2 DEF Bridge!FinishTransport, Bridge!NextBeat, Bridge!Executing, Bridge!wires
<1> QED BY <1>2, <1>3 DEF Resume, ramOnly, StepFacts, SystemInStep, NothingPending,
            FirstEdge, SecondEdge

LEMMA InStepBridge ==
  ASSUME StepFacts, BridgeRuns PROVE SystemInStep'
<1> USE BusFacts DEF StepFacts, SystemInStep
<1>1. report = "none" /\ due /\ ~due' /\ UNCHANGED <<m2s, s2m, ramOnly>>
  BY DEF BridgeRuns, Bridge!Handler, Bridge!IdleEdge, Bridge!DriveWrite, Bridge!DriveRead,
         Bridge!NoAck, Bridge!Acked, Bridge!StrayPointer, Bridge!HandlerRuns, Bridge!Running
<1>2. CASE state # "WAITING_FOR_ACK"
  <2>1. ~Strobe(m2s)
    BY <1>1, <1>2
  <2>2. state' = "WAITING_FOR_ACK" => elapsed' = 0
    BY <1>1, <1>2 DEF BridgeRuns, Bridge!Handler, Bridge!IdleEdge, Bridge!DriveWrite,
       Bridge!DriveRead, Bridge!NoAck, Bridge!Acked, Bridge!StrayPointer, Bridge!members
  <2> QED BY <1>1, <2>1, <2>2 DEF NothingPending, ramOnly
<1>3. CASE state = "WAITING_FOR_ACK" /\ ~s2m.ack
  <2>1. FirstEdge
    BY <1>1, <1>3
  <2>2. Bridge!NoAck
    BY <1>3 DEF BridgeRuns, Bridge!Handler, Bridge!IdleEdge, Bridge!DriveWrite,
       Bridge!DriveRead, Bridge!Acked, Bridge!StrayPointer
  <2> QED BY <1>1, <1>3, <2>1, <2>2 DEF Bridge!NoAck, Bridge!CountEdge, FirstEdge, ramOnly
<1>4. CASE state = "WAITING_FOR_ACK" /\ s2m.ack /\ report' = "none"
  <2>1. SecondEdge
    BY <1>1, <1>4
  <2> QED BY <1>1, <1>4, <2>1 DEF SecondEdge, ramOnly
<1>5. CASE report' # "none"
  BY <1>5
<1> QED BY <1>2, <1>3, <1>4, <1>5

LEMMA InStepRAM ==
  ASSUME StepFacts, RAMRuns PROVE SystemInStep'
<1> USE BusFacts DEF StepFacts, SystemInStep
<1>1. report = "none" /\ ram_due /\ ram_due' = FALSE /\ UNCHANGED <<m2s, s2m, bridgeOnly>>
  BY DEF RAMRuns, RAM!Handleop, RAM!NoStrobe, RAM!EndAccess, RAM!Write, RAM!Read,
         RAM!Abort, RAM!HandleopRuns
<1>2. CASE RAM!NoStrobe
  <2>1. ~Strobe(m2s) /\ ~s2m_next'.ack /\ n_tran' = n_tran
    BY <1>2 DEF RAM!NoStrobe, RAM!WithdrawAck, RAM!Strobe, Strobe, Sides, RAM!TypeOK,
                RAM!SlaveOut
  <2> QED BY <1>1, <2>1 DEF NothingPending, bridgeOnly
<1>3. CASE RAM!EndAccess
  <2>1. Strobe(m2s) /\ n_tran /\ n_tran' = FALSE /\ s2m_next'.ack = FALSE
    BY <1>3 DEF RAM!EndAccess, RAM!WithdrawAck, RAM!Strobe, Strobe, Sides, RAM!TypeOK,
                RAM!SlaveOut
  <2>2. s2m.ack /\ SecondEdge
    BY <1>1, <2>1 DEF FirstEdge
  <2> QED BY <1>1, <2>1, <2>2 DEF SecondEdge, bridgeOnly
<1>4. CASE RAM!Write \/ RAM!Read
  <2>1. Strobe(m2s) /\ ~n_tran /\ n_tran' /\ s2m_next'.ack
    BY <1>4 DEF RAM!Write, RAM!Read, RAM!Acknowledge, RAM!Strobe, Strobe
  <2>2. ~s2m.ack /\ FirstEdge
    BY <1>1, <2>1 DEF SecondEdge
  <2>3. n_tran' = TRUE /\ s2m_next'.ack = TRUE
    BY <1>4 DEF RAM!Write, RAM!Read, RAM!Acknowledge
  <2> QED BY <1>1, <2>1, <2>2, <2>3 DEF FirstEdge, bridgeOnly
<1>5. CASE RAM!Abort
  BY <1>5 DEF RAM!Abort
<1> QED BY <1>2, <1>3, <1>4, <1>5 DEF RAMRuns, RAM!Handleop

LEMMA InStepEdge ==
  ASSUME StepFacts, ClockEdge PROVE SystemInStep'
<1> USE BusFacts DEF StepFacts, SystemInStep
<1>1. /\ report = "none" /\ ~due /\ ~ram_due /\ due' = TRUE /\ ram_due' = TRUE
      /\ m2s' = m2s_next /\ s2m' = s2m_next
      /\ UNCHANGED <<state, elapsed, n_tran, m2s_next, s2m_next>>
  BY DEF ClockEdge, Bridge!ClockEdge, RAM!ClockEdge, Bridge!Running, Bridge!members,
         RAM!store
<1>2. CASE ~Strobe(m2s)
  BY <1>1, <1>2 DEF NothingPending, FirstEdge, Strobe
<1>3. CASE Strobe(m2s) /\ s2m.ack
  <2>1. ~Strobe(m2s_next)
    BY <1>1, <1>3 DEF Sides, Bridge!Turns, Bridge!BusInStep, Bridge!Running,
       Bridge!Strobe, Strobe
  <2> QED BY <1>1, <1>3, <2>1 DEF SecondEdge, NothingPending, Strobe
<1>4. CASE Strobe(m2s) /\ ~s2m.ack
  BY <1>1, <1>4 DEF FirstEdge, SecondEdge, Strobe
<1> QED BY <1>2, <1>3, <1>4

LEMMA InStepStep ==
  ASSUME StepFacts, [Next]_vars PROVE SystemInStep'
<1>1. CASE Configure
  BY <1>1 DEF Configure, Bridge!Configure, Bridge!SetTimeout, Bridge!wires, ramOnly,
     StepFacts, SystemInStep, NothingPending, FirstEdge, SecondEdge, Strobe
<1>2. CASE UNCHANGED vars
  BY <1>2 DEF vars, bridgeOnly, ramOnly, StepFacts, SystemInStep, NothingPending,
     FirstEdge, SecondEdge, Strobe
<1> QED BY <1>1, <1>2, InStepCall, InStepResume, InStepBridge, InStepRAM, InStepEdge
    DEF Next, Stopped

\* Bridge and memory never lose step: on the edge that shows the acknowledge
\* the memory ends its access, and without a strobe nothing is pending.
THEOREM StaysInStep == Spec => []SystemInStep
<1>1. Sides /\ SystemInStep /\ [Next]_vars => SystemInStep'
  BY InStepStep DEF StepFacts
<1> QED BY InStepInit, <1>1, SidesAlways, PTL DEF Spec

\* The first edge of a request is never mistaken for the second of an old one.
THEOREM NoAccessIsStale == Spec => []NoStaleAccess
<1>1. Sides /\ SystemInStep => NoStaleAccess
  BY BusFacts DEF NoStaleAccess, SystemInStep, NothingPending, FirstEdge, SecondEdge
<1> QED BY <1>1, SidesAlways, StaysInStep, PTL

\* The acknowledge of a WBRAM comes on the second edge the bridge waits: if
\* every timeout is above 2, none expires.
THEOREM TimeoutsNeverExpire == Spec => []NeverTimesOut
<1>1. Init => NeverTimesOut
  BY DEF Init, Bridge!Init, NeverTimesOut
<1>2. Sides /\ SystemInStep /\ NeverTimesOut /\ [Next]_vars => NeverTimesOut'
  <2> SUFFICES ASSUME Sides, SystemInStep, [Next]_vars, \A n \in Timeouts : n > 2,
                      report # "ack_timeout"
               PROVE  report' # "ack_timeout"
    BY DEF NeverTimesOut
  <2>1. CASE BridgeRuns
    <3>1. CASE Bridge!NoAck \/ Bridge!Acked
      <4>1. report = "none" /\ due /\ state = "WAITING_FOR_ACK"
        BY <3>1 DEF Bridge!NoAck, Bridge!Acked, Bridge!HandlerRuns, Bridge!Running
      <4>2. elapsed \in Nat /\ elapsed <= 1
        BY <4>1, BusFacts DEF SystemInStep, FirstEdge, SecondEdge
      <4>3. timeout > 2 /\ timeout \in Nat
        BY BusFacts, SystemAssumption
      <4>4. ~Bridge!TimedOut
        BY <4>2, <4>3 DEF Bridge!TimedOut
      <4> QED BY <3>1, <4>1, <4>4 DEF Bridge!NoAck, Bridge!Acked, Bridge!CountEdge
    <3> QED BY <2>1, <3>1 DEF BridgeRuns, Bridge!Handler, Bridge!IdleEdge,
                Bridge!DriveWrite, Bridge!DriveRead, Bridge!StrayPointer
  <2>2. CASE Call
    BY <2>2 DEF Call, Bridge!Call, Bridge!BeginTransport, Bridge!RejectCommand
  <2>3. CASE RAMRuns
    BY <2>3 DEF RAMRuns, RAM!Handleop, RAM!NoStrobe, RAM!EndAccess, RAM!Write, RAM!Read,
       RAM!Abort
  <2>4. CASE Resume \/ Configure \/ ClockEdge \/ UNCHANGED vars
    BY <2>4 DEF Resume, Bridge!Resume, Bridge!FinishTransport, Bridge!NextBeat, Configure,
       Bridge!Configure, Bridge!SetTimeout, ClockEdge, Bridge!ClockEdge, vars
  <2> QED BY <2>1, <2>2, <2>3, <2>4 DEF Next, Stopped
<1> QED BY <1>1, <1>2, SidesAlways, StaysInStep, PTL DEF Spec

-----------------------------------------------------------------------------
(* The data on the bus, and the refinement of BlockingTransport *)

\* The timing says when the bridge and the memory act, not on which word.
\* While a call t is in flight, its address and the offset in its buffer are
\* those of the same beat, and the handler works on the command it asked for.
\* From the edge that drives the bus to the acknowledge, the request is the one
\* of that beat, and a word read that an acknowledge shows is still the word in
\* the memory.
OnTheBus(t) ==
  /\ wnr <=> trans[t].cmd = "WRITE"
  /\ m2s_next.we = wnr /\ m2s_next.adr = adr
  /\ wnr => m2s_next.dat = Bridge!BusWord /\ m2s_next.sel = Bridge!ByteEnables
  /\ n_tran \/ s2m.ack \/ s2m_next.ack => adr <= mem_size
  /\ ~wnr /\ s2m.ack => s2m.dat = RAM!retrieve_word(adr)
  /\ ~wnr /\ s2m_next.ack => s2m_next.dat = RAM!retrieve_word(adr)

BeatInStep(t) ==
  /\ trans[t].cmd \in {"READ", "WRITE"}
  /\ ptr.off % DWIDTH_BYTES = 0
  /\ adr = trans[t].addr \div DWIDTH_BYTES + ptr.off
  /\ state \in {"IDLE", "WAITING_FOR_ACK", Bridge!Executing(trans[t])}
  /\ state = "WAITING_FOR_ACK" => OnTheBus(t)

DataInStep ==
  report = "none" => \A t \in Calling : BeatInStep(t)

USE DEF DWIDTH_BYTES, Bridge!DWIDTH_BYTES, RAM!DWIDTH_BYTES, Lane, Bridge!Lane, RAM!Lane

\* The caller that is served, and what is left of its stream.
LEMMA OwnerFacts ==
  ASSUME Sides, NEW t \in Calling
  PROVE  /\ t \in Threads /\ pc[t] # "idle" /\ Calling = {t}
         /\ ptr.own = t /\ ptr.off \in Nat /\ adr \in Nat
         /\ len = 4 /\ wid \in Nat /\ wid >= 4 /\ byt = trans[t].masked
         /\ trans[t] \in Bridge!Payload
         /\ ptr.off + wid = Bridge!BufferSize(trans[t])
<1>1. t \in Threads /\ pc[t] # "idle"
  BY DEF Calling
<1>2. \A u \in Threads : pc[u] # "idle" => u = t
  BY <1>1 DEF Sides, Bridge!Turns, Bridge!StreamInStep, Bridge!InFlight
<1>3. Calling = {t}
  BY <1>1, <1>2 DEF Calling
<1>4. /\ ptr.own = t /\ len = 4 /\ byt = trans[t].masked /\ wid > 0 /\ wid % 4 = 0
      /\ ptr.off + wid = Bridge!BufferSize(trans[t])
  BY <1>1 DEF Sides, Bridge!Turns, Bridge!StreamInStep, Bridge!InFlight
<1>5. ptr.off \in Nat /\ adr \in Nat /\ wid \in Nat /\ trans[t] \in Bridge!Payload
  BY <1>1, SystemAssumption DEF Sides, Bridge!TypeOK, Bridge!Payload
<1>6. wid >= 4
  BY <1>4, <1>5
<1> QED
  BY <1>1, <1>3, <1>4, <1>5, <1>6

DataFacts == Sides /\ SystemInStep /\ DataInStep

LEMMA DataInit == Init => DataInStep
BY DEF Init, Bridge!Init, DataInStep, Calling

\* A call starts with its first word; a rejected one ends the simulation.
LEMMA DataCall ==
  ASSUME DataFacts, Call PROVE DataInStep'
<1>1. CASE report' # "none"
  BY <1>1 DEF DataInStep
<1>2. CASE report' = "none"
  <2>1. PICK t \in Threads, req \in Requests : Bridge!BeginTransport(t, req)
    BY <1>2 DEF Call, Bridge!Call, Bridge!RejectCommand
  <2>2. Calling' = {t}
    BY <2>1 DEF Bridge!BeginTransport, Calling, DataFacts, Sides, Bridge!TypeOK
  <2>3. trans'[t] = req /\ ptr'.off = 0 /\ adr' = req.addr \div 4
    BY <2>1 DEF Bridge!BeginTransport, DataFacts, Sides, Bridge!TypeOK
  <2>4. req.cmd \in {"READ", "WRITE"} /\ req.addr \in Nat
    BY <2>1, SystemAssumption DEF Bridge!BeginTransport, Bridge!SupportedRequest, Bridge!Commands
  <2>5. state' = Bridge!Executing(req) /\ state' # "WAITING_FOR_ACK"
    BY <2>1 DEF Bridge!BeginTransport, Bridge!Executing
  <2>6. BeatInStep(t)'
    BY <2>3, <2>4, <2>5 DEF BeatInStep, Bridge!Executing
  <2> QED
    BY <2>2, <2>6 DEF DataInStep
<1> QED
  BY <1>1, <1>2

\* The next word of a stream is one word further in the buffer and in the
\* addresses; a caller that returns is served no more.
LEMMA DataResume ==
  ASSUME DataFacts, Resume PROVE DataInStep'
<1>1. PICK t \in Threads : Bridge!FinishTransport(t) \/ Bridge!NextBeat(t)
  BY DEF Resume, Bridge!Resume
<1>2. report = "none" /\ t \in Calling
  BY <1>1 DEF Bridge!FinishTransport, Bridge!NextBeat, Bridge!Running, Calling
<1>3. Calling = {t} /\ ptr.own = t /\ ptr.off \in Nat /\ len = 4
  BY <1>2, OwnerFacts DEF DataFacts
<1>4. BeatInStep(t)
  BY <1>2 DEF DataFacts, DataInStep
<1>5. CASE Bridge!FinishTransport(t)
  <2>1. Calling' = {}
    BY <1>3, <1>5 DEF Bridge!FinishTransport, Calling, DataFacts, Sides, Bridge!TypeOK
  <2> QED
    BY <2>1 DEF DataInStep
<1>6. CASE Bridge!NextBeat(t)
  <2>1. Calling' = {t}
    BY <1>3, <1>6 DEF Bridge!NextBeat, Calling, DataFacts, Sides, Bridge!TypeOK
  <2>2. trans' = trans /\ ptr'.off = ptr.off + 4 /\ adr' = adr + 4
    BY <1>3, <1>6 DEF Bridge!NextBeat, DataFacts, Sides, Bridge!TypeOK
  <2>3. state' = Bridge!Executing(trans[t]) /\ state' # "WAITING_FOR_ACK"
    BY <1>6 DEF Bridge!NextBeat, Bridge!Executing
  <2>4. trans[t].addr \div 4 \in Int
    BY <1>2, OwnerFacts, Bridge!PayloadFacts, Assumptions DEF DataFacts
  <2>5. BeatInStep(t)'
    BY <1>3, <1>4, <2>2, <2>3, <2>4 DEF BeatInStep, Bridge!Executing
  <2> QED
    BY <2>1, <2>5 DEF DataInStep
<1> QED
  BY <1>1, <1>5, <1>6
\* What the handler puts on the bus is the caller's word and byte enables, and
\* no acknowledge is left over from before.
LEMMA DataBridge ==
  ASSUME DataFacts, BridgeRuns PROVE DataInStep'
<1> SUFFICES ASSUME report' = "none", NEW t \in Calling' PROVE BeatInStep(t)'
  BY DEF DataInStep
<1>1. /\ report = "none" /\ due /\ ~Bridge!StrayPointer
      /\ UNCHANGED <<adr, ptr, byt, trans, s2m, memory, n_tran, s2m_next>>
  BY DEF BridgeRuns, Bridge!Handler, Bridge!IdleEdge, Bridge!DriveWrite, Bridge!DriveRead,
         Bridge!NoAck, Bridge!Acked, Bridge!StrayPointer, Bridge!HandlerRuns, Bridge!Running,
         Bridge!members, Bridge!callers, ramOnly
<1>2. t \in Calling
  BY <1>1 DEF BridgeRuns, Bridge!Handler, Bridge!IdleEdge, Bridge!DriveWrite,
         Bridge!DriveRead, Bridge!NoAck, Bridge!Acked, Bridge!Notify, Bridge!callers,
         Calling, DataFacts, Sides, Bridge!TypeOK
<1>3. BeatInStep(t) /\ ptr.own = t
  BY <1>1, <1>2, OwnerFacts DEF DataFacts, DataInStep
<1>4. CASE Bridge!IdleEdge
  <2>1. state' = state /\ state # "WAITING_FOR_ACK"
    BY <1>4 DEF Bridge!IdleEdge, Bridge!members
  <2> QED
    BY <1>1, <1>3, <2>1 DEF BeatInStep, Bridge!Executing
<1>5. CASE Bridge!DriveWrite \/ Bridge!DriveRead
  <2>1. ~n_tran /\ ~s2m.ack /\ ~s2m_next.ack
    <3>1. ~Strobe(m2s)
      BY <1>1, <1>5, BusFacts DEF DataFacts, Bridge!DriveWrite, Bridge!DriveRead
    <3> QED
      BY <1>1, <3>1 DEF DataFacts, SystemInStep, NothingPending
  <2>2. state' = "WAITING_FOR_ACK" /\ buf' = buf
    BY <1>5 DEF Bridge!DriveWrite, Bridge!DriveRead, Bridge!callers
  <2>3. CASE Bridge!DriveWrite
    <3>1. trans[t].cmd = "WRITE"
      BY <1>3, <2>3 DEF Bridge!DriveWrite, BeatInStep, Bridge!Executing
    <3>2. /\ wnr' = TRUE /\ m2s_next'.we = TRUE /\ m2s_next'.adr = adr
          /\ m2s_next'.dat = Bridge!BusWord /\ m2s_next'.sel = Bridge!ByteEnables
      BY <2>3 DEF Bridge!DriveWrite
    <3>3. Bridge!BusWord' = Bridge!BusWord /\ Bridge!ByteEnables' = Bridge!ByteEnables
      BY <1>1, <2>2 DEF Bridge!BusWord, Bridge!ByteEnables, Bridge!BytePos
    <3>4. OnTheBus(t)'
      BY <1>1, <2>1, <3>1, <3>2, <3>3 DEF OnTheBus
    <3> QED
      BY <1>1, <1>3, <2>2, <3>4 DEF BeatInStep
  <2>4. CASE Bridge!DriveRead
    <3>1. trans[t].cmd = "READ"
      BY <1>3, <2>4 DEF Bridge!DriveRead, BeatInStep, Bridge!Executing
    <3>2. wnr' = FALSE /\ m2s_next'.we = FALSE /\ m2s_next'.adr = adr
      BY <2>4 DEF Bridge!DriveRead, DataFacts, Sides, Bridge!TypeOK, Bridge!MasterOut
    <3>3. OnTheBus(t)'
      BY <1>1, <2>1, <3>1, <3>2 DEF OnTheBus
    <3> QED
      BY <1>1, <1>3, <2>2, <3>3 DEF BeatInStep
  <2> QED
    BY <1>5, <2>3, <2>4
<1>6. CASE Bridge!NoAck
  <2>1. UNCHANGED <<state, wnr, m2s_next, buf>>
    BY <1>6 DEF Bridge!NoAck, Bridge!callers
  <2> QED
    BY <1>1, <1>3, <2>1 DEF BeatInStep, OnTheBus, Bridge!Executing, Bridge!BusWord,
       Bridge!ByteEnables, Bridge!BytePos, RAM!retrieve_word
<1>7. CASE Bridge!Acked
  <2>1. state' = "IDLE"
    BY <1>7 DEF Bridge!Acked
  <2> QED
    BY <1>1, <1>3, <2>1 DEF BeatInStep
<1> QED
  BY <1>1, <1>4, <1>5, <1>6, <1>7 DEF BridgeRuns, Bridge!Handler

\* The access of the memory falls on the first edge the bridge waits: it takes
\* the request the bridge still drives, and a read leaves the memory as it is.
LEMMA AccessOnFirstEdge ==
  ASSUME DataFacts, RAM!Write \/ RAM!Read \/ RAM!Abort
  PROVE  /\ report = "none" /\ state = "WAITING_FOR_ACK" /\ m2s_next = m2s
         /\ ~n_tran /\ ~s2m.ack
<1>1. report = "none" /\ ram_due /\ Strobe(m2s) /\ ~n_tran
  BY DEF RAM!Write, RAM!Read, RAM!Abort, RAM!HandleopRuns, RAM!Strobe, Strobe
<1>2. FirstEdge /\ ~s2m.ack
  BY <1>1 DEF DataFacts, SystemInStep, SecondEdge
<1> QED
  BY <1>1, <1>2 DEF FirstEdge

LEMMA AccessInBound ==
  ASSUME Sides PROVE ~RAM!OutOfBound(m2s.adr) <=> m2s.adr <= mem_size
BY SystemAssumption DEF Sides, RAM!TypeOK, RAM!MasterOut, RAM!OutOfBound

LEMMA DataRAM ==
  ASSUME DataFacts, RAMRuns PROVE DataInStep'
<1> SUFFICES ASSUME report' = "none", NEW t \in Calling' PROVE BeatInStep(t)'
  BY DEF DataInStep
<1>1. report = "none" /\ UNCHANGED <<bridgeOnly, s2m>>
  BY DEF RAMRuns, RAM!Handleop, RAM!NoStrobe, RAM!EndAccess, RAM!Write, RAM!Read,
         RAM!Abort, RAM!HandleopRuns
<1>2. t \in Calling /\ BeatInStep(t)
  BY <1>1 DEF bridgeOnly, Calling, DataFacts, DataInStep
<1>3. Bridge!BusWord' = Bridge!BusWord /\ Bridge!ByteEnables' = Bridge!ByteEnables
  BY <1>1 DEF bridgeOnly, Bridge!BusWord, Bridge!ByteEnables, Bridge!BytePos
<1>4. OnTheBus(t)' \/ state # "WAITING_FOR_ACK" => BeatInStep(t)'
  BY <1>1, <1>2 DEF bridgeOnly, BeatInStep, Bridge!Executing
<1>5. CASE RAM!NoStrobe \/ RAM!EndAccess
  <2>1. memory' = memory /\ s2m_next'.ack = FALSE /\ (n_tran' => n_tran)
    BY <1>5 DEF RAM!NoStrobe, RAM!EndAccess, RAM!WithdrawAck, RAM!NoAccess, DataFacts,
       Sides, RAM!TypeOK, RAM!SlaveOut
  <2> QED
    BY <1>1, <1>2, <1>3, <1>4, <2>1 DEF bridgeOnly, BeatInStep, OnTheBus, RAM!retrieve_word
<1>6. CASE RAM!Write
  <2>1. state = "WAITING_FOR_ACK" /\ m2s = m2s_next /\ m2s.we /\ ~RAM!OutOfBound(m2s.adr)
    BY <1>6, AccessOnFirstEdge DEF RAM!Write
  <2>2. wnr /\ adr <= mem_size
    BY <1>2, <2>1, AccessInBound DEF DataFacts, BeatInStep, OnTheBus
  <2> QED
    BY <1>1, <1>2, <1>3, <1>4, <2>1, <2>2 DEF bridgeOnly, BeatInStep, OnTheBus
<1>7. CASE RAM!Read
  <2>1. /\ state = "WAITING_FOR_ACK" /\ m2s = m2s_next /\ ~s2m.ack
        /\ ~RAM!OutOfBound(m2s.adr)
    BY <1>7, AccessOnFirstEdge DEF RAM!Read
  <2>2. m2s.adr = adr /\ adr <= mem_size
    BY <1>2, <2>1, AccessInBound DEF DataFacts, BeatInStep, OnTheBus
  <2>3. memory' = memory /\ s2m_next'.dat = RAM!retrieve_word(adr)
    BY <1>7, <2>2 DEF RAM!Read, RAM!Acknowledge
  <2> QED
    BY <1>1, <1>2, <1>3, <1>4, <2>1, <2>2, <2>3 DEF bridgeOnly, BeatInStep, OnTheBus,
       RAM!retrieve_word
<1>8. CASE RAM!Abort
  BY <1>8 DEF RAM!Abort
<1> QED
  BY <1>5, <1>6, <1>7, <1>8 DEF RAMRuns, RAM!Handleop

LEMMA DataStep ==
  ASSUME DataFacts, [Next]_vars PROVE DataInStep'
<1>1. CASE Configure \/ UNCHANGED vars
  <2>1. UNCHANGED <<state, adr, ptr, byt, wnr, pc, trans, buf, m2s_next, s2m, s2m_next,
                    memory, n_tran, report>>
    BY <1>1 DEF Configure, Bridge!Configure, Bridge!SetTimeout, Bridge!wires,
       Bridge!callers, vars, bridgeOnly, ramOnly
  <2> QED
    BY <2>1 DEF DataFacts, DataInStep, Calling, BeatInStep, OnTheBus, Bridge!Executing,
       Bridge!BusWord, Bridge!ByteEnables, Bridge!BytePos, RAM!retrieve_word
<1>2. CASE ClockEdge
  <2>1. /\ UNCHANGED <<state, adr, ptr, byt, wnr, pc, trans, buf, m2s_next, s2m_next,
                       memory, n_tran, report>>
        /\ s2m' = s2m_next
    BY <1>2 DEF ClockEdge, Bridge!ClockEdge, RAM!ClockEdge, Bridge!members,
       Bridge!callers, RAM!store
  <2> QED
    BY <2>1 DEF DataFacts, DataInStep, Calling, BeatInStep, OnTheBus, Bridge!Executing,
       Bridge!BusWord, Bridge!ByteEnables, Bridge!BytePos, RAM!retrieve_word
<1> QED
  BY <1>1, <1>2, DataCall, DataResume, DataBridge, DataRAM DEF Next, Stopped

\* Address, command and data of a transfer agree from the caller through the
\* bus to the memory, for every stream and in whichever order the two processes
\* run on an edge.
THEOREM DataStaysInStep == Spec => []DataInStep
<1>1. Sides /\ SystemInStep /\ DataInStep /\ [Next]_vars => DataInStep'
  BY DataStep DEF DataFacts
<1> QED
  BY DataInit, <1>1, SidesAlways, StaysInStep, PTL DEF Spec
-----------------------------------------------------------------------------
(* The refinement of BlockingTransport. *)

USE DEF Transport!DWIDTH_BYTES, Transport!Lane

\* The offset in the buffer and the word of the stream it lies in.
LEMMA BeatArithmetic ==
  ASSUME NEW o \in Nat, o % 4 = 0
  PROVE  /\ o \div 4 \in Nat /\ (o \div 4) * 4 = o /\ 4 * (o \div 4) = o
         /\ (o + 4) \div 4 = o \div 4 + 1
         /\ \A b \in Nat : b \div 4 = o \div 4 <=> b \in o .. o + 3
         /\ \A b \in o .. o + 3 : b % 4 = b - o
<1>1. o \div 4 \in Nat /\ (o \div 4) * 4 = o
  OBVIOUS
<1>2. (o + 4) \div 4 = o \div 4 + 1
  OBVIOUS
<1>3. \A b \in Nat : b \div 4 = o \div 4 <=> b \in o .. o + 3
  OBVIOUS
<1>4. \A b \in o .. o + 3 : b % 4 = b - o
  OBVIOUS
<1> QED
  BY <1>1, <1>2, <1>3, <1>4

\* The abstract call is at the word the bridge is at, one further once that
\* word is transferred, and never past the end of the stream.
LEMMA CallFacts ==
  ASSUME DataFacts, report = "none", NEW t \in Calling
  PROVE  /\ BeatsDone = ptr.off \div 4 + (IF BeatDone(t) THEN 1 ELSE 0)
         /\ ptr.off \div 4 \in Nat /\ ptr.off \div 4 < Transport!Beats(trans[t])
         /\ wid = 4 <=> ptr.off \div 4 + 1 = Transport!Beats(trans[t])
         /\ ~BeatDone(t) =>
              /\ BeatsDone = ptr.off \div 4
              /\ Transport!Address(trans[t]) = adr
              /\ \A i \in Lane : Transport!BufferByte(i) = Bridge!BytePos(i)
<1>1. /\ t \in Threads /\ pc[t] # "idle" /\ ptr.own = t /\ ptr.off \in Nat
      /\ wid \in Nat /\ wid >= 4 /\ trans[t] \in Bridge!Payload
      /\ ptr.off + wid = Bridge!BufferSize(trans[t])
  BY OwnerFacts DEF DataFacts
<1>2. ptr.off % 4 = 0 /\ adr = trans[t].addr \div 4 + ptr.off
  BY DEF DataFacts, DataInStep, BeatInStep
<1>3. BeatsDone = ptr.off \div 4 + (IF BeatDone(t) THEN 1 ELSE 0)
  BY <1>1 DEF BeatsDone
<1>4. ptr.off \div 4 \in Nat /\ 4 * (ptr.off \div 4) = ptr.off /\ (ptr.off \div 4) * 4 = ptr.off
  BY <1>1, <1>2, BeatArithmetic
<1>5. /\ Transport!Width(trans[t]) = Bridge!BufferSize(trans[t])
      /\ Bridge!BufferSize(trans[t]) % 4 = 0 /\ Bridge!BufferSize(trans[t]) \in Nat
      /\ trans[t].addr \in Nat
  BY <1>1, Bridge!PayloadFacts, Assumptions DEF Transport!Width, Bridge!EffectiveWidth
<1> DEFINE size == Bridge!BufferSize(trans[t])
<1>6. Transport!Beats(trans[t]) = size \div 4 /\ size = ptr.off + wid /\ size % 4 = 0
  BY <1>1, <1>5 DEF Transport!Beats
<1> HIDE DEF size
<1>7. ptr.off \div 4 < Transport!Beats(trans[t])
  BY <1>1, <1>2, <1>6
<1>8. wid = 4 <=> ptr.off \div 4 + 1 = Transport!Beats(trans[t])
  BY <1>1, <1>2, <1>6
<1>9. ASSUME ~BeatDone(t)
      PROVE  /\ BeatsDone = ptr.off \div 4
             /\ Transport!Address(trans[t]) = adr
             /\ \A i \in Lane : Transport!BufferByte(i) = Bridge!BytePos(i)
  <2>1. BeatsDone = ptr.off \div 4
    BY <1>3, <1>4, <1>9
  <2> QED
    BY <1>1, <1>2, <1>4, <1>5, <2>1
       DEF Transport!Address, Transport!BufferByte, Bridge!BytePos
<1> QED
  BY <1>3, <1>4, <1>7, <1>8, <1>9

\* Two states that agree on these have the same image.
LEMMA Stutters ==
  ASSUME UNCHANGED <<memory, pc, trans, buf, resp, db_wr_ops, report>>,
         BeatsDone' = BeatsDone, ReadsDone' = ReadsDone
  PROVE  UNCHANGED Transport!vars
BY DEF Transport!vars, Mem, Calling, Failed, RAM!retrieve_word

LEMMA InitImplements == Init => Transport!Init
<1> SUFFICES ASSUME Init PROVE Transport!Init
  OBVIOUS
<1>1. Mem = [a \in 0 .. mem_size |-> OnesWord]
  BY DEF Init, RAM!Init, Mem, RAM!retrieve_word, RAM!OnesWord, OnesWord
<1>2. Calling = {} /\ BeatsDone = 0
  BY DEF Init, Bridge!Init, Calling, BeatsDone
<1>3. ReadsDone = 0 /\ db_wr_ops = 0 /\ ~Failed
  BY DEF Init, Bridge!Init, RAM!Init, ReadsDone, Accessed, Failed
<1>4. Bridge!NoRequest = Transport!NoRequest /\ Bridge!NoRequest.data = Transport!NoData
  BY DEF Bridge!NoRequest, Transport!NoRequest, Transport!NoData, Bridge!ZeroWord
<1> QED
  BY <1>1, <1>2, <1>3, <1>4
     DEF Init, Bridge!Init, Transport!Init, Transport!OnesWord, OnesWord, Failed

\* A call that begins is a call at its first word; one that is rejected fails.
LEMMA CallImplements ==
  ASSUME DataFacts, Call PROVE Transport!Next
<1>1. PICK t \in Threads, req \in Requests :
        Bridge!BeginTransport(t, req) \/ Bridge!RejectCommand(t, req)
  BY DEF Call, Bridge!Call
<1>2. report = "none" /\ Calling = {} /\ state = "IDLE" /\ BeatsDone = 0
  <2>1. report = "none" /\ \A u \in Threads : pc[u] = "idle"
    BY <1>1 DEF Bridge!BeginTransport, Bridge!RejectCommand, Bridge!Running
  <2> QED
    BY <2>1, BusFacts DEF DataFacts, Calling, BeatsDone
<1>3. UNCHANGED <<memory, db_wr_ops, db_rd_ops, n_tran, s2m>>
  BY <1>1 DEF Call, ramOnly, Bridge!BeginTransport, Bridge!RejectCommand, Bridge!wires
<1>4. Mem' = Mem
  BY <1>3 DEF Mem, RAM!retrieve_word
<1>5. CASE Bridge!BeginTransport(t, req)
  <2>1. Calling' = {t}
    BY <1>5 DEF Bridge!BeginTransport, Calling, DataFacts, Sides, Bridge!TypeOK
  <2>2. state' # "WAITING_FOR_ACK" /\ pc'[t] = "waiting" /\ ptr' = [own |-> t, off |-> 0]
    BY <1>5 DEF Bridge!BeginTransport, Bridge!Executing, DataFacts, Sides, Bridge!TypeOK
  <2>3. BeatsDone' = 0
    <3>1. ~BeatDone(t)'
      BY <2>2 DEF BeatDone, Accessed
    <3> QED
      BY <2>2, <3>1 DEF BeatsDone
  <2>4. ReadsDone' = ReadsDone
    BY <1>2, <1>3, <2>2 DEF ReadsDone, Accessed
  <2>5. Failed' = Failed /\ ~Failed
    BY <1>2, <1>5 DEF Bridge!BeginTransport, Failed
  <2>6. Transport!Call(t, req)
    BY <1>2, <1>3, <1>4, <1>5, <2>1, <2>3, <2>4, <2>5
       DEF Transport!Call, Bridge!BeginTransport
  <2> QED
    BY <2>6 DEF Transport!Next
<1>6. CASE Bridge!RejectCommand(t, req)
  <2>1. UNCHANGED <<pc, ptr, wnr, state, trans, buf, resp>> /\ report' # "none"
    BY <1>6 DEF Bridge!RejectCommand, Bridge!members, Bridge!callers
  <2>2. UNCHANGED <<Calling, BeatsDone, ReadsDone>>
    BY <1>3, <2>1 DEF Calling, BeatsDone, BeatDone, ReadsDone, Accessed
  <2>3. ~Failed /\ Failed' = TRUE
    BY <1>2, <2>1 DEF Failed
  <2>4. Transport!Fail
    BY <1>2, <1>3, <1>4, <1>6, <2>1, <2>2, <2>3 DEF Transport!Fail, Bridge!RejectCommand
  <2> QED
    BY <2>4 DEF Transport!Next
<1> QED
  BY <1>1, <1>5, <1>6

\* A counter stepped back and forth again, modulo m.
LEMMA RoundTrip ==
  ASSUME NEW m \in Nat, m > 0, NEW n \in 0 .. m - 1
  PROVE  /\ (((n + m - 1) % m) + 1) % m = n
         /\ (((n + 1) % m) + m - 1) % m = n
<1>1. CASE n = 0
  <2>1. (n + m - 1) % m = m - 1 /\ m % m = 0
    BY <1>1
  <2>2. CASE m = 1
    BY <1>1, <2>2
  <2>3. CASE m > 1
    <3>1. 1 % m = 1 /\ (1 + m - 1) % m = 0
      BY <2>3
    <3> QED
      BY <1>1, <2>1, <3>1
  <2> QED
    BY <2>2, <2>3
<1>2. CASE n > 0
  <2>1. (n + m - 1) % m = n - 1 /\ (n - 1 + 1) % m = n
    BY <1>2
  <2>2. CASE n = m - 1
    <3>1. (n + 1) % m = 0 /\ (0 + m - 1) % m = m - 1
      BY <2>2
    <3> QED
      BY <2>1, <2>2, <3>1
  <2>3. CASE n < m - 1
    <3>1. (n + 1) % m = n + 1 /\ (n + 1 + m - 1) % m = n
      BY <2>3
    <3> QED
      BY <2>1, <3>1
  <2> QED
    BY <2>2, <2>3
<1> QED
  BY <1>1, <1>2

\* A caller that returns has had every word of its stream; one that asks for
\* the next has had as many as before.
LEMMA ResumeImplements ==
  ASSUME DataFacts, Resume PROVE [Transport!Next]_(Transport!vars)
<1>1. PICK t \in Threads : Bridge!FinishTransport(t) \/ Bridge!NextBeat(t)
  BY DEF Resume, Bridge!Resume
<1>2. report = "none" /\ pc[t] = "woken" /\ t \in Calling
  BY <1>1 DEF Bridge!FinishTransport, Bridge!NextBeat, Bridge!Running, Calling
<1>3. /\ Calling = {t} /\ ptr.own = t /\ ptr.off \in Nat /\ len = 4
      /\ wid \in Nat /\ wid >= 4 /\ ptr.off % 4 = 0
  BY <1>2, OwnerFacts DEF DataFacts, DataInStep, BeatInStep
<1>4. state = "IDLE"
  <2>1. \A u \in Threads : pc[u] # "waiting"
    BY <1>2, <1>3 DEF Calling
  <2> QED
    BY <2>1, BusFacts DEF DataFacts
<1>5. BeatsDone = ptr.off \div 4 + 1
  BY <1>2, CallFacts DEF BeatDone
<1>6. /\ UNCHANGED <<memory, db_wr_ops, db_rd_ops, n_tran, s2m, wnr, trans, buf, report>>
      /\ state' # "WAITING_FOR_ACK"
  BY <1>1, <1>4 DEF Resume, ramOnly, Bridge!FinishTransport, Bridge!NextBeat, Bridge!wires,
     Bridge!Executing
<1>7. ReadsDone' = ReadsDone /\ Mem' = Mem /\ Failed' = Failed /\ ~Failed
  BY <1>2, <1>4, <1>6 DEF ReadsDone, Accessed, Mem, RAM!retrieve_word, Failed
<1>8. CASE Bridge!FinishTransport(t)
  <2>1. Calling' = {} /\ BeatsDone' = 0
    BY <1>3, <1>8 DEF Bridge!FinishTransport, Calling, BeatsDone, DataFacts, Sides,
       Bridge!TypeOK
  <2>2. wid = 4
    BY <1>3, <1>8, SystemAssumption DEF Bridge!FinishTransport, Bridge!Remaining
  <2>3. BeatsDone = Transport!Beats(trans[t])
    BY <1>2, <1>5, <2>2, CallFacts
  <2>4. Transport!Return(t)
    BY <1>2, <1>6, <1>7, <1>8, <2>1, <2>3 DEF Transport!Return, Bridge!FinishTransport
  <2> QED
    BY <2>4 DEF Transport!Next, Transport!Serve
<1>9. CASE Bridge!NextBeat(t)
  <2>1. /\ pc'[t] = "waiting" /\ ptr' = [own |-> t, off |-> ptr.off + 4]
        /\ Calling' = Calling /\ resp' = resp
    BY <1>3, <1>9 DEF Bridge!NextBeat, Calling, DataFacts, Sides, Bridge!TypeOK
  <2>2. ~BeatDone(t)'
    BY <1>6, <2>1 DEF BeatDone, Accessed
  <2>3. BeatsDone' = (ptr.off + 4) \div 4
    <3>1. (ptr.off + 4) \div 4 \in Int
      BY <1>3
    <3> QED
      BY <2>1, <2>2, <3>1 DEF BeatsDone
  <2>4. BeatsDone' = BeatsDone
    BY <1>3, <1>5, <2>3, BeatArithmetic
  <2> QED
    BY <1>6, <1>7, <2>1, <2>4 DEF Transport!vars
<1> QED
  BY <1>1, <1>8, <1>9

\* Of what the handler does, only taking a word read is seen: it stores in the
\* caller's buffer the bytes of the word the call is at.
LEMMA BridgeImplements ==
  ASSUME DataFacts, BridgeRuns, report' = "none"
  PROVE  [Transport!Next]_(Transport!vars)
<1>1. /\ report = "none" /\ due /\ m2s = m2s_next /\ ~Bridge!StrayPointer
      /\ UNCHANGED <<ptr, trans, resp, s2m, memory, n_tran, db_wr_ops, db_rd_ops>>
  BY BusFacts DEF DataFacts, BridgeRuns, Bridge!Handler, Bridge!IdleEdge, Bridge!DriveWrite,
         Bridge!DriveRead, Bridge!NoAck, Bridge!Acked, Bridge!StrayPointer,
         Bridge!HandlerRuns, Bridge!Running, Bridge!members, Bridge!callers, ramOnly
<1>2. CASE Bridge!IdleEdge \/ Bridge!NoAck
  <2>1. UNCHANGED <<state, wnr, pc, buf>>
    BY <1>2 DEF Bridge!IdleEdge, Bridge!NoAck, Bridge!members, Bridge!callers
  <2>2. BeatsDone' = BeatsDone /\ ReadsDone' = ReadsDone
    BY <1>1, <2>1 DEF BeatsDone, BeatDone, ReadsDone, Accessed
  <2> QED
    BY <1>1, <2>1, <2>2, Stutters
<1>3. CASE Bridge!DriveWrite \/ Bridge!DriveRead
  <2>1. state # "WAITING_FOR_ACK" /\ pc' = pc /\ buf' = buf
    BY <1>3 DEF Bridge!DriveWrite, Bridge!DriveRead, Bridge!callers
  <2>2. ~n_tran /\ ~s2m.ack
    <3>1. ~Strobe(m2s)
      BY <1>1, <2>1, BusFacts DEF DataFacts
    <3> QED
      BY <1>1, <3>1 DEF DataFacts, SystemInStep, NothingPending
  <2>3. ~Accessed /\ ~Accessed'
    BY <1>1, <2>1, <2>2 DEF Accessed
  <2>4. BeatsDone' = BeatsDone /\ ReadsDone' = ReadsDone
    BY <1>1, <2>1, <2>3 DEF BeatsDone, BeatDone, ReadsDone
  <2> QED
    BY <1>1, <2>1, <2>4, Stutters
<1>4. CASE Bridge!Acked
  <2>1. state = "WAITING_FOR_ACK" /\ s2m.ack /\ state' = "IDLE" /\ wnr' = wnr
    BY <1>4 DEF Bridge!Acked
  <2>2. Accessed /\ ~Accessed'
    BY <2>1 DEF Accessed
  <2>3. PICK t \in Threads : pc[t] = "waiting"
    BY <2>1, BusFacts DEF DataFacts
  <2>4. t \in Calling
    BY <2>3 DEF Calling
  <2>5. Calling = {t} /\ ptr.own = t /\ ptr.off \in Nat /\ OnTheBus(t) /\ BeatInStep(t)
    BY <1>1, <2>1, <2>4, OwnerFacts DEF DataFacts, DataInStep, BeatInStep
  <2>6. pc'[t] = "woken" /\ Calling' = Calling
    BY <1>4, <2>3 DEF Bridge!Acked, Bridge!Notify, Calling, DataFacts, Sides, Bridge!TypeOK
  <2>7. BeatsDone' = ptr.off \div 4 + 1
    BY <1>1, <2>5, <2>6 DEF BeatsDone, BeatDone, Calling
  <2>8. CASE wnr
    <3>1. BeatsDone = ptr.off \div 4 + 1
      BY <1>1, <2>2, <2>4, <2>8, CallFacts DEF BeatDone
    <3>2. ReadsDone' = ReadsDone /\ buf' = buf
      BY <1>1, <1>4, <2>1, <2>8 DEF ReadsDone, Bridge!Acked
    <3> QED
      BY <1>1, <2>6, <2>7, <3>1, <3>2 DEF Transport!vars, Mem, Failed, RAM!retrieve_word
  <2>9. CASE ~wnr
    <3>1. trans[t].cmd = "READ" /\ s2m.dat = RAM!retrieve_word(adr)
      BY <2>1, <2>5, <2>9 DEF OnTheBus, BeatInStep
    <3>2. ~BeatDone(t)
      BY <2>3, <2>9 DEF BeatDone
    <3>3. /\ BeatsDone = ptr.off \div 4 /\ BeatsDone < Transport!Beats(trans[t])
          /\ Transport!Address(trans[t]) = adr
      BY <1>1, <2>4, <3>2, CallFacts
    <3>4. ReadsDone' = (ReadsDone + 1) % LongMod
      <4>1. db_rd_ops \in 0 .. LongMod - 1
        BY DEF DataFacts, Sides, RAM!TypeOK
      <4>2. ReadsDone = (db_rd_ops + LongMod - 1) % LongMod /\ ReadsDone' = db_rd_ops
        BY <1>1, <2>1, <2>2, <2>9 DEF ReadsDone
      <4> QED
        BY <4>1, <4>2, RoundTrip, SystemAssumption
    <3>5. adr \in 0 .. mem_size
      BY <2>1, <2>4, <2>5, OwnerFacts, SystemAssumption DEF DataFacts, OnTheBus
    <3>6. Mem[adr] = s2m.dat
      BY <3>1, <3>5 DEF Mem
    <3>7. buf' = [buf EXCEPT ![t] = [b \in DOMAIN @ |->
            IF b \div 4 = BeatsDone THEN Mem[adr][3 - (b % 4)] ELSE @[b]]]
      <4>1. /\ DOMAIN buf[t] = 0 .. Bridge!BufferSize(trans[t]) - 1
            /\ Bridge!BufferSize(trans[t]) \in Nat
        BY <2>4, OwnerFacts, Bridge!PayloadFacts, Assumptions
           DEF DataFacts, Sides, Bridge!TypeOK
      <4>2. \A b \in DOMAIN buf[t] :
              b \div 4 = BeatsDone <=> b \in ptr.off .. ptr.off + 3
        BY <2>5, <3>3, <4>1, BeatArithmetic DEF BeatInStep
      <4>3. \A b \in ptr.off .. ptr.off + 3 : Bridge!LaneOf(b) = 3 - (b % 4)
        BY <2>5, BeatArithmetic DEF BeatInStep, Bridge!LaneOf
      <4>4. Bridge!StoreRead = [b \in DOMAIN buf[t] |->
              IF b \div 4 = BeatsDone THEN Mem[adr][3 - (b % 4)] ELSE buf[t][b]]
        BY <2>5, <3>6, <4>2, <4>3 DEF Bridge!StoreRead
      <4>5. buf' = [buf EXCEPT ![t] = Bridge!StoreRead]
        BY <1>4, <2>5, <2>9 DEF Bridge!Acked
      <4> QED
        BY <4>4, <4>5
    <3>8. Transport!ReadWord(t)
      BY <1>1, <2>4, <2>6, <2>7, <3>1, <3>3, <3>4, <3>5, <3>7
         DEF Transport!ReadWord, Transport!Transfers, Mem, Failed, RAM!retrieve_word
    <3> QED
      BY <3>8 DEF Transport!Next, Transport!Serve
  <2> QED
    BY <2>8, <2>9
<1> QED
  BY <1>1, <1>2, <1>3, <1>4 DEF BridgeRuns, Bridge!Handler
\* Of what the memory does, a write and an access out of bounds are seen: the
\* word written is that of the caller's buffer where its bytes are enabled.
LEMMA RAMImplements ==
  ASSUME DataFacts, RAMRuns PROVE [Transport!Next]_(Transport!vars)
<1>1. /\ report = "none" /\ ram_due
      /\ UNCHANGED <<state, adr, ptr, wnr, pc, trans, buf, resp, s2m>>
  BY DEF RAMRuns, RAM!Handleop, RAM!NoStrobe, RAM!EndAccess, RAM!Write, RAM!Read,
         RAM!Abort, RAM!HandleopRuns, bridgeOnly
<1>2. CASE RAM!NoStrobe \/ RAM!EndAccess
  <2>1. UNCHANGED <<memory, db_wr_ops, db_rd_ops, report>>
    BY <1>2 DEF RAM!NoStrobe, RAM!EndAccess, RAM!NoAccess
  <2>2. Accessed' <=> Accessed
    <3>1. CASE RAM!NoStrobe
      BY <1>1, <3>1 DEF RAM!NoStrobe, Accessed
    <3>2. CASE RAM!EndAccess
      <4>1. Strobe(m2s) /\ n_tran
        BY <3>2 DEF RAM!EndAccess, RAM!Strobe, Strobe
      <4>2. s2m.ack
        BY <1>1, <4>1 DEF DataFacts, SystemInStep, FirstEdge
      <4> QED
        BY <1>1, <4>2 DEF Accessed
    <3> QED
      BY <1>2, <3>1, <3>2
  <2>3. BeatsDone' = BeatsDone /\ ReadsDone' = ReadsDone
    BY <1>1, <2>1, <2>2 DEF BeatsDone, BeatDone, ReadsDone
  <2> QED
    BY <1>1, <2>1, <2>3, Stutters
<1>3. CASE RAM!Write \/ RAM!Read \/ RAM!Abort
  <2>1. /\ state = "WAITING_FOR_ACK" /\ m2s_next = m2s /\ ~n_tran /\ ~s2m.ack
        /\ ~Accessed
    BY <1>3, AccessOnFirstEdge DEF Accessed
  <2>2. PICK t \in Threads : pc[t] = "waiting"
    BY <2>1, BusFacts DEF DataFacts
  <2>3. t \in Calling /\ ~BeatDone(t)
    BY <2>1, <2>2 DEF Calling, BeatDone
  <2>4. /\ Calling = {t} /\ ptr.own = t /\ adr \in Nat /\ OnTheBus(t) /\ m2s.adr = adr
        /\ byt = trans[t].masked
    BY <1>1, <2>1, <2>3, OwnerFacts DEF DataFacts, DataInStep, BeatInStep, OnTheBus
  <2>5. /\ BeatsDone = ptr.off \div 4 /\ BeatsDone < Transport!Beats(trans[t])
        /\ ptr.off \div 4 \in Nat /\ Transport!Address(trans[t]) = adr
        /\ \A i \in Lane : Transport!BufferByte(i) = Bridge!BytePos(i)
    BY <1>1, <2>3, CallFacts
  <2>6. Calling' = Calling /\ ~Failed
    BY <1>1 DEF Calling, Failed
  <2>7. CASE RAM!Write
    <3>1. wnr /\ trans[t].cmd = "WRITE" /\ adr \in 0 .. mem_size
      BY <2>1, <2>4, <2>7, AccessInBound, SystemAssumption
         DEF RAM!Write, OnTheBus, DataFacts
    <3>2. n_tran' /\ report' = report /\ db_wr_ops' = (db_wr_ops + 1) % LongMod
      BY <2>7 DEF RAM!Write, RAM!Acknowledge
    <3>3. BeatsDone' = BeatsDone + 1
      <4>1. BeatDone(t)'
        BY <1>1, <2>1, <3>1, <3>2 DEF BeatDone, Accessed
      <4> QED
        BY <1>1, <2>2, <2>4, <2>5, <4>1 DEF BeatsDone
    <3>4. ReadsDone' = ReadsDone
      BY <1>1, <2>7, <3>1 DEF RAM!Write, ReadsDone
    <3> DEFINE old == RAM!retrieve_word(adr)
               new == [i \in Lane |-> IF Transport!Enabled(trans[t], i)
                                        THEN buf[t][Transport!BufferByte(i)] ELSE old[i]]
    <3>5. RAM!set_word(adr, m2s.dat, m2s.sel) = new
      <4>1. m2s.dat = Bridge!BusWord /\ m2s.sel = Bridge!ByteEnables
        BY <2>1, <2>4, <3>1 DEF OnTheBus
      <4>2. \A i \in Lane : i \in m2s.sel <=> Transport!Enabled(trans[t], i)
        BY <2>4, <2>5, <4>1 DEF Bridge!ByteEnables, Transport!Enabled
      <4>3. \A i \in Lane : m2s.dat[i] = buf[t][Transport!BufferByte(i)]
        BY <2>4, <2>5, <4>1 DEF Bridge!BusWord
      <4> HIDE DEF old
      <4>4. RAM!set_word(adr, m2s.dat, m2s.sel)
              = [i \in Lane |-> IF i \in m2s.sel THEN m2s.dat[i] ELSE old[i]]
        BY DEF RAM!set_word, old
      <4> QED
        BY <4>2, <4>3, <4>4
    <3>6. Mem' = [Mem EXCEPT ![adr] = new]
      <4> HIDE DEF new
      <4>1. memory' = RAM!Put(adr, new)
        BY <2>4, <2>7, <3>5 DEF RAM!Write
      <4>2. \A a \in 0 .. mem_size :
              RAM!retrieve_word(a)' = IF a = adr THEN new ELSE RAM!retrieve_word(a)
        BY <4>1 DEF RAM!Put, RAM!retrieve_word, RAM!OnesWord
      <4> QED
        BY <3>1, <4>2 DEF Mem
    <3>7. Mem[adr] = old
      BY <3>1 DEF Mem
    <3>8. Mem' = [Mem EXCEPT ![adr] =
            [i \in Lane |-> IF Transport!Enabled(trans[t], i)
                              THEN buf[t][Transport!BufferByte(i)] ELSE @[i]]]
      <4> HIDE DEF old
      <4> QED
        BY <3>6, <3>7
    <3>9. Transport!WriteWord(t)
      BY <1>1, <2>3, <2>5, <2>6, <3>1, <3>2, <3>3, <3>4, <3>8
         DEF Transport!WriteWord, Transport!Transfers, Failed
    <3> QED
      BY <2>3, <3>9 DEF Transport!Next, Transport!Serve, Calling
  <2>8. CASE RAM!Read
    <3>1. ~wnr
      BY <2>1, <2>4, <2>8 DEF RAM!Read, OnTheBus
    <3>2. /\ n_tran' /\ UNCHANGED <<memory, db_wr_ops, report>>
          /\ db_rd_ops' = (db_rd_ops + 1) % LongMod
      BY <2>8 DEF RAM!Read, RAM!Acknowledge
    <3>3. BeatsDone' = BeatsDone
      BY <1>1, <3>1 DEF BeatsDone, BeatDone
    <3>4. ReadsDone' = ReadsDone
      <4>1. db_rd_ops \in 0 .. LongMod - 1
        BY DEF DataFacts, Sides, RAM!TypeOK
      <4>2. ReadsDone = db_rd_ops /\ ReadsDone' = (db_rd_ops' + LongMod - 1) % LongMod
        BY <1>1, <2>1, <3>1, <3>2 DEF ReadsDone, Accessed
      <4> QED
        BY <3>2, <4>1, <4>2, RoundTrip, SystemAssumption
    <3> QED
      BY <1>1, <3>2, <3>3, <3>4, Stutters
  <2>9. CASE RAM!Abort
    <3>1. adr > mem_size
      BY <2>4, <2>9, AccessInBound, SystemAssumption DEF RAM!Abort, DataFacts
    <3>2. UNCHANGED <<memory, n_tran, db_wr_ops, db_rd_ops>> /\ report' # "none"
      BY <2>9 DEF RAM!Abort, RAM!store
    <3>3. UNCHANGED <<Mem, BeatsDone, ReadsDone>> /\ Failed'
      BY <1>1, <3>2 DEF Mem, RAM!retrieve_word, BeatsDone, BeatDone, ReadsDone, Accessed,
         Failed
    <3>4. Transport!Fail
      BY <1>1, <2>3, <2>5, <2>6, <3>1, <3>2, <3>3 DEF Transport!Fail, Failed
    <3> QED
      BY <3>4 DEF Transport!Next
  <2> QED
    BY <1>3, <2>7, <2>8, <2>9
<1> QED
  BY <1>2, <1>3 DEF RAMRuns, RAM!Handleop

\* The clock moves a transfer on and changes nothing of it: a pending access
\* becomes an acknowledge.
LEMMA EdgeImplements ==
  ASSUME DataFacts, ClockEdge PROVE UNCHANGED Transport!vars
<1>1. /\ report = "none" /\ ~due /\ ~ram_due /\ s2m' = s2m_next
      /\ UNCHANGED <<state, ptr, wnr, pc, trans, buf, resp, memory, n_tran, db_wr_ops,
                     db_rd_ops, report>>
  BY DEF ClockEdge, Bridge!ClockEdge, RAM!ClockEdge, Bridge!members, Bridge!callers,
         RAM!store, Bridge!Running
<1>2. Accessed' <=> Accessed
  <2>1. CASE ~Strobe(m2s)
    BY <1>1, <2>1 DEF DataFacts, SystemInStep, NothingPending, Accessed
  <2>2. CASE Strobe(m2s) /\ ~s2m.ack
    BY <1>1, <2>2 DEF DataFacts, SystemInStep, FirstEdge, Accessed
  <2>3. CASE Strobe(m2s) /\ s2m.ack
    <3>1. state # "WAITING_FOR_ACK"
      BY <1>1, <2>3, BusFacts DEF DataFacts, Sides, Bridge!Turns, Bridge!BusInStep,
         Bridge!Running, Bridge!Strobe, Strobe
    <3> QED
      BY <1>1, <3>1 DEF Accessed
  <2> QED
    BY <2>1, <2>2, <2>3
<1>3. BeatsDone' = BeatsDone /\ ReadsDone' = ReadsDone
  BY <1>1, <1>2 DEF BeatsDone, BeatDone, ReadsDone
<1> QED
  BY <1>1, <1>3, Stutters

LEMMA StepImplements ==
  ASSUME DataFacts, [Next]_vars, NeverTimesOut', Sides', \A n \in Timeouts : n > 2
  PROVE  [Transport!Next]_(Transport!vars)
<1>1. CASE Configure \/ UNCHANGED vars
  <2>1. UNCHANGED <<state, ptr, wnr, pc, trans, buf, resp, memory, n_tran, db_wr_ops,
                    db_rd_ops, s2m, report>>
    BY <1>1 DEF Configure, Bridge!Configure, Bridge!SetTimeout, Bridge!wires,
       Bridge!callers, vars, bridgeOnly, ramOnly
  <2>2. BeatsDone' = BeatsDone /\ ReadsDone' = ReadsDone
    BY <2>1 DEF BeatsDone, BeatDone, ReadsDone, Accessed
  <2> QED
    BY <2>1, <2>2, Stutters
<1>2. CASE BridgeRuns
  <2>1. report' = "none"
    <3>1. report' # "ack_timeout" /\ report' # "stray_pointer"
      BY DEF NeverTimesOut, Sides, Bridge!Turns, Bridge!NoStrayPointer
    <3>2. report = "none"
      BY <1>2 DEF BridgeRuns, Bridge!Handler, Bridge!IdleEdge, Bridge!DriveWrite,
         Bridge!DriveRead, Bridge!NoAck, Bridge!Acked, Bridge!StrayPointer,
         Bridge!HandlerRuns, Bridge!Running
    <3> QED
      BY <1>2, <3>1, <3>2 DEF BridgeRuns, Bridge!Handler, Bridge!IdleEdge,
         Bridge!DriveWrite, Bridge!DriveRead, Bridge!NoAck, Bridge!Acked,
         Bridge!StrayPointer, Bridge!CountEdge
  <2> QED
    BY <1>2, <2>1, BridgeImplements
<1> QED
  BY <1>1, <1>2, CallImplements, ResumeImplements, RAMImplements, EdgeImplements
     DEF Next, Stopped

\* The safety half of ImplementsTransport, for every set of callers, every
\* stream and every size of the memory: if no timeout is below 3 edges, then
\* through the clock, the handshake and the byte lanes, and in whichever order
\* the two processes run on an edge, every word of a call is transferred once,
\* in order and with its own bytes, the first at the address of the request and
\* each later one at the distance the code gives it (whether that is the right
\* one is not said); a call returns only when its last word is transferred, and
\* it fails only for its command or its addresses.
THEOREM TransfersAreImplemented ==
  ASSUME \A n \in Timeouts : n > 2
  PROVE  Spec => Transport!Spec
<1>1. Sides /\ Sides' /\ SystemInStep /\ DataInStep /\ NeverTimesOut' /\ [Next]_vars
      => [Transport!Next]_(Transport!vars)
  BY StepImplements DEF DataFacts
<1> QED
  BY InitImplements, <1>1, SidesAlways, StaysInStep, DataStaysInStep, TimeoutsNeverExpire,
     PTL DEF Spec, Transport!Spec
=============================================================================
