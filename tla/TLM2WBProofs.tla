---------------------------- MODULE TLM2WBProofs ----------------------------
(***************************************************************************)
(* Theorems about TLM2WB, for every set of threads, requests, timeouts and *)
(* slave answers, and for callers that overlap as well as callers that     *)
(* take turns unless a theorem says otherwise.                             *)
(***************************************************************************)
EXTENDS TLM2WB, TLAPS

USE DEF DWIDTH_BYTES, Lane, Reports, MasterReports, SlaveReports

\* What the constants' assumption says of a payload a thread may hold.
Payload == Requests \cup {NoRequest}

LEMMA PayloadFacts ==
  ASSUME NEW req \in Payload
  PROVE  /\ req.cmd \in Commands /\ req.addr \in Nat /\ req.len = 4
         /\ req.wid \in Nat /\ req.masked \in BOOLEAN /\ req.mask \in SUBSET Nat
         /\ BufferSize(req) \in Nat /\ BufferSize(req) >= 4
         /\ BufferSize(req) < UIntMod /\ BufferSize(req) % 4 = 0
         /\ EffectiveWidth(req) = BufferSize(req)
         /\ req.data \in [0 .. BufferSize(req) - 1 -> Byte]
<1>1. CASE req \in Requests
  <2>1. SupportedRequest(req)
    BY <1>1, TLM2WBAssumption
  <2> QED BY <2>1, TLM2WBAssumption DEF SupportedRequest, BufferSize, EffectiveWidth
<1>2. CASE req = NoRequest
  BY <1>2, TLM2WBAssumption, ByteAssumption
     DEF NoRequest, ZeroWord, BufferSize, EffectiveWidth, Commands
<1> QED BY <1>1, <1>2 DEF Payload

LEMMA WidthDivides ==
  ASSUME NEW req \in Payload PROVE 4 <= BufferSize(req)
BY PayloadFacts

-----------------------------------------------------------------------------
(* Type correctness *)

LEMMA WireTypes ==
  /\ NoMasterOut \in MasterOut /\ NoSlaveOut \in SlaveOut
  /\ Answers \subseteq SlaveOut
<1>1. ZeroWord \in Word
  BY ByteAssumption DEF ZeroWord, Word
<1>2. NoMasterOut \in MasterOut /\ NoSlaveOut \in SlaveOut
  BY <1>1 DEF NoMasterOut, NoSlaveOut, MasterOut, SlaveOut
<1>3. Answers \subseteq SlaveOut
  BY TLM2WBAssumption DEF Answers, SlaveOut
<1> QED BY <1>2, <1>3

LEMMA TypeInit == Init => TypeOK
<1> SUFFICES ASSUME Init PROVE TypeOK
  OBVIOUS
<1>1. \A t \in Threads : buf[t] \in [0 .. BufferSize(trans[t]) - 1 -> Byte]
  BY PayloadFacts DEF Init, Payload
<1>2. ptr \in [own : Threads, off : Nat]
  BY DEF Init
<1>3. wid \in 0 .. UIntMod - 1
  BY TLM2WBAssumption DEF Init
<1> QED BY <1>1, <1>2, <1>3, WireTypes, TLM2WBAssumption DEF Init, TypeOK, States

LEMMA TypeCall ==
  ASSUME TypeOK, NEW t \in Threads, NEW req \in Requests,
         BeginTransport(t, req) \/ RejectCommand(t, req)
  PROVE  TypeOK'
<1> req \in Payload
  BY DEF Payload
<1>1. CASE RejectCommand(t, req)
  BY <1>1 DEF RejectCommand, TypeOK, members, wires, callers, BufferSize
<1>2. CASE BeginTransport(t, req)
  <2>1. \A u \in Threads : buf'[u] \in [0 .. BufferSize(trans'[u]) - 1 -> Byte]
    <3> TAKE u \in Threads
    <3>1. CASE u = t
      <4>1. trans'[t] = req /\ buf'[t] = req.data
        BY <1>2 DEF BeginTransport, TypeOK
      <4> QED BY <3>1, <4>1, PayloadFacts
    <3>2. CASE u # t
      <4>1. trans'[u] = trans[u] /\ buf'[u] = buf[u]
        BY <1>2, <3>2 DEF BeginTransport, TypeOK
      <4> QED BY <4>1 DEF TypeOK
    <3> QED BY <3>1, <3>2
  <2>2. adr' \in Nat
    BY <1>2, PayloadFacts DEF BeginTransport
  <2>3. wid' \in 0 .. UIntMod - 1 /\ len' = 4 /\ byt' \in BOOLEAN
    BY <1>2, PayloadFacts, TLM2WBAssumption DEF BeginTransport
  <2> QED BY <1>2, <2>1, <2>2, <2>3 DEF BeginTransport, TypeOK, wires, States, Executing
<1> QED BY <1>1, <1>2

LEMMA RemainingType ==
  ASSUME TypeOK PROVE Remaining \in 0 .. UIntMod - 1
BY TLM2WBAssumption DEF TypeOK, Remaining

LEMMA TypeResume ==
  ASSUME TypeOK, NEW t \in Threads, FinishTransport(t) \/ NextBeat(t)
  PROVE  TypeOK'
<1>1. CASE FinishTransport(t)
  BY <1>1, TLM2WBAssumption DEF FinishTransport, TypeOK, wires
<1>2. CASE NextBeat(t)
  BY <1>2, RemainingType DEF NextBeat, TypeOK, wires, States, Executing
<1> QED BY <1>1, <1>2

LEMMA BusTypes ==
  ASSUME TypeOK, PtrInBuffer
  PROVE  /\ BusWord \in Word
         /\ StoreRead \in [0 .. BufferSize(trans[ptr.own]) - 1 -> Byte]
<1>1. /\ ptr.own \in Threads /\ ptr.off \in Nat
      /\ trans[ptr.own] \in Payload
      /\ buf[ptr.own] \in [0 .. BufferSize(trans[ptr.own]) - 1 -> Byte]
  BY DEF TypeOK, Payload
<1>2. BufferSize(trans[ptr.own]) \in Nat
  BY <1>1, PayloadFacts
<1>3. \A i \in Lane : BytePos(i) \in 0 .. BufferSize(trans[ptr.own]) - 1
  BY <1>1, <1>2 DEF BytePos, PtrInBuffer
<1>4. BusWord \in Word
  BY <1>1, <1>3 DEF BusWord, Word
<1>5. \A b \in ptr.off .. ptr.off + 3 : LaneOf(b) \in Lane
  BY <1>1 DEF LaneOf
<1>6. \A b \in ptr.off .. ptr.off + 3 : s2m.dat[LaneOf(b)] \in Byte
  BY <1>5 DEF TypeOK, SlaveOut, Word
<1>7. StoreRead \in [0 .. BufferSize(trans[ptr.own]) - 1 -> Byte]
  <2>1. DOMAIN buf[ptr.own] = 0 .. BufferSize(trans[ptr.own]) - 1
    BY <1>1
  <2>2. \A b \in DOMAIN buf[ptr.own] : buf[ptr.own][b] \in Byte
    BY <1>1
  <2> QED BY <1>6, <2>1, <2>2 DEF StoreRead
<1> QED BY <1>4, <1>7

LEMMA TypeHandler ==
  ASSUME TypeOK, Handler PROVE TypeOK'
<1>1. CASE IdleEdge
  BY <1>1 DEF IdleEdge, HandlerRuns, TypeOK, members, callers
<1>2. CASE DriveWrite
  <2>1. BusWord \in Word /\ ByteEnables \in SUBSET Lane
    BY <1>2, BusTypes DEF DriveWrite, ByteEnables
  <2>2. m2s_next' \in MasterOut
    BY <1>2, <2>1 DEF DriveWrite, TypeOK, MasterOut
  <2> QED BY <1>2, <2>2 DEF DriveWrite, HandlerRuns, TypeOK, callers, States
<1>3. CASE DriveRead
  <2>1. m2s_next' \in MasterOut
    BY <1>3 DEF DriveRead, TypeOK, MasterOut
  <2> QED BY <1>3, <2>1 DEF DriveRead, HandlerRuns, TypeOK, callers, States
<1>4. CASE NoAck
  <2>1. elapsed' \in Nat /\ report' \in {"none", "ack_timeout"}
    BY <1>4 DEF NoAck, CountEdge, HandlerRuns, Running, TypeOK
  <2> QED BY <1>4, <2>1 DEF NoAck, HandlerRuns, TypeOK, callers
<1>5. CASE Acked
  <2>1. m2s_next' \in MasterOut
    BY <1>5 DEF Acked, ReleaseBus, TypeOK, MasterOut
  <2>2. /\ DOMAIN buf' = Threads
        /\ \A u \in Threads : buf'[u] \in [0 .. BufferSize(trans'[u]) - 1 -> Byte]
    BY <1>5, BusTypes DEF Acked, TypeOK
  <2>3. pc' \in [Threads -> {"idle", "waiting", "woken"}]
    BY <1>5 DEF Acked, Notify, TypeOK
  <2>4. elapsed' \in Nat /\ report' \in {"none", "ack_timeout"}
    BY <1>5 DEF Acked, CountEdge, HandlerRuns, Running, TypeOK
  <2> QED BY <1>5, <2>1, <2>2, <2>3, <2>4 DEF Acked, HandlerRuns, TypeOK, States
<1>6. CASE StrayPointer
  BY <1>6 DEF StrayPointer, HandlerRuns, TypeOK, members, callers
<1> QED BY <1>1, <1>2, <1>3, <1>4, <1>5, <1>6 DEF Handler

LEMMA TypeStep ==
  ASSUME TypeOK, [Next]_vars PROVE TypeOK'
<1>1. CASE Call
  BY <1>1, TypeCall DEF Call
<1>2. CASE Resume
  BY <1>2, TypeResume DEF Resume
<1>3. CASE Handler
  BY <1>3, TypeHandler
<1>4. CASE Configure
  BY <1>4, TLM2WBAssumption DEF Configure, SetTimeout, TypeOK, wires, callers
<1>5. CASE AnyEdge
  BY <1>5, WireTypes DEF AnyEdge, ClockEdge, TypeOK, members, callers
<1>6. CASE SlaveEnds
  BY <1>6 DEF SlaveEnds, TypeOK, members, wires, callers
<1>7. CASE UNCHANGED vars
  BY <1>7 DEF vars, members, wires, callers, TypeOK
<1> QED BY <1>1, <1>2, <1>3, <1>4, <1>5, <1>6, <1>7 DEF Next, Stopped

\* The members of the bridge, the wires and the callers' payloads stay in
\* their types; in particular the unsigned wid never leaves its range and no
\* byte but the caller's own is ever stored in a buffer.
THEOREM TypeCorrect == Spec => []TypeOK
<1>1. TypeOK /\ [Next]_vars => TypeOK'
  BY TypeStep
<1> QED BY TypeInit, <1>1, PTL DEF Spec

-----------------------------------------------------------------------------
(* The handshake between handler and callers, overlapping or not *)

\* A sleeping caller always has an event coming, and the strobe goes up and
\* down with the state of the handler.
Handshake == NoLostWakeup /\ StrobeFollowsState

LEMMA HandshakeStep ==
  ASSUME TypeOK, Handshake, [Next]_vars PROVE Handshake'
<1> USE DEF Handshake, NoLostWakeup, StrobeFollowsState, Strobe, TypeOK
<1>1. CASE Call
  BY <1>1 DEF Call, BeginTransport, RejectCommand, Executing, members, wires, callers
<1>2. CASE Resume
  BY <1>2 DEF Resume, FinishTransport, NextBeat, Executing, wires
<1>3. CASE IdleEdge \/ NoAck \/ StrayPointer
  BY <1>3 DEF IdleEdge, NoAck, StrayPointer, HandlerRuns, members, callers
<1>4. CASE DriveWrite
  BY <1>4 DEF DriveWrite, callers
<1>5. CASE DriveRead
  BY <1>5 DEF DriveRead, callers, MasterOut
<1>6. CASE Acked
  <2>1. \A t \in Threads : pc'[t] # "waiting"
    BY <1>6 DEF Acked, Notify
  <2>2. ~m2s_next'.cyc /\ ~m2s_next'.stb /\ state' = "IDLE"
    BY <1>6 DEF Acked, ReleaseBus, MasterOut
  <2> QED BY <2>1, <2>2
<1>7. CASE Configure \/ AnyEdge \/ SlaveEnds
  BY <1>7 DEF Configure, SetTimeout, AnyEdge, ClockEdge, SlaveEnds, members, wires, callers
<1>8. CASE UNCHANGED vars
  BY <1>8 DEF vars, members, wires, callers
<1> QED BY <1>1, <1>2, <1>3, <1>4, <1>5, <1>6, <1>7, <1>8 DEF Next, Handler, Stopped

LEMMA HandshakeAlways == Spec => []Handshake
<1>1. Init => Handshake
  BY DEF Init, Handshake, NoLostWakeup, StrobeFollowsState, NoMasterOut
<1>2. TypeOK /\ Handshake /\ [Next]_vars => Handshake'
  BY HandshakeStep
<1> QED BY <1>1, <1>2, TypeCorrect, PTL DEF Spec

\* No caller sleeps on ack_event when the handler is idle: the event, which
\* is lost on a thread that is not waiting, is never notified too early.
THEOREM NoWakeupIsLost == Spec => []NoLostWakeup
BY HandshakeAlways, PTL DEF Handshake

\* No transfer is left standing on the bus, even one that another call has
\* overwritten.
THEOREM StrobeIsReleased == Spec => []StrobeFollowsState
BY HandshakeAlways, PTL DEF Handshake

-----------------------------------------------------------------------------
(* Callers that take turns *)

\* NoStrayPointer alone is not inductive: it needs the stream's members in
\* step, and these that the handler works only while their owner sleeps.
Turns == StreamInStep /\ BusInStep /\ NoStrayPointer

\* Whenever the handler is not idle, four bytes of the buffer are left.
LEMMA AccessInBuffer ==
  ASSUME TypeOK, Turns, Exclusive, state # "IDLE" PROVE PtrInBuffer
<1>1. PICK t \in Threads : pc[t] = "waiting"
  BY DEF Turns, BusInStep
<1>2. /\ ptr.own = t /\ wid > 0 /\ wid % 4 = 0 /\ wid \in Nat
      /\ ptr.off + wid = BufferSize(trans[t]) /\ ptr.off \in Nat
  BY <1>1, TLM2WBAssumption DEF Turns, StreamInStep, InFlight, TypeOK
<1>3. wid >= 4
  BY <1>2
<1> QED BY <1>2, <1>3 DEF PtrInBuffer

LEMMA TurnsCall ==
  ASSUME TypeOK, Turns, Exclusive, NEW t \in Threads, NEW req \in Requests,
         BeginTransport(t, req) \/ RejectCommand(t, req)
  PROVE  Turns'
<1> req \in Payload
  BY DEF Payload
<1>1. CASE RejectCommand(t, req)
  BY <1>1 DEF RejectCommand, Turns, StreamInStep, BusInStep, NoStrayPointer, InFlight,
     Running, members, wires, callers, Strobe
<1>2. CASE BeginTransport(t, req)
  <2>1. /\ \A u \in Threads : pc'[u] = IF u = t THEN "waiting" ELSE "idle"
        /\ trans'[t] = req /\ ptr' = [own |-> t, off |-> 0]
        /\ wid' = BufferSize(req) /\ len' = 4 /\ byt' = req.masked
        /\ state' \in {"EXECUTING_READ", "EXECUTING_WRITE"}
    BY <1>2, PayloadFacts DEF BeginTransport, TypeOK, Executing
  <2>2. StreamInStep'
    BY <2>1, PayloadFacts DEF StreamInStep, InFlight
  <2>3. state = "IDLE"
    BY <1>2 DEF BeginTransport, Turns, BusInStep
  <2>4. BusInStep'
    BY <1>2, <2>1, <2>3 DEF BeginTransport, Turns, BusInStep, Strobe, wires, Running
  <2> QED BY <1>2, <2>2, <2>4 DEF BeginTransport, Turns, NoStrayPointer
<1> QED BY <1>1, <1>2

LEMMA TurnsResume ==
  ASSUME TypeOK, Turns, Exclusive, NEW t \in Threads,
         FinishTransport(t) \/ NextBeat(t)
  PROVE  Turns'
<1>1. /\ Running /\ pc[t] = "woken"
      /\ \A u \in Threads : u # t => pc[u] = "idle"
      /\ ptr.own = t /\ len = 4 /\ wid \in Nat /\ wid > 0 /\ wid % 4 = 0
      /\ ptr.off \in Nat /\ ptr.off + wid = BufferSize(trans[t])
  BY TLM2WBAssumption
     DEF FinishTransport, NextBeat, Turns, StreamInStep, InFlight, TypeOK
<1>2. Remaining = wid - 4
  BY <1>1 DEF Remaining
<1>3. state = "IDLE"
  BY <1>1 DEF Turns, BusInStep
<1>4. CASE FinishTransport(t)
  BY <1>1, <1>3, <1>4
     DEF FinishTransport, Turns, StreamInStep, BusInStep, NoStrayPointer, InFlight,
         Running, Strobe, wires, TypeOK
<1>5. CASE NextBeat(t)
  <2>1. /\ pc' = [pc EXCEPT ![t] = "waiting"] /\ trans' = trans
        /\ ptr' = [ptr EXCEPT !.off = @ + 4] /\ wid' = wid - 4
        /\ len' = len /\ byt' = byt /\ wid' # 0
        /\ state' \in {"EXECUTING_READ", "EXECUTING_WRITE"}
    BY <1>1, <1>2, <1>5 DEF NextBeat, Executing
  <2>2. /\ ptr'.own = t /\ ptr'.off = ptr.off + 4
        /\ wid' > 0 /\ wid' % 4 = 0 /\ ptr'.off + wid' = BufferSize(trans[t])
    <3>1. ptr \in [own : Threads, off : Nat]
      BY DEF TypeOK
    <3>2. ptr'.own = t /\ ptr'.off = ptr.off + 4
      BY <1>1, <2>1, <3>1
    <3>3. wid' > 0 /\ wid' % 4 = 0
      BY <1>1, <2>1
    <3>4. BufferSize(trans[t]) = ptr.off + wid
      BY <1>1
    <3> QED BY <1>1, <2>1, <3>2, <3>3, <3>4
  <2>3. StreamInStep'
    BY <1>1, <2>1, <2>2 DEF StreamInStep, InFlight, Turns, TypeOK
  <2>4. BusInStep'
    BY <1>1, <1>3, <1>5, <2>1
       DEF NextBeat, Turns, BusInStep, Strobe, wires, Running, TypeOK
  <2> QED BY <1>5, <2>3, <2>4 DEF NextBeat, Turns, NoStrayPointer
<1> QED BY <1>4, <1>5

LEMMA TurnsHandler ==
  ASSUME TypeOK, Turns, Exclusive, Handler PROVE Turns'
<1>1. ~StrayPointer
  BY AccessInBuffer DEF StrayPointer
<1>2. due /\ Running /\ due' = FALSE /\ m2s' = m2s /\ s2m' = s2m /\ m2s = m2s_next
  BY <1>1 DEF Handler, IdleEdge, DriveWrite, DriveRead, NoAck, Acked, HandlerRuns,
              Turns, BusInStep
<1>3. StreamInStep'
  <2>1. UNCHANGED <<ptr, len, byt, wid, trans>>
    BY <1>1 DEF Handler, IdleEdge, DriveWrite, DriveRead, NoAck, Acked, members, callers
  <2>2. \A t \in Threads : InFlight(t)' <=> InFlight(t)
    BY <1>1 DEF Handler, IdleEdge, DriveWrite, DriveRead, NoAck, Acked, Notify,
                InFlight, members, callers, TypeOK
  <2> QED BY <2>1, <2>2 DEF Turns, StreamInStep
<1>4. BusInStep'
  <2>1. CASE IdleEdge
    BY <1>2, <2>1 DEF IdleEdge, Turns, BusInStep, members, callers, Strobe
  <2>2. CASE DriveWrite \/ DriveRead
    <3>1. Strobe(m2s_next') /\ state' = "WAITING_FOR_ACK" /\ pc' = pc
      <4>1. CASE DriveWrite
        BY <4>1 DEF DriveWrite, callers, Strobe
      <4>2. CASE DriveRead
        BY <4>2 DEF DriveRead, callers, Strobe, TypeOK, MasterOut
      <4> QED BY <2>2, <4>1, <4>2
    <3>2. state # "IDLE" /\ ~Strobe(m2s)
      BY <1>2, <2>2 DEF DriveWrite, DriveRead, Turns, BusInStep
    <3> QED BY <1>2, <3>1, <3>2 DEF Turns, BusInStep, Strobe
  <2>3. CASE NoAck
    BY <1>2, <2>3 DEF NoAck, Turns, BusInStep, callers, Strobe
  <2>4. CASE Acked
    <3>1. ~Strobe(m2s_next') /\ state' = "IDLE" /\ s2m.ack
      BY <2>4 DEF Acked, ReleaseBus, Strobe, TypeOK, MasterOut
    <3>2. \A t \in Threads : pc'[t] # "waiting"
      BY <2>4 DEF Acked, Notify
    <3> QED BY <1>2, <3>1, <3>2 DEF BusInStep, Strobe
  <2> QED BY <1>1, <2>1, <2>2, <2>3, <2>4 DEF Handler
<1>5. NoStrayPointer'
  BY <1>1, <1>2 DEF Handler, IdleEdge, DriveWrite, DriveRead, NoAck, Acked, CountEdge,
                    NoStrayPointer, Running
<1> QED BY <1>3, <1>4, <1>5 DEF Turns

LEMMA TurnsStep ==
  ASSUME TypeOK, Turns, [Next]_vars PROVE Turns'
<1>1. CASE ~Exclusive
  BY <1>1 DEF Turns, StreamInStep, BusInStep, NoStrayPointer
<1>2. CASE Exclusive
  <2>1. CASE Call
    BY <1>2, <2>1, TurnsCall DEF Call
  <2>2. CASE Resume
    BY <1>2, <2>2, TurnsResume DEF Resume
  <2>3. CASE Handler
    BY <1>2, <2>3, TurnsHandler
  <2>4. CASE Configure
    BY <2>4 DEF Configure, SetTimeout, Turns, StreamInStep, BusInStep, NoStrayPointer,
       InFlight, Running, Strobe, wires, callers
  <2>5. CASE AnyEdge
    BY <2>5 DEF AnyEdge, ClockEdge, Turns, StreamInStep, BusInStep, NoStrayPointer,
       InFlight, Running, Strobe, members, callers
  <2>6. CASE SlaveEnds
    BY <2>6 DEF SlaveEnds, Turns, StreamInStep, BusInStep, NoStrayPointer,
       InFlight, Running, Strobe, members, wires, callers
  <2>7. CASE UNCHANGED vars
    BY <2>7 DEF vars, Turns, StreamInStep, BusInStep, NoStrayPointer,
       InFlight, Running, Strobe, members, wires, callers
  <2> QED BY <2>1, <2>2, <2>3, <2>4, <2>5, <2>6, <2>7 DEF Next, Stopped
<1> QED BY <1>1, <1>2, TLM2WBAssumption

LEMMA TurnsInit == Init => Turns
BY DEF Init, Turns, StreamInStep, BusInStep, NoStrayPointer, InFlight, NoMasterOut, Strobe

LEMMA TurnsAlways == Spec => []Turns
<1>1. TypeOK /\ Turns /\ [Next]_vars => Turns'
  BY TurnsStep
<1> QED BY <1>1, TurnsInit, TypeCorrect, PTL DEF Spec

\* A stream's pointer, its remaining width and its request stay in step, for
\* streams of any length.
THEOREM StreamStaysInStep == Spec => []StreamInStep
BY TurnsAlways, PTL DEF Turns

\* Whatever the slave answers, handler, sleeping callers and strobe agree on
\* whether a transfer is under way.
THEOREM BusStaysInStep == Spec => []BusInStep
BY TurnsAlways, PTL DEF Turns

\* The handler never leaves the buffer of the caller it serves.
THEOREM AccessesStayInBuffer == Spec => []NoStrayPointer
BY TurnsAlways, PTL DEF Turns

\* A request stays on the bus unchanged until it is acknowledged and leaves
\* the bus idle afterwards, whatever the slave does.
THEOREM RequestIsHeld == Spec => RequestHeld
<1>1. TypeOK /\ Turns /\ [Next]_vars =>
        [Exclusive /\ ~due /\ due' /\ Strobe(m2s) =>
           IF s2m.ack THEN ~Strobe(m2s') ELSE m2s' = m2s]_vars
  <2> SUFFICES ASSUME TypeOK, Turns, Next, Exclusive, ~due, due', Strobe(m2s)
               PROVE  IF s2m.ack THEN ~Strobe(m2s') ELSE m2s' = m2s
    BY DEF Strobe
  <2>1. AnyEdge
    BY DEF Next, Call, BeginTransport, RejectCommand, Resume, FinishTransport, NextBeat,
       Handler, IdleEdge, DriveWrite, DriveRead, NoAck, Acked, StrayPointer, HandlerRuns,
       Configure, SetTimeout, SlaveEnds, Stopped, vars, wires
  <2>2. Running /\ m2s' = m2s_next
    BY <2>1 DEF AnyEdge, ClockEdge
  <2> QED BY <2>2 DEF Turns, BusInStep, Strobe
<1> QED BY <1>1, TypeCorrect, TurnsAlways, PTL DEF Spec, RequestHeld
=============================================================================
