------------------------------- MODULE TLM2WB -------------------------------
(***************************************************************************)
(* tlms/tlm_adapters/tlm2wishbone.hpp: blocking TLM-2.0 calls turned into  *)
(* Wishbone cycles.  The initiator threads run b_transport, which fills    *)
(* the members of the bridge and sleeps on ack_event; wishbone_handler     *)
(* runs once per rising clock edge, drives the bus and notifies ack_event. *)
(*                                                                         *)
(* The SystemC kernel is cooperative: a handler runs to its end, and a     *)
(* thread to its next wait, without being interrupted.  One action is one  *)
(* such run.  A write to a signal is seen by everybody from the next clock *)
(* edge on; ack_event.notify() wakes the sleepers within the same edge.    *)
(***************************************************************************)
EXTENDS WishboneBus

CONSTANTS Threads,   \* the SystemC threads that call b_transport
          Requests,  \* the payloads they pass
          Timeouts,  \* the values given to setTimeout, and the initial one
          SlaveData, \* the words a slave may put on dat_i
          UIntMod,   \* 2^32 in the build: where an unsigned int wraps
          Exclusive  \* whether the initiators take turns calling b_transport

Commands == {"READ", "WRITE", "IGNORE"}
States == {"IDLE", "EXECUTING_WRITE", "EXECUTING_READ", "WAITING_FOR_ACK"}

\* The bytes behind the data pointer of a call, as commons/initiator.h and the
\* tests pass it.
BufferSize(req) == IF req.wid > req.len THEN req.wid ELSE req.len

\* A streaming width of 0 stands for the data length.
ZeroWidth(req) == req.wid             \* mutant: taken as it is
OneWord(req) == req.len               \* mutant: the stream is ignored
EffectiveWidth(req) == IF req.wid = 0 THEN req.len ELSE req.wid

\* A payload the class supports ("only 32 bits operations with byte
\* granularity"): the streaming width is whole words.  mask is the set of bytes whose enable is 0xff; masked tells whether there
\* is a byte enable pointer at all.
SupportedRequest(req) ==
  /\ req.cmd \in Commands /\ req.addr \in Nat
  /\ req.len = DWIDTH_BYTES
  /\ req.wid \in Nat /\ req.wid % DWIDTH_BYTES = 0 /\ req.wid < UIntMod
  /\ req.masked \in BOOLEAN /\ req.mask \in SUBSET Nat
  /\ req.data \in [0 .. BufferSize(req) - 1 -> Byte]

ASSUME TLM2WBAssumption ==
  /\ UIntMod \in Nat /\ UIntMod > DWIDTH_BYTES
  /\ Timeouts # {} /\ Timeouts \subseteq Nat
  /\ SlaveData \subseteq Word /\ ZeroWord \in SlaveData
  /\ Exclusive \in BOOLEAN
  /\ \A req \in Requests : SupportedRequest(req)

VARIABLES
  state, adr, ptr, len, byt, wid, wnr, \* the members of the bridge; ptr is an
                                       \* offset into the buffer of a thread
  elapsed, timeout,
  m2s, m2s_next,  \* the master wires now, and as written for the next edge
  s2m,            \* the slave wires now
  due,            \* wishbone_handler has still to run on this edge
  pc,             \* a thread is idle, waiting (on ack_event) or woken
  trans, buf,     \* the payload of the last call of a thread, its data buffer
  resp,           \* the response status of that payload
  report          \* the error report that ended the simulation, or "none"

members == <<state, adr, ptr, len, byt, wid, wnr, elapsed, timeout>>
wires == <<m2s, m2s_next, s2m, due>>
callers == <<pc, trans, buf, resp>>
vars == <<members, wires, callers, report>>

Running == report = "none"

-----------------------------------------------------------------------------
(* b_transport *)

Executing(req) == IF req.cmd = "WRITE" THEN "EXECUTING_WRITE" ELSE "EXECUTING_READ"

\* From the entry of b_transport to the first wait(ack_event).
BeginTransport(t, req) ==
  /\ Running /\ pc[t] = "idle"
  /\ Exclusive => \A u \in Threads : pc[u] = "idle"
  /\ req.cmd # "IGNORE"
  /\ state' = Executing(req)
  /\ adr' = req.addr \div DWIDTH_BYTES
  /\ ptr' = [own |-> t, off |-> 0]
  /\ len' = req.len
  /\ byt' = req.masked
  /\ wid' = EffectiveWidth(req)
  /\ pc' = [pc EXCEPT ![t] = "waiting"]
  /\ trans' = [trans EXCEPT ![t] = req]
  /\ buf' = [buf EXCEPT ![t] = req.data]
  /\ resp' = [resp EXCEPT ![t] = "INCOMPLETE"]
  /\ UNCHANGED <<wnr, elapsed, timeout, wires, report>>

\* SC_REPORT_ERROR throws out of b_transport and ends the simulation.
RejectCommand(t, req) ==
  /\ Running /\ pc[t] = "idle"
  /\ Exclusive => \A u \in Threads : pc[u] = "idle"
  /\ req.cmd = "IGNORE"
  /\ report' = "unsupported_cmd"
  /\ UNCHANGED <<members, wires, callers>>

\* wid -= len, in unsigned arithmetic.
Remaining == IF wid >= len THEN wid - len ELSE wid - len + UIntMod

\* A woken thread whose stream is complete returns ...
FinishTransport(t) ==
  /\ Running /\ pc[t] = "woken"
  /\ Remaining = 0
  /\ wid' = 0
  /\ pc' = [pc EXCEPT ![t] = "idle"]
  /\ resp' = [resp EXCEPT ![t] = "OK"]
  /\ UNCHANGED <<state, adr, ptr, len, byt, wnr, elapsed, timeout,
                 wires, trans, buf, report>>

\* ... and one whose stream is not asks for the next beat and sleeps again.
\* adr counts words and len counts bytes.
NextBeat(t) ==
  /\ Running /\ pc[t] = "woken"
  /\ Remaining # 0
  /\ wid' = Remaining
  /\ state' = Executing(trans[t])
  /\ adr' = adr + len
  /\ ptr' = [ptr EXCEPT !.off = @ + len]
  /\ pc' = [pc EXCEPT ![t] = "waiting"]
  /\ UNCHANGED <<len, byt, wnr, elapsed, timeout, wires, trans, buf, resp, report>>

-----------------------------------------------------------------------------
(* wishbone_handler, one action per case of its switch *)

HandlerRuns == Running /\ due /\ due' = FALSE

\* The four bytes at ptr lie in the buffer they were taken from.
PtrInBuffer == ptr.off + DWIDTH_BYTES <= BufferSize(trans[ptr.own])

\* Lane i of the bus and byte BytePos(i) of memory: the word is big-endian.
Unswapped(i) == ptr.off + i           \* mutant: little-endian
BytePos(i) == ptr.off + (DWIDTH_BYTES - 1 - i)
LaneOf(b) == DWIDTH_BYTES - 1 - (b - ptr.off)

BusWord == [i \in Lane |-> buf[ptr.own][BytePos(i)]]
ByteEnables ==
  IF byt THEN {i \in Lane : BytePos(i) \in trans[ptr.own].mask} ELSE Lane

IdleEdge ==
  /\ HandlerRuns /\ state = "IDLE"
  /\ UNCHANGED <<members, m2s, m2s_next, s2m, callers, report>>

DriveWrite ==
  /\ HandlerRuns /\ state = "EXECUTING_WRITE" /\ PtrInBuffer
  /\ m2s_next' = [cyc |-> TRUE, stb |-> TRUE, we |-> TRUE,
                  adr |-> adr, dat |-> BusWord, sel |-> ByteEnables]
  /\ wnr' = TRUE /\ elapsed' = 0 /\ state' = "WAITING_FOR_ACK"
  /\ UNCHANGED <<adr, ptr, len, byt, wid, timeout, m2s, s2m, callers, report>>

ReadKeepsElapsed == \* mutant: elapsed is not reset
  /\ HandlerRuns /\ state = "EXECUTING_READ"
  /\ m2s_next' = [m2s_next EXCEPT !.cyc = TRUE, !.stb = TRUE, !.we = FALSE,
                                  !.adr = adr, !.sel = {}]
  /\ wnr' = FALSE /\ state' = "WAITING_FOR_ACK"
  /\ UNCHANGED <<adr, ptr, len, byt, wid, elapsed, timeout, m2s, s2m, callers, report>>
DriveRead ==
  /\ HandlerRuns /\ state = "EXECUTING_READ"
  /\ m2s_next' = [m2s_next EXCEPT !.cyc = TRUE, !.stb = TRUE, !.we = FALSE,
                                  !.adr = adr, !.sel = {}]
  /\ wnr' = FALSE /\ elapsed' = 0 /\ state' = "WAITING_FOR_ACK"
  /\ UNCHANGED <<adr, ptr, len, byt, wid, timeout, m2s, s2m, callers, report>>

\* The end of the WAITING_FOR_ACK case: both branches count this edge.
OneEarly == elapsed + 2 >= timeout    \* mutant: off by one
TimedOut == elapsed + 1 >= timeout
CountEdge ==
  /\ elapsed' = elapsed + 1
  /\ report' = IF TimedOut THEN "ack_timeout" ELSE report

NoAck ==
  /\ HandlerRuns /\ state = "WAITING_FOR_ACK" /\ ~s2m.ack
  /\ CountEdge
  /\ UNCHANGED <<state, adr, ptr, len, byt, wid, wnr, timeout,
                 m2s, m2s_next, s2m, callers>>

BusKept == m2s_next                   \* mutant: released by nobody
StrobeKept == [m2s_next EXCEPT !.cyc = FALSE, !.we = FALSE, !.sel = {}] \* mutant
ReleaseBus == [m2s_next EXCEPT !.cyc = FALSE, !.stb = FALSE, !.we = FALSE, !.sel = {}]

\* ack_event.notify() wakes every thread that sleeps on the event now.
NoNotify == pc                        \* mutant: the notification is missing
NotifyOwner == [pc EXCEPT ![ptr.own] = "woken"] \* mutant: only one is woken
Notify == [t \in Threads |-> IF pc[t] = "waiting" THEN "woken" ELSE pc[t]]

\* The buffer with the word on dat_i stored at ptr.
StoreRead ==
  [b \in DOMAIN buf[ptr.own] |->
     IF b \in ptr.off .. ptr.off + DWIDTH_BYTES - 1 THEN s2m.dat[LaneOf(b)]
                                                    ELSE buf[ptr.own][b]]

Acked ==
  /\ HandlerRuns /\ state = "WAITING_FOR_ACK" /\ s2m.ack
  /\ wnr \/ PtrInBuffer
  /\ m2s_next' = ReleaseBus
  /\ buf' = IF wnr THEN buf ELSE [buf EXCEPT ![ptr.own] = StoreRead]
  /\ state' = "IDLE"
  /\ pc' = Notify
  /\ CountEdge
  /\ UNCHANGED <<adr, ptr, len, byt, wid, wnr, timeout, m2s, s2m, trans, resp>>

\* An access past the end of the caller's buffer is undefined behaviour: the
\* model follows the run no further.
StrayPointer ==
  /\ HandlerRuns /\ ~PtrInBuffer
  /\ \/ state = "EXECUTING_WRITE"
     \/ state = "WAITING_FOR_ACK" /\ s2m.ack /\ ~wnr
  /\ report' = "stray_pointer"
  /\ UNCHANGED <<members, m2s, m2s_next, s2m, callers>>

Handler == IdleEdge \/ DriveWrite \/ DriveRead \/ NoAck \/ Acked \/ StrayPointer

-----------------------------------------------------------------------------
(* The surroundings: configuration, the clock, the end of the simulation *)

SetTimeout(n) ==
  /\ Running /\ timeout' = n
  /\ UNCHANGED <<state, adr, ptr, len, byt, wid, wnr, elapsed, wires, callers, report>>

\* A rising edge comes when everything of the previous one has run; from here
\* on the signals have the values written then, and s is what the slave
\* answers.
ClockEdge(s) ==
  /\ Running /\ ~due
  /\ \A t \in Threads : pc[t] # "woken"
  /\ due' = TRUE /\ m2s' = m2s_next /\ s2m' = s
  /\ UNCHANGED <<members, m2s_next, callers, report>>

\* The slave may end the simulation on its own account.
SlaveEnds ==
  /\ Running /\ report' \in SlaveReports
  /\ UNCHANGED <<members, wires, callers>>

\* After an error report the kernel runs no process any more.
Stopped == ~Running /\ UNCHANGED vars

NoRequest == [cmd |-> "IGNORE", addr |-> 0, len |-> DWIDTH_BYTES, wid |-> 0,
              masked |-> FALSE, mask |-> {}, data |-> ZeroWord]

Init ==
  /\ state = "IDLE" /\ adr = 0 /\ len = 0 /\ byt = FALSE /\ wid = 0 /\ wnr = FALSE
  /\ \E t \in Threads : ptr = [own |-> t, off |-> 0]
  /\ elapsed = 0 /\ timeout \in Timeouts
  /\ m2s = NoMasterOut /\ m2s_next = NoMasterOut /\ s2m = NoSlaveOut /\ due = FALSE
  /\ pc = [t \in Threads |-> "idle"]
  /\ trans = [t \in Threads |-> NoRequest]
  /\ buf = [t \in Threads |-> NoRequest.data]
  /\ resp = [t \in Threads |-> "INCOMPLETE"]
  /\ report = "none"

Resume == \E t \in Threads : FinishTransport(t) \/ NextBeat(t)
Call == \E t \in Threads, req \in Requests : BeginTransport(t, req) \/ RejectCommand(t, req)
Configure == \E n \in Timeouts : SetTimeout(n)

\* A slave may acknowledge at any edge, with any word, or never.
Answers == [ack : BOOLEAN, dat : SlaveData]
AnyEdge == \E s \in Answers : ClockEdge(s)

Next == Call \/ Resume \/ Handler \/ Configure \/ AnyEdge \/ SlaveEnds \/ Stopped

Spec == Init /\ [][Next]_vars

\* The kernel keeps the clock running and runs every process it has woken.
\* Nothing forces a thread to call, nor the slave to answer.
Fairness == WF_vars(Resume) /\ WF_vars(Handler) /\ WF_vars(AnyEdge)
FairSpec == Spec /\ Fairness

-----------------------------------------------------------------------------
TypeOK ==
  /\ state \in States /\ adr \in Nat /\ len \in {0, DWIDTH_BYTES} /\ byt \in BOOLEAN
  /\ ptr \in [own : Threads, off : Nat]
  /\ wid \in 0 .. UIntMod - 1 /\ wnr \in BOOLEAN
  /\ elapsed \in Nat /\ timeout \in Timeouts
  /\ m2s \in MasterOut /\ m2s_next \in MasterOut /\ s2m \in SlaveOut /\ due \in BOOLEAN
  /\ pc \in [Threads -> {"idle", "waiting", "woken"}]
  /\ trans \in [Threads -> Requests \cup {NoRequest}]
  /\ DOMAIN buf = Threads
  /\ \A t \in Threads : buf[t] \in [0 .. BufferSize(trans[t]) - 1 -> Byte]
  /\ resp \in [Threads -> {"INCOMPLETE", "OK"}]
  /\ report \in Reports

InFlight(t) == pc[t] # "idle"

\* A caller sleeps only while the handler still owes it an event: ack_event is
\* not queued, so a thread that waits while the handler is idle waits forever.
NoLostWakeup == \A t \in Threads : pc[t] = "waiting" => state # "IDLE"

\* Even when one call overwrites the transfer of another, the strobe is up
\* while the handler waits for an acknowledge and down once it is idle again:
\* no transfer is left standing on the bus.
StrobeFollowsState ==
  /\ state = "WAITING_FOR_ACK" => Strobe(m2s_next)
  /\ state = "IDLE" => ~m2s_next.cyc /\ ~m2s_next.stb

\* With callers that take turns, the members a stream advances separately
\* agree with each other and with the request they serve: bytes done, bytes
\* left, and the buffer of the caller.  This is what keeps the handler inside
\* the caller's buffer.
StreamInStep ==
  Exclusive =>
    \A t \in Threads : InFlight(t) =>
      /\ \A u \in Threads : InFlight(u) => u = t
      /\ ptr.own = t /\ len = DWIDTH_BYTES /\ byt = trans[t].masked
      /\ wid > 0 /\ wid % DWIDTH_BYTES = 0
      /\ ptr.off + wid = BufferSize(trans[t])

\* The handler reads and writes only bytes of the buffer it was given.
NoStrayPointer == Exclusive => report # "stray_pointer"

\* With callers that take turns, the handler works exactly while a caller
\* sleeps, the strobe is up exactly while it waits for the slave, and an
\* acknowledge takes the request off the bus while its absence leaves it there.
BusInStep ==
  Exclusive =>
    /\ state = "IDLE" <=> \A t \in Threads : pc[t] # "waiting"
    /\ state = "WAITING_FOR_ACK" <=> Strobe(m2s_next)
    /\ due => m2s = m2s_next
    /\ Running /\ ~due /\ Strobe(m2s) =>
         IF s2m.ack THEN ~Strobe(m2s_next) ELSE m2s_next = m2s

\* RULE 3.60 of Wishbone, for a master that raises the strobe once per word:
\* a request stays on the bus unchanged until it is acknowledged, and then the
\* bus is released for at least one edge before the next request.
RequestHeld ==
  [][Exclusive /\ ~due /\ due' /\ Strobe(m2s) => IF s2m.ack THEN ~Strobe(m2s') ELSE m2s' = m2s]_vars

\* Every call returns, or the simulation ends with a report, even if the slave
\* never answers: that is what the timeout is for.
EveryCallEnds == \A t \in Threads : InFlight(t) ~> (~InFlight(t) \/ ~Running)
=============================================================================
