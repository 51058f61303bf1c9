--------------------------- MODULE InitiatorProofs ---------------------------
(***************************************************************************)
(* Theorems about Initiator, for any number of initiators and any helper   *)
(* calls, as long as the target answers inside the window of a helper.     *)
(***************************************************************************)
EXTENDS Initiator, TLAPS

\* The payload a helper call leads to.
PayloadOf(c) ==
  [cmd |-> c.dir, addr |-> c.addr, ptr |-> c.ptr, len |-> 4,
   wid |-> IF c.dir = "WRITE" THEN c.wid ELSE c.len, byt |-> c.dir = "WRITE" /\ c.byt]

\* A helper runs the simulation for Pulse + RestTime: its call is answered before that.
ASSUME WindowAssumption ==
  \A c \in HelperCalls : CallTimes(PayloadOf(c)) \subseteq 0 .. Pulse + RestTime - 1

\* A read is not asked for byte enables: Doread has no such parameter.
ASSUME ReadAssumption == \A c \in HelperCalls : c.dir = "READ" => c.byt = FALSE

WindowLeft == IF main.step = "pulse" THEN main.left + RestTime ELSE main.left

\* Threads outside wait() belong to the helper call in progress and will be
\* back before it returns.
InStep ==
  /\ main.step # "ready" =>
       main.thread[2] = main.call.dir /\ Payload(main.thread) = PayloadOf(main.call)
  /\ \A th \in Threads : pc[th] = "triggered" =>
       main.step = "pulse" /\ main.left = Pulse /\ th = main.thread
  /\ \A th \in Threads : pc[th] = "calling" =>
       /\ main.step \in {"pulse", "rest"} /\ th = main.thread
       /\ left[th] < WindowLeft
       /\ trans[th] = PayloadOf(main.call)

IInv == TypeOK /\ InStep

LEMMA InitIInv == Init => IInv
  BY DEF Init, Idle, NoCall, NoThread, IInv, TypeOK, MainOK, ThreadsOK, Member, InStep, Threads,
     Dirs, MainSteps, Valued, NoPayload, RestTime

LEMMA HelperStep == ASSUME IInv, Helper PROVE IInv'
<1>1. PICK i \in Initiators, c \in HelperCalls : Dowrite(i, c) \/ Doread(i, c) BY DEF Helper
<1>2. c.dir \in Dirs /\ c.byt \in BOOLEAN BY HelperAssumption
<1>3. MainOK'
  BY <1>1 DEF Dowrite, Doread, MainOK, MainSteps, Threads, Dirs, RestTime
<1>4. members' \in [Initiators -> Member]
  <2>1. members \in [Initiators -> Member] BY DEF IInv, TypeOK
  <2>2. CASE Dowrite(i, c)
    <3>1. [addr |-> c.addr, wid |-> c.wid, ptr |-> c.ptr, byt |-> c.byt] \in Member
      BY <1>2 DEF Member, Valued
    <3>2. QED BY <2>1, <2>2, <3>1 DEF Dowrite
  <2>3. CASE Doread(i, c)
    <3>1. /\ members[i] \in Member
          /\ members' = [members EXCEPT ![i] = [members[i] EXCEPT
                           !.addr = c.addr, !.wid = c.len, !.ptr = c.ptr]]
      BY <2>1, <2>3 DEF Doread
    <3>2. [members[i] EXCEPT !.addr = c.addr, !.wid = c.len, !.ptr = c.ptr] \in Member
      BY <3>1 DEF Member, Valued
    <3>3. QED BY <2>1, <3>1, <3>2
  <2>4. QED BY <1>1, <2>2, <2>3
<1>5. ThreadsOK' /\ UNCHANGED report
  BY <1>1 DEF Dowrite, Doread, IInv, TypeOK, ThreadsOK
<1>6. InStep'
  <2>1. CASE Dowrite(i, c)
    BY <1>2, <2>1 DEF Dowrite, IInv, TypeOK, MainOK, ThreadsOK, MainSteps, InStep, Payload,
       PayloadOf, Threads, Dirs
  <2>2. CASE Doread(i, c)
    BY <1>2, <2>2, ReadAssumption DEF Doread, IInv, TypeOK, MainOK, ThreadsOK, Member, MainSteps,
       InStep, Payload, PayloadOf, Threads, Dirs
  <2>3. QED BY <1>1, <2>1, <2>2
<1>7. QED BY <1>3, <1>4, <1>5, <1>6 DEF IInv, TypeOK

LEMMA MainStep == ASSUME IInv, StrobeRises \/ StrobeFalls \/ HelperReturns PROVE IInv'
<1>1. UNCHANGED <<members, left, trans, report>>
  BY DEF StrobeRises, StrobeFalls, HelperReturns
<1>2. ThreadsOK'
  BY DEF IInv, TypeOK, ThreadsOK, StrobeRises, StrobeFalls, HelperReturns
<1>3. MainOK'
  <2> USE DEF IInv, TypeOK, MainOK, MainSteps, RestTime, Pulse
  <2>1. CASE StrobeRises
    <3>1. main' = [main EXCEPT !.step = "pulse", !.left = 1] BY <2>1 DEF StrobeRises
    <3>2. 1 \in 0 .. RestTime OBVIOUS
    <3>3. QED BY <2>1, <3>1, <3>2 DEF StrobeRises
  <2>2. CASE StrobeFalls
    <3>1. main' = [main EXCEPT !.step = "rest", !.left = 20] BY <2>2 DEF StrobeFalls
    <3>2. 20 \in 0 .. RestTime OBVIOUS
    <3>3. QED BY <2>2, <3>1, <3>2 DEF StrobeFalls
  <2>3. CASE HelperReturns BY <2>3 DEF HelperReturns, Idle
  <2>4. QED BY <2>1, <2>2, <2>3
<1>4. InStep'
  <2> USE DEF IInv, RestTime, Pulse, MainSteps, TypeOK, MainOK, ThreadsOK, InStep, WindowLeft
  <2>1. CASE StrobeRises BY <2>1 DEF StrobeRises, Payload
  <2>2. CASE StrobeFalls BY <2>2 DEF StrobeFalls, Payload
  <2>3. CASE HelperReturns BY <2>3 DEF HelperReturns, Idle
  <2>4. QED BY <2>1, <2>2, <2>3
<1>5. QED BY <1>1, <1>2, <1>3, <1>4 DEF IInv, TypeOK

LEMMA TickStep == ASSUME IInv, Tick PROVE IInv'
<1> USE DEF IInv, RestTime, Pulse, MainSteps, MainOK, ThreadsOK
<1>1. PICK d \in Timers : Advance(d) BY DEF Tick
<1>2. main.step \in {"pulse", "rest"} BY <1>1 DEF Advance, Timers, InStep, TypeOK
<1>3. main.left \in Timers /\ \A th \in Threads : pc[th] = "calling" => left[th] \in Timers
  BY <1>2 DEF Timers
<1>4. d \in Nat /\ d > 0 /\ d <= main.left
      /\ \A th \in Threads : pc[th] = "calling" => d <= left[th]
  BY <1>1, <1>2, <1>3 DEF Advance, Timers, TypeOK
<1>5. MainOK' BY <1>1, <1>2, <1>4 DEF Advance, TypeOK
<1>6. ThreadsOK' BY <1>1, <1>4 DEF Advance, TypeOK
<1>7. InStep' BY <1>1, <1>2, <1>4 DEF Advance, TypeOK, InStep, Payload, WindowLeft
<1>8. QED BY <1>1, <1>5, <1>6, <1>7 DEF Advance, TypeOK

LEMMA ThreadStep ==
  ASSUME IInv, NEW th \in Threads,
         \/ \E time \in CallTimes(Payload(th)) : CallBlocks(th, time)
         \/ \E resp \in Responses : CallReturnsAtOnce(th, resp) \/ CallReturns(th, resp)
         \/ \E why \in Failures : CallFails(th, why)
  PROVE IInv'
<1> USE DEF IInv, RestTime, Pulse, MainSteps, MainOK
<1>1. ASSUME NEW time \in CallTimes(Payload(th)), CallBlocks(th, time) PROVE IInv'
  <2>1. time \in 0 .. Pulse + RestTime - 1
    BY <1>1, WindowAssumption DEF CallBlocks, InStep, TypeOK
  <2>2. ThreadsOK' BY <1>1, <2>1 DEF CallBlocks, TypeOK, ThreadsOK, Payload
  <2>3. InStep' BY <1>1, <2>1 DEF CallBlocks, TypeOK, ThreadsOK, InStep, Payload, WindowLeft
  <2>4. QED BY <1>1, <2>2, <2>3 DEF CallBlocks, TypeOK
<1>2. ASSUME NEW resp, CallReturnsAtOnce(th, resp) \/ CallReturns(th, resp) PROVE IInv'
  <2>1. ThreadsOK' BY <1>2 DEF CallReturnsAtOnce, CallReturns, TypeOK, ThreadsOK, NoPayload
  <2>2. InStep'
    BY <1>2 DEF CallReturnsAtOnce, CallReturns, TypeOK, ThreadsOK, InStep, Payload, WindowLeft
  <2>3. QED BY <1>2, <2>1, <2>2 DEF CallReturnsAtOnce, CallReturns, TypeOK, Response
<1>3. ASSUME NEW why \in Failures, CallFails(th, why) PROVE IInv'
  BY <1>3 DEF CallFails, TypeOK, ThreadsOK, InStep, Payload, WindowLeft
<1>4. QED BY <1>1, <1>2, <1>3

LEMMA NextIInv == IInv /\ [Next]_vars => IInv'
<1> SUFFICES ASSUME IInv, [Next]_vars PROVE IInv' OBVIOUS
<1>1. CASE UNCHANGED vars
  BY <1>1 DEF vars, IInv, TypeOK, MainOK, ThreadsOK, InStep, Payload, WindowLeft
<1>2. CASE Next
  BY <1>1, <1>2, HelperStep, MainStep, TickStep, ThreadStep DEF Next, Kernel, Stopped
<1>3. QED BY <1>1, <1>2

LEMMA AlwaysIInv == Spec => []IInv
  BY InitIInv, NextIInv, PTL DEF Spec

\* The testbench's state, the members and the threads keep their types, and the
\* kernel never lets a helper run past its window.
THEOREM TypeCorrect == Spec => []TypeOK
  BY AlwaysIInv, PTL DEF IInv

\* Whatever the helpers are asked for, calls to targets never overlap.
THEOREM TurnsAreTaken == Spec => []CallsTakeTurns
<1>1. IInv => CallsTakeTurns BY DEF IInv, InStep, CallsTakeTurns, TypeOK, ThreadsOK
<1>2. QED BY <1>1, AlwaysIInv, PTL

\* A call in progress is the helper's own.
THEOREM CallsCarryRequests == Spec => []CallCarriesRequest
<1>1. IInv => CallCarriesRequest
  BY HelperAssumption, ReadAssumption
     DEF IInv, InStep, CallCarriesRequest, TypeOK, MainOK, PayloadOf, Dirs, MainSteps
<1>2. QED BY <1>1, AlwaysIInv, PTL

\* No helper call is lost: its thread is always at wait() when the strobe rises.
THEOREM NoTriggerIsLost == Spec => TriggerIsSeen
<1>1. IInv /\ [Next]_vars =>
        [main.step = "written" /\ main'.step = "pulse" => pc'[main.thread] = "triggered"]_vars
  <2> SUFFICES ASSUME IInv, Next, main.step = "written", main'.step = "pulse"
               PROVE pc'[main.thread] = "triggered"
    BY DEF vars
  <2>1. CASE StrobeRises BY <2>1 DEF IInv, TypeOK, MainOK, ThreadsOK, InStep, StrobeRises
  <2>2. CASE ~StrobeRises
    BY <2>2 DEF Next, Helper, Kernel, Stopped, vars, Dowrite, Doread, StrobeFalls, HelperReturns,
         Tick, Advance, CallBlocks, CallReturnsAtOnce, CallReturns, CallFails
  <2>3. QED BY <2>1, <2>2
<1>2. QED BY <1>1, AlwaysIInv, PTL DEF Spec, TriggerIsSeen
=============================================================================
