------------------------------ MODULE Initiator ------------------------------
(***************************************************************************)
(* tlms/commons/initiator.h: the two threads of an Initiator and the       *)
(* helpers a testbench calls, which set the members, raise we or re for    *)
(* one nanosecond and then let the simulation run for twenty more.  A      *)
(* rising edge is seen only by a thread that waits for it: a thread still  *)
(* in b_transport misses it.  What happens in b_transport is left to the   *)
(* parameters of Call and Return.                                          *)
(***************************************************************************)
EXTENDS Integers

CONSTANTS
  Initiators,
  HelperCalls,  \* what a testbench may ask of a helper
  CallTimes(_), \* for each payload, how long b_transport may take, in ns
  Failures      \* the reports a target may end the simulation with

Dirs == {"WRITE", "READ"}
Threads == Initiators \X Dirs

ASSUME HelperAssumption ==
  \A c \in HelperCalls : c.dir \in Dirs /\ c.byt \in BOOLEAN

Pulse == 1
RestTime == 20

NoThread == <<"nobody", "NONE">>
NoCall == [dir |-> "NONE"]
Idle == [step |-> "ready", call |-> NoCall, thread |-> NoThread, left |-> 0]

VARIABLES
  main,     \* the testbench: step, helper call in progress, its thread, ns left to run
  members,  \* addr, wid, ptr and byt of each Initiator
  pc,       \* per thread: "wait", "triggered" or "calling"
  left,     \* per thread: ns until b_transport returns
  trans,    \* per thread: the payload of the call it is blocked in
  report    \* the report that ended the simulation, or "none"

vars == <<main, members, pc, left, trans, report>>

Running == report = "none"

NoPayload == [cmd |-> "IGNORE"]

Init ==
  /\ main = Idle
  /\ members = [i \in Initiators |-> [addr |-> 0, wid |-> 0, ptr |-> "null", byt |-> FALSE]]
  /\ pc = [th \in Threads |-> "wait"]
  /\ left = [th \in Threads |-> 0]
  /\ trans = [th \in Threads |-> NoPayload]
  /\ report = "none"

(***************************************************************************)
(* The testbench.                                                          *)
(***************************************************************************)

Dowrite(i, c) ==
  /\ Running /\ main.step = "ready" /\ c.dir = "WRITE"
  /\ members' = [members EXCEPT ![i] =
       [addr |-> c.addr, wid |-> c.wid, ptr |-> c.ptr, byt |-> c.byt]]
  /\ main' = [step |-> "written", call |-> c, thread |-> <<i, "WRITE">>, left |-> 0]
  /\ UNCHANGED <<pc, left, trans, report>>

\* The width that was asked for is not used, and byt keeps its value.
Doread(i, c) ==
  /\ Running /\ main.step = "ready" /\ c.dir = "READ"
  /\ members' = [members EXCEPT ![i].addr = c.addr, ![i].wid = c.len, ![i].ptr = c.ptr]
  /\ main' = [step |-> "written", call |-> c, thread |-> <<i, "READ">>, left |-> 0]
  /\ UNCHANGED <<pc, left, trans, report>>

\* sc_start: the signal takes its value and wakes a thread that waits for it.
StrobeRises ==
  /\ Running /\ main.step = "written"
  /\ main' = [main EXCEPT !.step = "pulse", !.left = Pulse]
  /\ pc' = IF pc[main.thread] = "wait" THEN [pc EXCEPT ![main.thread] = "triggered"] ELSE pc
  /\ UNCHANGED <<members, left, trans, report>>

StrobeFallsAtOnce == \* mutant: the second sc_start is forgotten
  /\ Running /\ main.step = "pulse" /\ main.left = 0
  /\ main' = [main EXCEPT !.step = "rest", !.left = 0]
  /\ UNCHANGED <<members, pc, left, trans, report>>

StrobeFalls ==
  /\ Running /\ main.step = "pulse" /\ main.left = 0
  /\ main' = [main EXCEPT !.step = "rest", !.left = RestTime]
  /\ UNCHANGED <<members, pc, left, trans, report>>

HelperReturns ==
  /\ Running /\ main.step = "rest" /\ main.left = 0
  /\ main' = Idle
  /\ UNCHANGED <<members, pc, left, trans, report>>

(***************************************************************************)
(* The threads pwrite and pread.                                           *)
(***************************************************************************)

KeepsEnables(th) == \* mutant: pread passes byt on, which a read does not set
  LET m == members[th[1]] IN
  [cmd |-> th[2], addr |-> m.addr, ptr |-> m.ptr, len |-> 4, wid |-> m.wid, byt |-> m.byt]

\* Every field is set again for every call: nothing of the last one is left.
Payload(th) ==
  LET m == members[th[1]] IN
  [cmd |-> th[2], addr |-> m.addr, ptr |-> m.ptr, len |-> 4, wid |-> m.wid,
   byt |-> th[2] = "WRITE" /\ m.byt]

\* An error response is reported, which ends the simulation.
Response(resp) == IF resp = "OK" THEN "none" ELSE "TLM-2"

\* A call that does not wait: the thread is back at its wait() at once.
CallReturnsAtOnce(th, resp) ==
  /\ Running /\ pc[th] = "triggered"
  /\ pc' = [pc EXCEPT ![th] = "wait"]
  /\ report' = Response(resp)
  /\ UNCHANGED <<main, members, left, trans>>

CallBlocks(th, time) ==
  /\ Running /\ pc[th] = "triggered" /\ time > 0
  /\ trans' = [trans EXCEPT ![th] = Payload(th)]
  /\ left' = [left EXCEPT ![th] = time]
  /\ pc' = [pc EXCEPT ![th] = "calling"]
  /\ UNCHANGED <<main, members, report>>

\* A report made inside b_transport leaves through the thread.
CallFails(th, why) ==
  /\ Running /\ pc[th] = "triggered"
  /\ report' = why
  /\ UNCHANGED <<main, members, pc, left, trans>>

CallReturns(th, resp) ==
  /\ Running /\ pc[th] = "calling" /\ left[th] = 0
  /\ trans' = [trans EXCEPT ![th] = NoPayload]
  /\ pc' = [pc EXCEPT ![th] = "wait"]
  /\ report' = Response(resp)
  /\ UNCHANGED <<main, members, left>>

(***************************************************************************)
(* When every thread that can run has run, the kernel advances the time to *)
(* the next event.                                                         *)
(***************************************************************************)
Timers ==
  {left[th] : th \in {t \in Threads : pc[t] = "calling"}} \cup
  (IF main.step \in {"pulse", "rest"} THEN {main.left} ELSE {})

Advance(d) ==
  /\ Running
  /\ main.step # "written" /\ \A th \in Threads : pc[th] # "triggered"
  /\ d > 0 /\ d \in Timers /\ \A t \in Timers : d <= t
  /\ main' = [main EXCEPT !.left = IF main.step = "ready" THEN 0 ELSE @ - d]
  /\ left' = [th \in Threads |-> IF pc[th] = "calling" THEN left[th] - d ELSE left[th]]
  /\ UNCHANGED <<members, pc, trans, report>>

Tick == \E d \in Timers : Advance(d)

Stopped == ~Running /\ UNCHANGED vars

Responses == {"OK", "ADDRESS_ERROR", "BYTE_ENABLE_ERROR", "BURST_ERROR"}

Helper == \E i \in Initiators, c \in HelperCalls : Dowrite(i, c) \/ Doread(i, c)

Kernel ==
  \/ StrobeRises \/ StrobeFalls \/ HelperReturns \/ Tick
  \/ \E th \in Threads :
       \/ \E time \in CallTimes(Payload(th)) : CallBlocks(th, time)
       \/ 0 \in CallTimes(Payload(th))
          /\ \E resp \in Responses : CallReturnsAtOnce(th, resp)
       \/ \E resp \in Responses : CallReturns(th, resp)
       \/ \E why \in Failures : CallFails(th, why)

Next == Helper \/ Kernel \/ Stopped

Spec == Init /\ [][Next]_vars

(***************************************************************************)
(* Properties.                                                             *)
(***************************************************************************)
MainSteps == {"ready", "written", "pulse", "rest"}

MainOK ==
  /\ main \in [step : MainSteps, call : HelperCalls \cup {NoCall},
                thread : Threads \cup {NoThread}, left : 0 .. RestTime]
  /\ main.step # "ready" => main.thread \in Threads /\ main.call \in HelperCalls

Valued(default, S) == {default} \cup S
Member ==
  [addr : Valued(0, {c.addr : c \in HelperCalls}),
   wid : Valued(0, {c.wid : c \in HelperCalls} \cup {c.len : c \in HelperCalls}),
   ptr : Valued("null", {c.ptr : c \in HelperCalls}), byt : BOOLEAN]

ThreadsOK ==
  /\ pc \in [Threads -> {"wait", "triggered", "calling"}]
  /\ left \in [Threads -> Nat]
  /\ DOMAIN trans = Threads
  /\ \A th \in Threads : trans[th].cmd \in {"IGNORE", th[2]}

\* The time left of a helper call never runs below zero.
TypeOK ==
  /\ MainOK /\ members \in [Initiators -> Member] /\ ThreadsOK
  /\ report \in {"none", "TLM-2"} \cup Failures

\* Every rising edge of we or re finds its thread at wait(): no helper call is
\* lost because the one before it is still in b_transport.
TriggerIsSeen ==
  [][main.step = "written" /\ main'.step = "pulse" => pc'[main.thread] = "triggered"]_vars

\* No two threads are in b_transport together, of one Initiator or of two: what
\* a target that cannot serve two calls at once relies on.
CallsTakeTurns == \A t, u \in Threads : pc[t] # "wait" /\ pc[u] # "wait" => t = u

\* While a helper runs, the call in progress is its own: address, buffer and
\* byte enables are those it was given, not those of the call before.
CallCarriesRequest ==
  \A th \in Threads : pc[th] = "calling" =>
    /\ main.step \in {"pulse", "rest"} /\ main.thread = th
    /\ trans[th].addr = main.call.addr /\ trans[th].ptr = main.call.ptr
    /\ trans[th].byt = main.call.byt
=============================================================================
