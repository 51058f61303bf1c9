-------------------------- MODULE BlockingTransport --------------------------
(***************************************************************************)
(* What a caller of TLM2WB with a WBRAM behind it is promised, without     *)
(* clock, bus or handshake: a call transfers its words one at a time, each *)
(* exactly once and in order, and then returns.  Calls take turns.  Where  *)
(* in the memory the words after the first go is no part of the promise:   *)
(* only that reads find them where writes of the same form put them.       *)
(* There is no code for this module; WishboneSystem is shown to implement  *)
(* it.                                                                     *)
(***************************************************************************)
EXTENDS WishboneBus

CONSTANTS Threads, Requests,
          MemSize, \* the last word address the memory accepts
          Stride,  \* word addresses from one word of a call to the next, the same for
                   \* reads and writes: a parameter, which no caller may count on
          LongMod  \* where the operation counters wrap

VARIABLES
  mem,           \* what each word of the memory reads as
  calling,       \* the thread whose call is in progress, if any
  beat,          \* how many words of that call have been transferred
  trans, buf, resp,
  writes, reads, \* the words written and read so far
  failed         \* the simulation has ended with a report

vars == <<mem, calling, beat, trans, buf, resp, writes, reads, failed>>

Width(req) == IF req.wid = 0 THEN req.len ELSE req.wid
Beats(req) == Width(req) \div DWIDTH_BYTES
Address(req) == req.addr \div DWIDTH_BYTES + Stride * beat

\* The byte of the buffer that lane i carries in the current beat.
BufferByte(i) == beat * DWIDTH_BYTES + (DWIDTH_BYTES - 1 - i)
Enabled(req, i) == req.masked => BufferByte(i) \in req.mask

NoData == [b \in Lane |-> ZeroByte]
NoRequest == [cmd |-> "IGNORE", addr |-> 0, len |-> DWIDTH_BYTES, wid |-> 0,
              masked |-> FALSE, mask |-> {}, data |-> NoData]

Init ==
  /\ mem = [a \in 0 .. MemSize |-> OnesWord]
  /\ calling = {} /\ beat = 0
  /\ trans = [t \in Threads |-> NoRequest] /\ buf = [t \in Threads |-> NoData]
  /\ resp = [t \in Threads |-> "INCOMPLETE"]
  /\ writes = 0 /\ reads = 0 /\ failed = FALSE

Call(t, req) ==
  /\ ~failed /\ calling = {} /\ req.cmd # "IGNORE"
  /\ calling' = {t} /\ beat' = 0
  /\ trans' = [trans EXCEPT ![t] = req]
  /\ buf' = [buf EXCEPT ![t] = req.data]
  /\ resp' = [resp EXCEPT ![t] = "INCOMPLETE"]
  /\ UNCHANGED <<mem, writes, reads, failed>>

Transfers(t, cmd) ==
  /\ ~failed /\ t \in calling /\ trans[t].cmd = cmd
  /\ beat < Beats(trans[t]) /\ Address(trans[t]) <= MemSize
  /\ beat' = beat + 1
  /\ UNCHANGED <<calling, trans, resp, failed>>

WriteWord(t) ==
  /\ Transfers(t, "WRITE")
  /\ mem' = [mem EXCEPT ![Address(trans[t])] =
       [i \in Lane |-> IF Enabled(trans[t], i) THEN buf[t][BufferByte(i)] ELSE @[i]]]
  /\ writes' = (writes + 1) % LongMod
  /\ UNCHANGED <<buf, reads>>

ReadWord(t) ==
  /\ Transfers(t, "READ")
  /\ buf' = [buf EXCEPT ![t] = [b \in DOMAIN @ |->
       IF b \div DWIDTH_BYTES = beat
         THEN mem[Address(trans[t])][DWIDTH_BYTES - 1 - (b % DWIDTH_BYTES)] ELSE @[b]]]
  /\ reads' = (reads + 1) % LongMod
  /\ UNCHANGED <<mem, writes>>

Return(t) ==
  /\ ~failed /\ t \in calling /\ beat = Beats(trans[t])
  /\ calling' = {} /\ beat' = 0
  /\ resp' = [resp EXCEPT ![t] = "OK"]
  /\ UNCHANGED <<mem, trans, buf, writes, reads, failed>>

\* A call fails only for its command or for an address outside the memory.
Fail ==
  /\ ~failed /\ failed' = TRUE
  /\ \/ calling = {} /\ \E req \in Requests : req.cmd = "IGNORE"
     \/ \E t \in calling : beat < Beats(trans[t]) /\ Address(trans[t]) > MemSize
  /\ UNCHANGED <<mem, calling, beat, trans, buf, resp, writes, reads>>

\* What a call in progress does next.
Serve == \E t \in Threads : WriteWord(t) \/ ReadWord(t) \/ Return(t)
Next == Serve \/ Fail \/ \E t \in Threads, req \in Requests : Call(t, req)

Spec == Init /\ [][Next]_vars

\* A call whose addresses are in range is served to its end.
FairSpec == Spec /\ WF_vars(Serve)
=============================================================================
