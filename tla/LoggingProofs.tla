---------------------------- MODULE LoggingProofs ----------------------------
(***************************************************************************)
(* The logs and their flushers, for any test bench, any sizes of the files *)
(* and any number of faults, the logs as PersistentLog has them, and the   *)
(* decoder's list of descriptors.  The invariant says how what is still to *)
(* be called, who is registered, which worker runs and what a stream holds *)
(* fit together:                                                           *)
(*   - current_size_ counts what is in the file and in the buffer, and a   *)
(*     stream that is not open has a size that makes the next line open it *)
(*     once its logger is known;                                           *)
(*   - a model whose logger is asked for is registered, or is about to be; *)
(*   - a worker that runs is the current one or is about to be stopped.    *)
(* For the abstract log it says more:                                      *)
(*   - a file that is not there is empty, and so is the place that is free *)
(*     in a rotation; as long as nothing has failed, every other file      *)
(*     below one with lines is full;                                       *)
(*   - a log that is open, or at a line, is one the registry will close.   *)
(***************************************************************************)
EXTENDS LoggingRefinement, SequenceTheorems, WellFoundedInduction, TLAPS

-----------------------------------------------------------------------------
(* The files and the streams. *)

SinkTypes ==
  /\ files \in [Logs -> [Index -> Seq(Nat)]] /\ exists \in [Logs -> SUBSET Index]
  /\ stream \in [Logs -> [open : BOOLEAN, buffer : Seq(Nat)]]
  /\ current_size_ \in [Logs -> Nat] /\ line \in [Logs -> Nat]
  /\ at \in [in : {"no_sink", "rotate", "retry", "write"}, log : Logs \cup {"none"}, i : Index]
  /\ ~In("no_sink") => at.log \in Logs
  /\ In("retry") => at.i > 0

Held(l) == Len(files[l][0]) + Len(stream[l].buffer)
Coming(l) == IF In("write") /\ at.log = l THEN 1 ELSE 0

\* current_size_ counts what the file and the buffer hold, and the line that is
\* about to be written.
Counted(l) ==
  /\ \A i \in Index : Len(files[l][i]) <= max_size
  /\ IF stream[l].open
       THEN Held(l) + Coming(l) <= current_size_[l] /\ current_size_[l] <= max_size
       ELSE stream[l].buffer = <<>>

Rotating ==
  In("rotate") \/ In("retry") => ~stream[at.log].open /\ current_size_[at.log] > max_size

SinkInv == SinkTypes /\ (\A l \in Logs : Counted(l)) /\ Rotating /\ NeverWritesToNull

\* The next line finds the stream open, or opens it.
Ready(l) == stream[l].open \/ current_size_[l] > max_size

-----------------------------------------------------------------------------
(* What is to be called. *)

SetupCalls == {"set_default", "default", "log", "flush_every"}
StopCalls == {"deactivate", "join"}
EndCalls == StopCalls \cup {"stop_flusher", "destroy"}

Call ==
  [call : {"sink", "register"} \cup SetupCalls \cup EndCalls,
   model : Models \cup {"none"}, worker : 0 .. 2]

Ending(t) == t # <<>> /\ t[Len(t)].call = "destroy"

\* Where in the list a call may be: a worker is told and joined before anything
\* else, a model is registered as soon as it has its sink, and once the program
\* ends only the end is left.
CallInOrder(t, k) ==
  /\ t[k].worker # 0 <=> t[k].call \in StopCalls
  /\ t[k].call = "deactivate" =>
       k = 1 /\ Len(t) >= 2 /\ t[2].call = "join" /\ t[2].worker = t[1].worker
  /\ t[k].call = "join" => k = 1 \/ (k = 2 /\ t[1].call = "deactivate")
  /\ t[k].call = "register" => k = 1
  /\ t[k].call = "stop_flusher" => k = 1 /\ Len(t) = 2 /\ t[2].call = "destroy"
  /\ t[k].call = "destroy" => k = Len(t)
  /\ t[k].call \in {"sink", "register", "log"} => t[k].model \in Models
  /\ t[k].call = "set_default" => t[k].model = "tlms"
  /\ Ending(t) => t[k].call \in EndCalls

InOrder(t) == t \in Seq(Call) /\ \A k \in 1 .. Len(t) : CallInOrder(t, k)

\* The model is registered, or will be by the next call.
Known(t, m) == m \in loggers_ \/ (t # <<>> /\ t[1].call = "register" /\ t[1].model = m)

\* Whoever is asked for is registered, and so is the default logger, until the
\* end; every model of the test bench is registered or has still to set up.
Registered ==
  /\ \A k \in 1 .. Len(todo) :
       todo[k].call \in {"log", "set_default"} => Known(todo, todo[k].model)
  /\ default_logger_ = "tlms" => "tlms" \in loggers_
  /\ default_logger_ = "none" => Ending(todo)
  /\ \A m \in ToSet(run.program) :
       \/ m \in loggers_ \/ Ending(todo)
       \/ \E k \in 1 .. Len(todo) : todo[k].call \in {"sink", "register"} /\ todo[k].model = m

\* A logger in the registry has a sink that has been constructed.
Usable == \A l \in Logs : Known(todo, l) => Ready(l)

Told(t, w) == \E k \in 1 .. Len(t) : t[k].worker = w

\* A worker that is not told to stop, or about to be, is the current one.
Flushers ==
  \A w \in Workers :
    worker[w].in # "none" =>
      \/ Told(todo, w)
      \/ w = periodic_flusher_ /\ (Ending(todo) => todo[1].call = "stop_flusher")

WorkerState ==
  [in : {"none", "wait", "callback", "flush_all", "ended"}, left : SUBSET (Logs \cup {"console"})]

Types ==
  /\ loggers_ \subseteq Logs \cup {"console"} /\ default_logger_ \in {"console", "tlms", "none"}
  /\ periodic_flusher_ \in 0 .. 2 /\ active_ \in [Workers -> BOOLEAN]
  /\ worker \in [Workers -> WorkerState]
  /\ run \in [number : Nat, up : BOOLEAN, program : Programs]

LogInv ==
  /\ SinkInv /\ Types
  /\ run.up => InOrder(todo) /\ Registered /\ Usable /\ Flushers /\ FlushesLiveLoggers
  /\ ~run.up => In("no_sink")

-----------------------------------------------------------------------------
(* The steps of a sink. *)

LEMMA SinkFacts ==
  ASSUME SinkTypes, NEW l \in Logs
  PROVE  /\ max_size \in Nat \ {0} /\ max_files \in Nat \ {0} /\ 0 \in Index /\ Index \subseteq Nat
         /\ files[l] \in [Index -> Seq(Nat)] /\ files[l][0] \in Seq(Nat) /\ Len(files[l][0]) \in Nat
         /\ stream[l] \in [open : BOOLEAN, buffer : Seq(Nat)] /\ stream[l].open \in BOOLEAN
         /\ stream[l].buffer \in Seq(Nat) /\ Len(stream[l].buffer) \in Nat
         /\ current_size_[l] \in Nat /\ line[l] \in Nat
<1>1. max_size \in Nat \ {0} /\ max_files \in Nat \ {0} /\ 0 \in Index /\ Index \subseteq Nat
  BY SinkAssumption DEF Index
<1>2. files[l] \in [Index -> Seq(Nat)] /\ stream[l] \in [open : BOOLEAN, buffer : Seq(Nat)]
      /\ current_size_[l] \in Nat /\ line[l] \in Nat
  BY DEF SinkTypes
<1>3. files[l][0] \in Seq(Nat) /\ stream[l].buffer \in Seq(Nat) /\ stream[l].open \in BOOLEAN
  BY <1>1, <1>2
<1> QED
  BY <1>1, <1>2, <1>3, LenProperties

LEMMA Sums == \A m, n \in Nat : m + n \in Nat /\ m + (n + 1) = (m + n) + 1 /\ n + 1 \in Nat
OBVIOUS

LEMMA Bounds ==
  /\ \A n \in Nat \ {0} : n # 1 => n \in 2 .. n
  /\ \A n \in 2 .. 4 : n \in 2 .. n
  /\ \A n \in Nat \ {0} : 2 + n - 1 \in Nat /\ 2 + n - 1 >= 2 /\ 1 \in 1 .. 2 + n - 1
OBVIOUS

LEMMA HeldIsNat == ASSUME SinkTypes, NEW l \in Logs PROVE Held(l) \in Nat
<1>1. Len(files[l][0]) \in Nat /\ Len(stream[l].buffer) \in Nat
  BY SinkFacts
<1> QED
  BY <1>1, Sums, Zenon DEF Held

\* All a sink step may change, in terms of the log it works on.
LEMMA OneLog ==
  ASSUME SinkTypes, NEW l \in Logs, NEW f \in [Index -> Seq(Nat)],
         NEW s \in [open : BOOLEAN, buffer : Seq(Nat)], NEW n \in Nat,
         files' = [files EXCEPT ![l] = f], stream' = [stream EXCEPT ![l] = s],
         current_size_' = [current_size_ EXCEPT ![l] = n]
  PROVE  /\ files' \in [Logs -> [Index -> Seq(Nat)]]
         /\ stream' \in [Logs -> [open : BOOLEAN, buffer : Seq(Nat)]]
         /\ current_size_' \in [Logs -> Nat]
         /\ files'[l] = f /\ stream'[l] = s /\ current_size_'[l] = n
         /\ \A k \in Logs \ {l} :
              files'[k] = files[k] /\ stream'[k] = stream[k] /\ current_size_'[k] = current_size_[k]
BY DEF SinkTypes

\* What is left of the invariant when the step is one of that log.
LEMMA OneLogKeeps ==
  ASSUME SinkInv, NEW l \in Logs, SinkTypes', at.log = l \/ In("no_sink"),
         at'.log = l \/ In("no_sink")', Counted(l)', Ready(l) => Ready(l)',
         Rotating', NeverWritesToNull',
         \A k \in Logs \ {l} :
           files'[k] = files[k] /\ stream'[k] = stream[k] /\ current_size_'[k] = current_size_[k]
  PROVE  SinkInv' /\ \A k \in Logs : Ready(k) => Ready(k)'
<1>1. ASSUME NEW k \in Logs, k # l PROVE Counted(k)' /\ (Ready(k) => Ready(k)')
  <2>1. Coming(k) = 0 /\ Coming(k)' = 0
    <3>1. ~(In("write") /\ at.log = k) /\ ~(at'.in = "write" /\ at'.log = k)
      BY <1>1 DEF In
    <3> QED
      BY <3>1 DEF Coming, In
  <2>2. Counted(k) /\ files'[k] = files[k] /\ stream'[k] = stream[k] /\ current_size_'[k] = current_size_[k]
    BY <1>1 DEF SinkInv
  <2> QED
    <3>1. Held(k)' = Held(k) /\ (Ready(k)' <=> Ready(k))
      BY <2>2 DEF Held, Ready
    <3>2. \A i \in Index : Len(files'[k][i]) <= max_size
      BY <2>2 DEF Counted
    <3> QED
      BY <2>1, <2>2, <3>1, <3>2 DEF Counted
<1> QED
  BY <1>1 DEF SinkInv

LEMMA OpenedIs ==
  /\ Opened \in [open : BOOLEAN, buffer : Seq(Nat)] /\ Closed \in [open : BOOLEAN, buffer : Seq(Nat)]
  /\ Opened.open /\ Opened.buffer = <<>> /\ ~Closed.open /\ Closed.buffer = <<>>
<1>1. <<>> \in Seq(Nat)
  BY EmptySeq
<1> QED
  BY <1>1 DEF Opened, Closed

\* fopen, of an empty file or of one that goes on.
LEMMA Opens ==
  ASSUME SinkTypes, NEW l \in Logs, NEW truncate \in BOOLEAN, Open(l, truncate)
  PROVE  LET f == [files[l] EXCEPT ![0] = IF truncate THEN <<>> ELSE files[l][0]] IN
         /\ files' = [files EXCEPT ![l] = f] /\ f \in [Index -> Seq(Nat)]
         /\ f[0] = IF truncate THEN <<>> ELSE files[l][0]
         /\ \A i \in Index \ {0} : f[i] = files[l][i]
         /\ stream' = [stream EXCEPT ![l] = Opened] /\ Opened \in [open : BOOLEAN, buffer : Seq(Nat)]
         /\ exists' \in [Logs -> SUBSET Index]
<1>1. files[l] \in [Index -> Seq(Nat)] /\ 0 \in Index /\ <<>> \in Seq(Nat)
  BY SinkFacts
<1>2. exists' \in [Logs -> SUBSET Index]
  BY <1>1 DEF Open, SinkTypes
<1>3. Opened \in [open : BOOLEAN, buffer : Seq(Nat)]
  BY <1>1 DEF Opened
<1> QED
  BY <1>1, <1>2, <1>3 DEF Open, SinkTypes

LEMMA ConstructKeeps ==
  ASSUME SinkInv, NEW l \in Logs, In("no_sink"), Construct(l)
  PROVE  SinkInv' /\ Ready(l)' /\ \A k \in Logs : Ready(k) => Ready(k)'
<1> DEFINE f == [files[l] EXCEPT ![0] = files[l][0]]
<1>1. /\ files' = [files EXCEPT ![l] = f] /\ f \in [Index -> Seq(Nat)] /\ f[0] = files[l][0]
      /\ \A i \in Index \ {0} : f[i] = files[l][i]
      /\ stream' = [stream EXCEPT ![l] = Opened] /\ Opened \in [open : BOOLEAN, buffer : Seq(Nat)]
      /\ exists' \in [Logs -> SUBSET Index]
  BY Opens DEF Construct, SinkInv
<1>2. /\ current_size_' = [current_size_ EXCEPT ![l] = Len(files[l][0])] /\ Len(files[l][0]) \in Nat
      /\ UNCHANGED <<line, at, faults>> /\ SinkTypes
  BY SinkFacts DEF Construct, SinkInv
<1> HIDE DEF f
<1>3. /\ files' \in [Logs -> [Index -> Seq(Nat)]]
      /\ stream' \in [Logs -> [open : BOOLEAN, buffer : Seq(Nat)]]
      /\ current_size_' \in [Logs -> Nat]
      /\ files'[l] = f /\ stream'[l] = Opened /\ current_size_'[l] = Len(files[l][0])
      /\ \A k \in Logs \ {l} :
           files'[k] = files[k] /\ stream'[k] = stream[k] /\ current_size_'[k] = current_size_[k]
  BY <1>1, <1>2, OneLog
<1>4. SinkTypes'
  BY <1>1, <1>2, <1>3 DEF SinkTypes, In
<1>5. Counted(l)'
  <2>1. \A i \in Index : Len(files[l][i]) <= max_size
    BY DEF SinkInv, Counted
  <2>2. \A i \in Index : Len(files'[l][i]) <= max_size
    BY <1>1, <1>3, <2>1
  <2>3. stream'[l].open /\ stream'[l].buffer = <<>>
    BY <1>3, OpenedIs
  <2>4. Held(l)' = Len(files[l][0]) /\ Coming(l)' = 0
    <3>1. Held(l)' = Len(files[l][0])
      <4>1. files'[l][0] = files[l][0]
        BY <1>1, <1>3
      <4>2. Len(<<>>) = 0
        OBVIOUS
      <4> QED
        BY <1>2, <2>3, <4>1, <4>2 DEF Held
    <3>2. at' = at /\ at.in # "write"
      BY <1>2 DEF In
    <3> QED
      BY <3>1, <3>2 DEF Coming, In
  <2>5. Len(files[l][0]) <= max_size
    BY <1>2, <2>1, SinkFacts
  <2> QED
    BY <1>2, <1>3, <2>2, <2>3, <2>4, <2>5 DEF Counted
<1>6. Ready(l)'
  BY <1>3, OpenedIs DEF Ready
<1>7. Rotating' /\ NeverWritesToNull'
  BY <1>2 DEF Rotating, NeverWritesToNull, In
<1> QED
  BY <1>2, <1>3, <1>4, <1>5, <1>6, <1>7, OneLogKeeps DEF In

\* A line begins: there is room for it, or the file is closed.
LEMMA BeginKeeps ==
  ASSUME SinkInv, NEW l \in Logs, Ready(l), Begin(l)
  PROVE  SinkInv' /\ \A k \in Logs : Ready(k) => Ready(k)'
<1> DEFINE n == current_size_[l] + 1
<1>1. /\ SinkTypes /\ n \in Nat /\ 0 \in Index /\ max_files \in Index /\ max_size \in Nat
      /\ files[l] \in [Index -> Seq(Nat)] /\ files[l][0] \in Seq(Nat)
      /\ stream[l] \in [open : BOOLEAN, buffer : Seq(Nat)] /\ stream[l].buffer \in Seq(Nat)
      /\ Len(files[l][0]) \in Nat /\ Len(stream[l].buffer) \in Nat
      /\ current_size_[l] \in Nat /\ stream[l].open \in BOOLEAN
  BY SinkFacts DEF SinkInv, Index
<1>2. /\ In("no_sink") /\ current_size_' = [current_size_ EXCEPT ![l] = n]
      /\ at'.in = (IF n > max_size THEN "rotate" ELSE "write") /\ at'.log = l /\ at'.i = max_files
      /\ UNCHANGED <<exists, line, faults>>
      /\ at' \in [in : {"no_sink", "rotate", "retry", "write"}, log : Logs \cup {"none"}, i : Index]
  BY <1>1 DEF Begin, TooLong, SinkTypes
<1>3. Counted(l) /\ Coming(l) = 0
  BY <1>2 DEF SinkInv, Coming, In
<1>4. CASE n > max_size
  <2> DEFINE f == [files[l] EXCEPT ![0] = files[l][0] \o stream[l].buffer]
  <2>1. files' = [files EXCEPT ![l] = f] /\ stream' = [stream EXCEPT ![l] = Closed]
    <3>1. files' = Written(l) /\ stream' = [stream EXCEPT ![l] = Closed]
      BY <1>4 DEF Begin, TooLong
    <3>2. Written(l) = [files EXCEPT ![l] = f]
      BY <1>1 DEF Written, SinkTypes
    <3> QED
      BY <3>1, <3>2
  <2>2. /\ f \in [Index -> Seq(Nat)] /\ f[0] = files[l][0] \o stream[l].buffer
        /\ \A i \in Index \ {0} : f[i] = files[l][i]
    <3>1. files[l][0] \o stream[l].buffer \in Seq(Nat)
      BY <1>1, ConcatProperties
    <3> QED
      BY <1>1, <3>1
  <2>3. Len(f[0]) = Held(l)
    <3>1. Len(files[l][0] \o stream[l].buffer) = Len(files[l][0]) + Len(stream[l].buffer)
      BY <1>1, ConcatProperties
    <3> QED
      BY <2>2, <3>1 DEF Held
  <2>4. Held(l) <= max_size
    <3>1. CASE stream[l].open
      <4>1. Held(l) + Coming(l) <= current_size_[l] /\ current_size_[l] <= max_size
        BY <1>3, <3>1 DEF Counted
      <4>2. Held(l) \in Nat
        BY <1>1, HeldIsNat
      <4> QED
        BY <1>1, <1>3, <4>1, <4>2
    <3>2. CASE ~stream[l].open
      <4>1. Len(stream[l].buffer) = 0
        BY <1>3, <3>2 DEF Counted
      <4> QED
        BY <1>1, <1>3, <4>1 DEF Counted, Held
    <3> QED
      BY <3>1, <3>2
  <2> HIDE DEF f
  <2>5. /\ files' \in [Logs -> [Index -> Seq(Nat)]]
        /\ stream' \in [Logs -> [open : BOOLEAN, buffer : Seq(Nat)]]
        /\ current_size_' \in [Logs -> Nat]
        /\ files'[l] = f /\ stream'[l] = Closed /\ current_size_'[l] = n
        /\ \A k \in Logs \ {l} :
             files'[k] = files[k] /\ stream'[k] = stream[k] /\ current_size_'[k] = current_size_[k]
    BY <1>1, <1>2, <2>1, <2>2, OneLog, OpenedIs
  <2>6. at'.in = "rotate"
    BY <1>2, <1>4
  <2>7. SinkTypes'
    BY <1>1, <1>2, <2>5, <2>6 DEF SinkTypes, In
  <2>8. Counted(l)'
    <3>1. \A i \in Index : Len(f[i]) <= max_size
      BY <1>3, <2>2, <2>3, <2>4 DEF Counted
    <3> QED
      BY <2>5, <3>1, OpenedIs DEF Counted
  <2>9. Ready(l)' /\ Rotating' /\ NeverWritesToNull'
    BY <1>2, <1>4, <2>5, <2>6, OpenedIs DEF Ready, Rotating, NeverWritesToNull, In
  <2> QED
    BY <1>2, <2>5, <2>7, <2>8, <2>9, OneLogKeeps
<1>5. CASE ~(n > max_size)
  <2>1. UNCHANGED <<files, stream>> /\ at'.in = "write"
    BY <1>2, <1>5 DEF Begin, TooLong
  <2>2. stream[l].open
    BY <1>1, <1>5 DEF Ready
  <2>3. /\ current_size_'[l] = n /\ current_size_' \in [Logs -> Nat]
        /\ \A k \in Logs \ {l} : current_size_'[k] = current_size_[k]
    BY <1>1, <1>2 DEF SinkTypes
  <2>4. SinkTypes'
    BY <1>1, <1>2, <2>1, <2>3 DEF SinkTypes, In
  <2>5. Counted(l)'
    <3>1. Held(l)' = Held(l) /\ Coming(l)' = 1 /\ stream'[l].open /\ Held(l) \in Nat
      <4>1. Held(l)' = Held(l)
        BY <2>1 DEF Held
      <4>2. Coming(l)' = 1
        BY <1>2, <2>1 DEF Coming, In
      <4> QED
        BY <1>1, <2>1, <2>2, <4>1, <4>2, HeldIsNat
    <3>2. Held(l) <= current_size_[l]
      BY <1>3, <2>2, <3>1, SinkFacts, <1>1 DEF Counted
    <3>3. \A i \in Index : Len(files'[l][i]) <= max_size
      BY <1>3, <2>1 DEF Counted
    <3>4. Held(l)' + Coming(l)' <= n /\ n <= max_size
      BY <1>1, <1>5, <3>1, <3>2, SinkFacts
    <3> QED
      BY <2>3, <3>1, <3>3, <3>4 DEF Counted
  <2>6. Ready(l)' /\ Rotating' /\ NeverWritesToNull'
    BY <1>2, <2>1, <2>2 DEF Ready, Rotating, NeverWritesToNull, In
  <2>7. \A k \in Logs \ {l} : files'[k] = files[k] /\ stream'[k] = stream[k]
    BY <2>1
  <2> QED
    BY <1>2, <2>3, <2>4, <2>5, <2>6, <2>7, OneLogKeeps
<1> QED
  BY <1>4, <1>5

\* The log that rotates, and what is known of it.
LEMMA RotatingLog ==
  ASSUME SinkInv, In("rotate") \/ In("retry")
  PROVE  /\ at.log \in Logs /\ ~stream[at.log].open /\ current_size_[at.log] > max_size
         /\ stream[at.log].buffer = <<>> /\ SinkTypes /\ at.i \in Index
         /\ files[at.log] \in [Index -> Seq(Nat)] /\ Len(files[at.log][0]) \in Nat
         /\ \A i \in Index : Len(files[at.log][i]) <= max_size
<1>1. at.log \in Logs /\ at.i \in Index /\ SinkTypes
  BY DEF SinkInv, SinkTypes, In
<1>2. ~stream[at.log].open /\ current_size_[at.log] > max_size
  BY DEF SinkInv, Rotating
<1>3. Counted(at.log)
  BY <1>1 DEF SinkInv
<1> QED
  BY <1>1, <1>2, <1>3, SinkFacts DEF Counted

\* Files move while the stream is closed.
LEMMA MovesKeep ==
  ASSUME SinkInv, In("rotate") \/ In("retry"), NEW f \in [Index -> Seq(Nat)],
         \A i \in Index : Len(f[i]) <= max_size,
         files' = [files EXCEPT ![at.log] = f], exists' \in [Logs -> SUBSET Index],
         UNCHANGED <<stream, current_size_, line>>,
         NEW place \in {"rotate", "retry"}, NEW i \in Index, place = "retry" => i > 0,
         Goes(place, i)
  PROVE  SinkInv' /\ \A k \in Logs : Ready(k) => Ready(k)'
<1>0. PICK l \in Logs : l = at.log
  BY RotatingLog
<1>1. /\ l \in Logs /\ ~stream[l].open /\ current_size_[l] > max_size
      /\ stream[l].buffer = <<>> /\ SinkTypes
  BY <1>0, RotatingLog
<1>2. /\ at'.in = place /\ at'.log = l /\ at'.i = i
      /\ at' \in [in : {"no_sink", "rotate", "retry", "write"}, log : Logs \cup {"none"}, i : Index]
  BY <1>0, <1>1 DEF Goes, SinkTypes
<1>3. files'[l] = f /\ files' \in [Logs -> [Index -> Seq(Nat)]] /\ \A k \in Logs \ {l} : files'[k] = files[k]
  BY <1>0, <1>1 DEF SinkTypes
<1>4. SinkTypes'
  BY <1>1, <1>2, <1>3 DEF SinkTypes, In
<1>5. Counted(l)'
  BY <1>1, <1>3 DEF Counted
<1>6. Rotating' /\ NeverWritesToNull' /\ (Ready(l) => Ready(l)')
  BY <1>1, <1>2 DEF Rotating, NeverWritesToNull, In, Ready
<1>7. \A k \in Logs \ {l} :
        files'[k] = files[k] /\ stream'[k] = stream[k] /\ current_size_'[k] = current_size_[k]
  BY <1>3
<1> QED
  BY <1>0, <1>1, <1>2, <1>4, <1>5, <1>6, <1>7, OneLogKeeps

LEMMA MovedFile ==
  ASSUME SinkInv, In("rotate") \/ In("retry"), at.i > 0
  PROVE  /\ at.i - 1 \in Index
         /\ \E f \in [Index -> Seq(Nat)] :
              /\ \A j \in Index : Len(f[j]) <= max_size
              /\ Moved(at.log, at.i) => files' = [files EXCEPT ![at.log] = f]
<1>0. PICK l \in Logs : l = at.log
  BY RotatingLog
<1> DEFINE f == [files[l] EXCEPT ![at.i] = files[l][at.i - 1], ![at.i - 1] = <<>>]
<1>1. /\ at.i \in Index /\ at.i - 1 \in Index /\ files[l] \in [Index -> Seq(Nat)] /\ <<>> \in Seq(Nat)
      /\ Len(<<>>) = 0 /\ 0 <= max_size /\ SinkTypes
      /\ \A j \in Index : Len(files[l][j]) <= max_size
  BY <1>0, RotatingLog, SinkAssumption, EmptySeq DEF Index
<1>2. /\ f \in [Index -> Seq(Nat)]
      /\ \A j \in Index : f[j] = IF j = at.i - 1 THEN <<>> ELSE IF j = at.i THEN files[l][at.i - 1]
                                 ELSE files[l][j]
  <2> DEFINE g == [files[l] EXCEPT ![at.i] = files[l][at.i - 1]]
  <2>1. files[l][at.i - 1] \in Seq(Nat)
    BY <1>1
  <2>2. g \in [Index -> Seq(Nat)] /\ \A j \in Index : g[j] = IF j = at.i THEN files[l][at.i - 1] ELSE files[l][j]
    BY <1>1, <2>1
  <2>3. f = [g EXCEPT ![at.i - 1] = <<>>]
    OBVIOUS
  <2> HIDE DEF g, f
  <2> QED
    BY <1>1, <2>2, <2>3
<1>3. \A j \in Index : Len(f[j]) <= max_size
  BY <1>1, <1>2
<1>4. Moved(l, at.i) => files' = [files EXCEPT ![l] = f]
  BY <1>1 DEF Moved, SinkTypes
<1> QED
  BY <1>0, <1>1, <1>2, <1>3, <1>4

LEMMA ShiftKeeps == ASSUME SinkInv, Shift PROVE SinkInv' /\ \A k \in Logs : Ready(k) => Ready(k)'
<1>1. /\ In("rotate") /\ at.i > 0 /\ Goes("rotate", at.i - 1) /\ UNCHANGED <<stream, current_size_, line>>
      /\ at.i - 1 \in Index
  BY MovedFile DEF Shift
<1>2. CASE at.i - 1 \in exists[at.log]
  <2>1. exists' \in [Logs -> SUBSET Index]
    <3>1. exists' = [exists EXCEPT ![at.log] = (exists[at.log] \ {at.i - 1}) \cup {at.i}]
      BY <1>2 DEF Shift
    <3>2. exists \in [Logs -> SUBSET Index] /\ at.i \in Index
      BY <1>1, RotatingLog DEF SinkTypes
    <3> QED
      BY <3>1, <3>2
  <2>2. Moved(at.log, at.i)
    BY <1>2 DEF Shift
  <2>3. PICK f \in [Index -> Seq(Nat)] : /\ \A j \in Index : Len(f[j]) <= max_size
                                         /\ files' = [files EXCEPT ![at.log] = f]
    BY <1>1, <2>2, MovedFile
  <2> QED
    BY <1>1, <2>1, <2>3, MovesKeep
<1>3. CASE at.i - 1 \notin exists[at.log]
  <2>1. UNCHANGED <<files, exists>>
    BY <1>3 DEF Shift
  <2>2. /\ files[at.log] \in [Index -> Seq(Nat)] /\ files' = [files EXCEPT ![at.log] = files[at.log]]
        /\ \A j \in Index : Len(files[at.log][j]) <= max_size /\ exists' \in [Logs -> SUBSET Index]
    BY <1>1, <2>1, RotatingLog DEF SinkTypes
  <2> QED
    BY <1>1, <2>2, MovesKeep
<1> QED
  BY <1>2, <1>3

LEMMA RetriedKeeps == ASSUME SinkInv, Retried PROVE SinkInv' /\ \A k \in Logs : Ready(k) => Ready(k)'
<1>1. /\ In("retry") /\ at.i > 0 /\ Goes("rotate", at.i - 1) /\ UNCHANGED <<stream, current_size_, line>>
      /\ Moved(at.log, at.i)
  BY DEF Retried, SinkInv, SinkTypes
<1>2. at.i - 1 \in Index /\ exists' \in [Logs -> SUBSET Index]
  BY <1>1, MovedFile, RotatingLog DEF Retried, SinkTypes
<1>3. PICK f \in [Index -> Seq(Nat)] : /\ \A j \in Index : Len(f[j]) <= max_size
                                       /\ files' = [files EXCEPT ![at.log] = f]
  BY <1>1, MovedFile
<1> QED
  BY <1>1, <1>2, <1>3, MovesKeep

LEMMA RenameFailsKeeps ==
  ASSUME SinkInv, RenameFails
  PROVE  SinkInv' /\ \A k \in Logs : Ready(k) => Ready(k)'
<1>0. /\ In("rotate") /\ at.i > 0 /\ at.i \in Index /\ Goes("retry", at.i)
      /\ UNCHANGED <<stream, current_size_, line>>
  BY RotatingLog DEF RenameFails
<1>1. PICK l \in Logs : l = at.log
  BY <1>0, RotatingLog
<1> DEFINE f == [files[l] EXCEPT ![at.i] = <<>>]
<1>2. /\ files[l] \in [Index -> Seq(Nat)] /\ <<>> \in Seq(Nat) /\ Len(<<>>) = 0 /\ 0 <= max_size /\ SinkTypes
      /\ \A j \in Index : Len(files[l][j]) <= max_size
  BY <1>0, <1>1, RotatingLog, SinkAssumption, EmptySeq
<1>3. f \in [Index -> Seq(Nat)] /\ \A j \in Index : f[j] = IF j = at.i THEN <<>> ELSE files[l][j]
  BY <1>0, <1>2
<1>4. \A j \in Index : Len(f[j]) <= max_size
  BY <1>2, <1>3
<1>5. files' = [files EXCEPT ![at.log] = f] /\ exists' \in [Logs -> SUBSET Index]
  BY <1>0, <1>1, <1>2 DEF RenameFails, SinkTypes
<1> QED
  BY <1>0, <1>3, <1>4, <1>5, MovesKeep

\* The file starts anew, for a line or after one that is lost.
LEMMA TruncateKeeps ==
  ASSUME SinkInv, In("rotate") \/ In("retry"), Open(at.log, TRUE), NEW n \in {0, 1},
         current_size_' = [current_size_ EXCEPT ![at.log] = n], line' \in [Logs -> Nat],
         IF n = 0 THEN at' = Free ELSE Goes("write", 0)
  PROVE  SinkInv' /\ \A k \in Logs : Ready(k) => Ready(k)'
<1>0. PICK l \in Logs : l = at.log
  BY RotatingLog
<1> DEFINE f == [files[l] EXCEPT ![0] = <<>>]
<1>1. /\ SinkTypes /\ files[l] \in [Index -> Seq(Nat)] /\ 0 \in Index /\ 1 <= max_size
      /\ \A i \in Index : Len(files[l][i]) <= max_size /\ n \in Nat /\ Len(<<>>) = 0
  BY <1>0, RotatingLog, SinkAssumption DEF Index
<1>2. /\ files' = [files EXCEPT ![l] = f] /\ f \in [Index -> Seq(Nat)] /\ f[0] = <<>>
      /\ \A i \in Index \ {0} : f[i] = files[l][i]
      /\ stream' = [stream EXCEPT ![l] = Opened] /\ exists' \in [Logs -> SUBSET Index]
  <2>1. Open(l, TRUE)
    BY <1>0
  <2>2. LET g == [files[l] EXCEPT ![0] = IF TRUE THEN <<>> ELSE files[l][0]] IN
        /\ files' = [files EXCEPT ![l] = g] /\ g \in [Index -> Seq(Nat)]
        /\ g[0] = IF TRUE THEN <<>> ELSE files[l][0]
        /\ \A i \in Index \ {0} : g[i] = files[l][i]
        /\ stream' = [stream EXCEPT ![l] = Opened] /\ exists' \in [Logs -> SUBSET Index]
    BY <1>1, <2>1, Opens
  <2> QED
    BY <2>2
<1> HIDE DEF f
<1>3. /\ files' \in [Logs -> [Index -> Seq(Nat)]]
      /\ stream' \in [Logs -> [open : BOOLEAN, buffer : Seq(Nat)]]
      /\ current_size_' \in [Logs -> Nat]
      /\ files'[l] = f /\ stream'[l] = Opened /\ current_size_'[l] = n
      /\ \A k \in Logs \ {l} :
           files'[k] = files[k] /\ stream'[k] = stream[k] /\ current_size_'[k] = current_size_[k]
  BY <1>0, <1>1, <1>2, OneLog, OpenedIs
<1>4. /\ at' \in [in : {"no_sink", "rotate", "retry", "write"}, log : Logs \cup {"none"}, i : Index]
      /\ n = 0 => at'.in = "no_sink"
      /\ n = 1 => at'.in = "write" /\ at'.log = l
      /\ at'.in \in {"no_sink", "write"} /\ (at'.in = "write" => at'.log = l)
  <2>1. CASE n = 0
    BY <1>1, <2>1 DEF Free
  <2>2. CASE n = 1
    <3>1. at' = [at EXCEPT !.in = "write", !.i = 0]
      BY <2>2 DEF Goes
    <3>2. at \in [in : {"no_sink", "rotate", "retry", "write"}, log : Logs \cup {"none"}, i : Index]
      BY <1>1 DEF SinkTypes
    <3>3. /\ at'.in = "write" /\ at'.log = l
          /\ at' \in [in : {"no_sink", "rotate", "retry", "write"}, log : Logs \cup {"none"}, i : Index]
      BY <1>0, <1>1, <3>1, <3>2
    <3> QED
      BY <2>2, <3>3
  <2> QED
    BY <2>1, <2>2
<1>5. SinkTypes'
  BY <1>2, <1>3, <1>4 DEF SinkTypes, In
<1>6. Counted(l)'
  <2>1. Coming(l)' = n
    BY <1>4 DEF Coming, In
  <2>2. Held(l)' = 0
    <3>1. files'[l][0] = <<>> /\ stream'[l].buffer = <<>>
      BY <1>2, <1>3, OpenedIs
    <3> QED
      BY <1>1, <3>1 DEF Held
  <2>3. \A i \in Index : Len(files'[l][i]) <= max_size
    <3>1. ASSUME NEW i \in Index PROVE Len(f[i]) <= max_size
      <4>1. CASE i = 0
        BY <1>1, <1>2, <4>1, SinkAssumption
      <4>2. CASE i # 0
        BY <1>1, <1>2, <4>2
      <4> QED
        BY <4>1, <4>2
    <3> QED
      BY <1>3, <3>1
  <2> QED
    BY <1>1, <1>3, <2>1, <2>2, <2>3, SinkAssumption, OpenedIs DEF Counted
<1>7. Ready(l)' /\ Rotating' /\ NeverWritesToNull'
  BY <1>3, <1>4, OpenedIs DEF Ready, Rotating, NeverWritesToNull, In
<1> QED
  BY <1>0, <1>3, <1>4, <1>5, <1>6, <1>7, OneLogKeeps DEF In

\* A line is lost, and nothing else changes.
LEMMA LostKeeps ==
  ASSUME SinkInv, ~In("no_sink"), Thrown, UNCHANGED <<files, exists, stream, current_size_>>
  PROVE  SinkInv' /\ \A k \in Logs : Ready(k) => Ready(k)'
<1>0. PICK l \in Logs : l = at.log
  BY DEF SinkInv, SinkTypes
<1>1. SinkTypes /\ 0 \in Index /\ line[l] \in Nat
  BY SinkFacts DEF SinkInv
<1>2. /\ at'.in = "no_sink" /\ line' \in [Logs -> Nat]
      /\ at' \in [in : {"no_sink", "rotate", "retry", "write"}, log : Logs \cup {"none"}, i : Index]
  BY <1>0, <1>1 DEF Thrown, Free, SinkTypes
<1>3. SinkTypes' /\ Rotating' /\ NeverWritesToNull'
  BY <1>1, <1>2 DEF SinkTypes, Rotating, NeverWritesToNull, In
<1>4. Counted(l)'
  <2>1. Held(l)' = Held(l) /\ Coming(l)' = 0 /\ Coming(l) \in {0, 1} /\ Held(l) \in Nat /\ current_size_[l] \in Nat
    BY <1>1, <1>2, HeldIsNat, SinkFacts DEF Held, Coming, In
  <2>2. Counted(l)
    BY DEF SinkInv
  <2> QED
    BY <2>1, <2>2 DEF Counted
<1>5. Ready(l) => Ready(l)'
  BY DEF Ready
<1> QED
  BY <1>0, <1>2, <1>3, <1>4, <1>5, OneLogKeeps DEF In

LEMMA WriteKeeps == ASSUME SinkInv, Write PROVE SinkInv' /\ \A k \in Logs : Ready(k) => Ready(k)'
<1>0. PICK l \in Logs : l = at.log
  BY DEF SinkInv, SinkTypes, Write, In
<1> DEFINE n == line[l] + 1
           b == Append(stream[l].buffer, n)
<1>1. /\ SinkTypes /\ In("write") /\ 0 \in Index /\ max_size \in Nat /\ n \in Nat
      /\ files[l] \in [Index -> Seq(Nat)] /\ files[l][0] \in Seq(Nat)
      /\ stream[l] \in [open : BOOLEAN, buffer : Seq(Nat)] /\ stream[l].buffer \in Seq(Nat)
      /\ current_size_[l] \in Nat /\ Counted(l) /\ stream[l].open /\ Coming(l) = 1 /\ Held(l) \in Nat
  BY <1>0, SinkFacts, HeldIsNat DEF SinkInv, Write, NeverWritesToNull, Coming
<1>2. b \in Seq(Nat) /\ Len(b) = Len(stream[l].buffer) + 1
  BY <1>1, AppendProperties
<1>3. /\ line' = [line EXCEPT ![l] = n] /\ line'[l] = n /\ line' \in [Logs -> Nat]
      /\ UNCHANGED <<exists, current_size_, faults>> /\ at'.in = "no_sink"
      /\ at' \in [in : {"no_sink", "rotate", "retry", "write"}, log : Logs \cup {"none"}, i : Index]
  BY <1>0, <1>1 DEF Write, SinkTypes, Free
<1> HIDE DEF n, b
<1>4. current_size_' = [current_size_ EXCEPT ![l] = current_size_[l]]
  BY <1>1, <1>3 DEF SinkTypes
<1>5. ASSUME NEW f \in [Index -> Seq(Nat)], NEW s \in [open : BOOLEAN, buffer : Seq(Nat)],
             files' = [files EXCEPT ![l] = f], stream' = [stream EXCEPT ![l] = s], s.open,
             \A i \in Index \ {0} : f[i] = files[l][i],
             Len(f[0]) + Len(s.buffer) = Held(l) + 1, Len(f[0]) \in Nat, Len(s.buffer) \in Nat
      PROVE  SinkInv' /\ \A k \in Logs : Ready(k) => Ready(k)'
  <2>1. /\ files' \in [Logs -> [Index -> Seq(Nat)]]
        /\ stream' \in [Logs -> [open : BOOLEAN, buffer : Seq(Nat)]]
        /\ current_size_' \in [Logs -> Nat]
        /\ files'[l] = f /\ stream'[l] = s /\ current_size_'[l] = current_size_[l]
        /\ \A k \in Logs \ {l} :
             files'[k] = files[k] /\ stream'[k] = stream[k] /\ current_size_'[k] = current_size_[k]
    BY <1>1, <1>4, <1>5, OneLog
  <2>2. SinkTypes' /\ Rotating' /\ NeverWritesToNull'
    BY <1>1, <1>3, <2>1 DEF SinkTypes, Rotating, NeverWritesToNull, In
  <2>3. Counted(l)'
    <3>1. Held(l) + 1 <= current_size_[l] /\ current_size_[l] <= max_size
      BY <1>1 DEF Counted
    <3>2. Held(l)' = Held(l) + 1
      BY <1>5, <2>1 DEF Held
    <3>3. Coming(l)' = 0
      BY <1>3 DEF Coming, In
    <3>4. \A i \in Index : Len(f[i]) <= max_size
      <4>1. Len(f[0]) <= max_size
        BY <1>1, <1>5, <3>1
      <4> QED
        BY <1>1, <1>5, <4>1 DEF Counted
    <3> QED
      BY <1>1, <1>5, <2>1, <3>1, <3>2, <3>3, <3>4 DEF Counted
  <2>4. Ready(l)'
    BY <1>5, <2>1 DEF Ready
  <2> QED
    BY <1>0, <1>3, <2>1, <2>2, <2>3, <2>4, OneLogKeeps DEF In
<1>6. CASE stream' = [stream EXCEPT ![at.log].buffer = b] /\ UNCHANGED files
  <2> DEFINE s == [stream[l] EXCEPT !.buffer = b]
  <2>1. s \in [open : BOOLEAN, buffer : Seq(Nat)] /\ s.open /\ s.buffer = b
    BY <1>1, <1>2
  <2>2. stream' = [stream EXCEPT ![l] = s] /\ files' = [files EXCEPT ![l] = files[l]]
    BY <1>0, <1>1, <1>6 DEF SinkTypes
  <2>3. Len(files[l][0]) \in Nat /\ Len(stream[l].buffer) \in Nat
    BY <1>1, SinkFacts
  <2>4. Len(files[l][0]) + Len(b) = Held(l) + 1 /\ Len(b) \in Nat
    BY <1>2, <2>3, Sums, Zenon DEF Held
  <2> HIDE DEF s
  <2> QED
    BY <1>1, <1>5, <2>1, <2>2, <2>3, <2>4
<1>7. CASE stream' = [stream EXCEPT ![at.log].buffer = <<>>]
           /\ files' = [files EXCEPT ![at.log][0] = files[at.log][0] \o b]
  <2> DEFINE s == [stream[l] EXCEPT !.buffer = <<>>]
             f == [files[l] EXCEPT ![0] = files[l][0] \o b]
  <2>1. /\ s \in [open : BOOLEAN, buffer : Seq(Nat)] /\ s.open /\ s.buffer = <<>> /\ Len(<<>>) = 0
        /\ <<>> \in Seq(Nat)
    BY <1>1, EmptySeq
  <2>2. files[l][0] \o b \in Seq(Nat) /\ Len(files[l][0] \o b) = Len(files[l][0]) + Len(b)
    BY <1>1, <1>2, ConcatProperties
  <2>3. f \in [Index -> Seq(Nat)] /\ f[0] = files[l][0] \o b /\ \A i \in Index \ {0} : f[i] = files[l][i]
    BY <1>1, <2>2
  <2>4. stream' = [stream EXCEPT ![l] = s] /\ files' = [files EXCEPT ![l] = f]
    BY <1>0, <1>1, <1>7 DEF SinkTypes
  <2>5. Len(files[l][0]) \in Nat /\ Len(stream[l].buffer) \in Nat
    BY <1>1, SinkFacts
  <2>6. Len(f[0]) = Held(l) + 1 /\ Len(f[0]) \in Nat
    <3>1. Len(files[l][0] \o b) = Held(l) + 1
      BY <1>2, <2>2, <2>5, Sums, Zenon DEF Held
    <3>2. Held(l) + 1 \in Nat
      BY <1>1, Sums
    <3>3. f[0] = files[l][0] \o b
      BY <2>3
    <3> HIDE DEF f
    <3> QED
      BY <3>1, <3>2, <3>3
  <2>7. Len(f[0]) + Len(s.buffer) = Held(l) + 1 /\ Len(s.buffer) \in Nat
    BY <1>1, <2>1, <2>6
  <2> HIDE DEF s, f
  <2> QED
    BY <1>5, <2>1, <2>3, <2>4, <2>6, <2>7
<1> QED
  BY <1>0, <1>3, <1>6, <1>7 DEF Write, b

\* Every step of the thread that logs.
LEMMA SinkItKeeps == ASSUME SinkInv, SinkIt PROVE SinkInv' /\ \A k \in Logs : Ready(k) => Ready(k)'
<1>1. ASSUME at.log \in Logs PROVE Thrown => line' \in [Logs -> Nat]
  BY <1>1, SinkFacts DEF Thrown, SinkInv, SinkTypes
<1>2. CASE RetryFails
  <2>1. In("retry") /\ Thrown /\ Open(at.log, TRUE) /\ current_size_' = [current_size_ EXCEPT ![at.log] = 0]
    BY <1>2 DEF RetryFails
  <2> QED
    BY <1>1, <2>1, RotatingLog, TruncateKeeps DEF Thrown
<1>3. CASE Reopen
  <2>1. /\ In("rotate") /\ Open(at.log, TRUE) /\ current_size_' = [current_size_ EXCEPT ![at.log] = 1]
        /\ Goes("write", 0) /\ line' \in [Logs -> Nat]
    BY <1>3 DEF Reopen, SinkInv, SinkTypes
  <2> QED
    BY <2>1, TruncateKeeps
<1>4. CASE OpenFails \/ WriteFails
  BY <1>4, LostKeeps DEF OpenFails, WriteFails, In
<1> QED
  BY <1>2, <1>3, <1>4, ShiftKeeps, RenameFailsKeeps, RetriedKeeps, WriteKeeps DEF SinkIt

-----------------------------------------------------------------------------
(* Flushes, and the end of a run. *)

LEMMA WrittenIs ==
  ASSUME SinkTypes, NEW k \in Logs
  PROVE  /\ Written(k)[k] \in [Index -> Seq(Nat)] /\ Len(Written(k)[k][0]) = Held(k)
         /\ \A i \in Index \ {0} : Written(k)[k][i] = files[k][i]
<1>1. /\ files \in [Logs -> [Index -> Seq(Nat)]] /\ files[k] \in [Index -> Seq(Nat)] /\ 0 \in Index
      /\ files[k][0] \in Seq(Nat) /\ stream[k].buffer \in Seq(Nat)
  BY SinkFacts DEF SinkTypes
<1> DEFINE both == files[k][0] \o stream[k].buffer
<1>2. both \in Seq(Nat) /\ Len(both) = Held(k)
  BY <1>1, ConcatProperties DEF Held
<1> HIDE DEF both
<1>3. Written(k)[k] = [files[k] EXCEPT ![0] = both]
  BY <1>1 DEF Written, both
<1> QED
  BY <1>1, <1>2, <1>3

\* The file can take what is in the buffer.
LEMMA HeldFits == ASSUME SinkInv, NEW k \in Logs PROVE Held(k) <= max_size /\ Held(k) \in Nat
<1>1. /\ Counted(k) /\ Coming(k) \in {0, 1} /\ Held(k) \in Nat /\ max_size \in Nat /\ current_size_[k] \in Nat
      /\ Len(files[k][0]) \in Nat /\ Len(stream[k].buffer) \in Nat /\ 0 \in Index
  BY HeldIsNat, SinkFacts DEF SinkInv, Coming
<1>2. CASE stream[k].open
  BY <1>1, <1>2 DEF Counted
<1>3. CASE ~stream[k].open
  <2>1. Len(stream[k].buffer) = 0 /\ Len(files[k][0]) <= max_size
    BY <1>1, <1>3 DEF Counted
  <2> QED
    BY <1>1, <2>1 DEF Held
<1> QED
  BY <1>2, <1>3

LEMMA BoundedFiles == SinkInv => FilesAreBounded
<1> SUFFICES ASSUME SinkInv, NEW l \in Logs
             PROVE  /\ \A i \in 1 .. max_files : Len(files[l][i]) <= max_size
                    /\ Len(Written(l)[l][0]) <= max_size
  BY DEF FilesAreBounded
<1>1. \A i \in 1 .. max_files : Len(files[l][i]) <= max_size
  BY SinkAssumption DEF SinkInv, Counted, Index
<1>2. Len(Written(l)[l][0]) = Held(l) /\ Held(l) <= max_size
  BY WrittenIs, HeldFits DEF SinkInv
<1> QED
  BY <1>1, <1>2

\* A file that is written out is as long as it was counted.
LEMMA OutFits ==
  ASSUME SinkInv, NEW k \in Logs
  PROVE  /\ Written(k)[k] \in [Index -> Seq(Nat)] /\ Len(Written(k)[k][0]) = Held(k)
         /\ \A i \in Index : Len(Written(k)[k][i]) <= max_size
<1>1. ASSUME NEW i \in Index PROVE Len(Written(k)[k][i]) <= max_size
  <2>1. CASE i = 0
    BY <2>1, WrittenIs, HeldFits DEF SinkInv
  <2>2. CASE i # 0
    <3>1. Written(k)[k][i] = files[k][i]
      BY <2>2, WrittenIs DEF SinkInv
    <3> QED
      BY <3>1 DEF SinkInv, Counted
  <2> QED
    BY <2>1, <2>2
<1> QED
  BY <1>1, WrittenIs DEF SinkInv

LEMMA FlushKeeps ==
  ASSUME SinkInv, NEW l \in Logs, Flush(l)
  PROVE  SinkInv' /\ \A k \in Logs : Ready(k) => Ready(k)'
<1> DEFINE logs == IF stream[l].open THEN {l} ELSE Logs
<1>1. /\ files' = [k \in Logs |-> IF k \in logs THEN Written(k)[k] ELSE files[k]]
      /\ stream' = [k \in Logs |-> IF k \in logs THEN [stream[k] EXCEPT !.buffer = <<>>] ELSE stream[k]]
      /\ UNCHANGED <<exists, current_size_, line, at>>
  BY DEF Flush, Flushed
<1> HIDE DEF logs
<1>2. ASSUME NEW k \in Logs
      PROVE  /\ files'[k] \in [Index -> Seq(Nat)] /\ stream'[k] \in [open : BOOLEAN, buffer : Seq(Nat)]
             /\ stream'[k].open = stream[k].open /\ Counted(k)' /\ (Ready(k) => Ready(k)')
  <2>1. /\ files[k] \in [Index -> Seq(Nat)] /\ stream[k] \in [open : BOOLEAN, buffer : Seq(Nat)]
        /\ Counted(k) /\ <<>> \in Seq(Nat) /\ Len(<<>>) = 0 /\ Held(k) \in Nat
    BY SinkFacts, EmptySeq, HeldIsNat DEF SinkInv
  <2>2. CASE k \notin logs
    <3>1. files'[k] = files[k] /\ stream'[k] = stream[k]
      BY <1>1, <2>2
    <3>2. Held(k)' = Held(k) /\ Coming(k)' = Coming(k) /\ (Ready(k)' <=> Ready(k))
      BY <1>1, <3>1 DEF Held, Coming, In, Ready
    <3>3. \A i \in Index : Len(files'[k][i]) <= max_size
      BY <2>1, <3>1 DEF Counted
    <3> QED
      BY <1>1, <2>1, <3>1, <3>2, <3>3 DEF Counted
  <2>3. CASE k \in logs
    <3>1. files'[k] = Written(k)[k] /\ stream'[k] = [stream[k] EXCEPT !.buffer = <<>>]
      BY <1>1, <2>3
    <3>2. /\ stream'[k] \in [open : BOOLEAN, buffer : Seq(Nat)] /\ stream'[k].open = stream[k].open
          /\ stream'[k].buffer = <<>>
      BY <2>1, <3>1
    <3>3. Len(files'[k][0]) = Held(k) /\ \A i \in Index : Len(files'[k][i]) <= max_size
      BY <3>1, OutFits
    <3>4. Held(k)' = Held(k) /\ Coming(k)' = Coming(k)
      <4>1. Held(k)' = Len(files'[k][0]) + Len(stream'[k].buffer)
        BY DEF Held
      <4>2. Held(k)' = Held(k)
        BY <2>1, <3>2, <3>3, <4>1
      <4> QED
        BY <1>1, <4>2 DEF Coming, In
    <3>5. Ready(k) => Ready(k)'
      BY <1>1, <3>2 DEF Ready
    <3> QED
      BY <1>1, <2>1, <3>1, <3>2, <3>3, <3>4, <3>5, OutFits DEF Counted
  <2> QED
    BY <2>2, <2>3
<1>3. SinkTypes'
  <2>1. files' \in [Logs -> [Index -> Seq(Nat)]] /\ stream' \in [Logs -> [open : BOOLEAN, buffer : Seq(Nat)]]
    <3>1. files' = [k \in Logs |-> files'[k]] /\ stream' = [k \in Logs |-> stream'[k]]
      BY <1>1
    <3> QED
      BY <1>2, <3>1
  <2> QED
    BY <1>1, <2>1 DEF SinkInv, SinkTypes, In
<1>4. Rotating' /\ NeverWritesToNull'
  <2>1. ~In("no_sink") => at.log \in Logs /\ stream'[at.log].open = stream[at.log].open
    BY <1>2 DEF SinkInv, SinkTypes
  <2> QED
    BY <1>1, <2>1 DEF SinkInv, Rotating, NeverWritesToNull, In
<1> QED
  BY <1>2, <1>3, <1>4 DEF SinkInv

LEMMA AgainKeeps ==
  ASSUME SinkInv, NEW l \in Logs, ConstructAgain(l)
  PROVE  SinkInv' /\ \A k \in Logs : Ready(k) => Ready(k)'
<1>1. exists' \in [Logs -> SUBSET Index] /\ UNCHANGED <<files, stream, current_size_, line, at>>
  BY SinkFacts DEF ConstructAgain, SinkInv, SinkTypes
<1> QED
  BY <1>1 DEF SinkInv, SinkTypes, Counted, Held, Coming, Rotating, NeverWritesToNull, In, Ready

\* Nothing is open and no line is on its way: the sizes are those of the files.
LEMMA ClosedKeeps ==
  ASSUME SinkInv, files' \in [Logs -> [Index -> Seq(Nat)]],
         \A k \in Logs : \A i \in Index : Len(files'[k][i]) <= max_size,
         at' \in [in : {"no_sink"}, log : Logs \cup {"none"}, i : Index],
         stream' = [l \in Logs |-> Closed], UNCHANGED <<exists, current_size_, line>>
  PROVE  SinkInv'
<1>1. \A k \in Logs : stream'[k] = Closed
  OBVIOUS
<1>2. \A k \in Logs : Counted(k)'
  BY <1>1, OpenedIs DEF Counted
<1>3. Rotating' /\ NeverWritesToNull' /\ In("no_sink")'
  BY DEF Rotating, NeverWritesToNull, In
<1>4. SinkTypes'
  BY <1>3, OpenedIs DEF SinkTypes, SinkInv, In
<1> QED
  BY <1>2, <1>3, <1>4 DEF SinkInv

LEMMA DieKeeps == ASSUME SinkInv, Die PROVE SinkInv'
<1>1. /\ UNCHANGED <<files, exists, current_size_, line>> /\ at' = Free
      /\ stream' = [l \in Logs |-> Closed]
  BY DEF Die
<1>2. files \in [Logs -> [Index -> Seq(Nat)]] /\ \A k \in Logs : \A i \in Index : Len(files[k][i]) <= max_size
  BY DEF SinkInv, SinkTypes, Counted
<1>3. Free \in [in : {"no_sink"}, log : Logs \cup {"none"}, i : Index]
  BY SinkAssumption DEF Free, Index
<1> QED
  BY <1>1, <1>2, <1>3, ClosedKeeps

LEMMA CloseAllKeeps == ASSUME SinkInv, CloseAll, In("no_sink") PROVE SinkInv'
<1>1. /\ files' = [l \in Logs |-> Written(l)[l]] /\ at' = at
      /\ at \in [in : {"no_sink"}, log : Logs \cup {"none"}, i : Index]
      /\ stream' = [l \in Logs |-> Closed] /\ UNCHANGED <<exists, current_size_, line>>
  BY DEF CloseAll, SinkInv, SinkTypes, In
<1>2. /\ files' \in [Logs -> [Index -> Seq(Nat)]]
      /\ \A k \in Logs : \A i \in Index : Len(files'[k][i]) <= max_size
  BY <1>1, OutFits
<1> QED
  BY <1>1, <1>2, ClosedKeeps

-----------------------------------------------------------------------------
(* What is still to be called. *)

LEMMA CallFacts ==
  ASSUME InOrder(todo), todo # <<>>
  PROVE  /\ Len(todo) \in Nat \ {0} /\ Head(todo) = todo[1] /\ todo[1] \in Call /\ Tail(todo) \in Seq(Call)
         /\ Len(Tail(todo)) = Len(todo) - 1 /\ \A k \in 1 .. Len(todo) - 1 : Tail(todo)[k] = todo[k + 1]
         /\ todo[1].call \in {"sink", "register"} \cup SetupCalls \cup EndCalls
         /\ todo[1].model \in Models \cup {"none"} /\ todo[1].worker \in 0 .. 2
         /\ \A k \in 1 .. Len(todo) : todo[k] \in Call
<1>1. todo \in Seq(Call)
  BY DEF InOrder
<1>2. Len(todo) \in Nat \ {0}
  BY <1>1, EmptySeq, LenProperties
<1>3. \A k \in 1 .. Len(todo) : todo[k] \in Call
  BY <1>1, ElementOfSeq
<1>4. todo[1] \in Call
  BY <1>2, <1>3
<1>5. /\ Tail(todo) \in Seq(Call) /\ Head(todo) = todo[1]
      /\ Len(Tail(todo)) = Len(todo) - 1 /\ \A k \in 1 .. Len(todo) - 1 : Tail(todo)[k] = todo[k + 1]
  BY <1>1, <1>2, HeadTailProperties
<1> QED
  BY <1>2, <1>3, <1>4, <1>5 DEF Call

\* Calls that are done before the others.
LEMMA Pushed ==
  ASSUME InOrder(todo), todo # <<>>, NEW s \in Seq(Call)
  PROVE  LET u == s \o Tail(todo) IN
         /\ u \in Seq(Call) /\ Len(s) \in Nat /\ Len(u) = Len(s) + Len(todo) - 1 /\ Len(u) \in Nat
         /\ \A k \in 1 .. Len(s) : u[k] = s[k] /\ u[k] \in Call
         /\ \A k \in 1 .. Len(u) : k > Len(s) =>
              u[k] = todo[k - Len(s) + 1] /\ k - Len(s) + 1 \in 2 .. Len(todo)
         /\ \A j \in 2 .. Len(todo) : Len(s) + j - 1 \in 1 .. Len(u) /\ u[Len(s) + j - 1] = todo[j]
<1> DEFINE u == s \o Tail(todo)
<1>1. /\ Len(todo) \in Nat \ {0} /\ Tail(todo) \in Seq(Call) /\ Len(Tail(todo)) = Len(todo) - 1
      /\ \A k \in 1 .. Len(todo) - 1 : Tail(todo)[k] = todo[k + 1]
  BY CallFacts
<1>2. Len(s) \in Nat
  BY LenProperties
<1>3. /\ u \in Seq(Call) /\ Len(u) = Len(s) + Len(Tail(todo))
      /\ \A i \in 1 .. Len(s) + Len(Tail(todo)) :
           u[i] = IF i <= Len(s) THEN s[i] ELSE Tail(todo)[i - Len(s)]
  BY <1>1, ConcatProperties
<1> HIDE DEF u
<1>4. \A k \in 1 .. Len(s) : u[k] = s[k] /\ u[k] \in Call
  <2>1. \A k \in 1 .. Len(s) : s[k] \in Call
    BY ElementOfSeq
  <2> QED
    BY <1>1, <1>2, <1>3, <2>1
<1>5. ASSUME NEW k \in 1 .. Len(u), k > Len(s)
      PROVE  u[k] = todo[k - Len(s) + 1] /\ k - Len(s) + 1 \in 2 .. Len(todo)
  <2>1. u[k] = Tail(todo)[k - Len(s)] /\ k - Len(s) \in 1 .. Len(todo) - 1
    BY <1>1, <1>2, <1>3, <1>5
  <2> QED
    BY <1>1, <1>2, <2>1
<1>6. ASSUME NEW j \in 2 .. Len(todo)
      PROVE  Len(s) + j - 1 \in 1 .. Len(u) /\ u[Len(s) + j - 1] = todo[j]
  <2>1. Len(s) + j - 1 \in 1 .. Len(u) /\ Len(s) + j - 1 > Len(s)
    BY <1>1, <1>2, <1>3
  <2>2. u[Len(s) + j - 1] = todo[(Len(s) + j - 1) - Len(s) + 1]
    BY <1>5, <2>1
  <2>3. (Len(s) + j - 1) - Len(s) + 1 = j
    BY <1>2
  <2> QED
    BY <2>1, <2>2, <2>3
<1> QED
  BY <1>1, <1>2, <1>3, <1>4, <1>5, <1>6 DEF u

LEMMA TailInOrder == ASSUME InOrder(todo), todo # <<>> PROVE InOrder(Tail(todo))
<1> DEFINE u == Tail(todo)
<1>1. /\ Len(todo) \in Nat \ {0} /\ u \in Seq(Call) /\ Len(u) = Len(todo) - 1
      /\ \A k \in 1 .. Len(todo) - 1 : u[k] = todo[k + 1]
  BY CallFacts
<1> HIDE DEF u
<1>2. Ending(u) => Ending(todo)
  <2>1. u # <<>> => Len(u) \in 1 .. Len(todo) - 1 /\ u[Len(u)] = todo[Len(todo)]
    BY <1>1, EmptySeq, LenProperties
  <2> QED
    BY <2>1 DEF Ending
<1>3. ASSUME NEW k \in 1 .. Len(u) PROVE CallInOrder(u, k)
  <2>1. k + 1 \in 2 .. Len(todo) /\ u[k] = todo[k + 1] /\ CallInOrder(todo, k + 1)
    BY <1>1 DEF InOrder
  <2>2. k = 1 <=> k + 1 = 2
    BY <1>1
  <2>3. k = Len(u) <=> k + 1 = Len(todo)
    BY <1>1
  <2> QED
    BY <1>1, <1>2, <2>1, <2>2, <2>3 DEF CallInOrder
<1> QED
  BY <1>1, <1>3 DEF InOrder, u

\* Behind any other call than the first half of a worker's end, nothing is begun.
LEMMA RestIs ==
  ASSUME InOrder(todo), todo # <<>>, todo[1].call # "deactivate", NEW j \in 2 .. Len(todo)
  PROVE  /\ todo[j] \in Call /\ todo[j].worker = 0
         /\ todo[j].call \in {"sink", "destroy"} \cup SetupCalls
         /\ todo[j].call \in {"sink", "log"} => todo[j].model \in Models
         /\ todo[j].call = "set_default" => todo[j].model = "tlms"
         /\ todo[j].call = "destroy" => j = Len(todo)
<1>1. CallInOrder(todo, j) /\ todo[j] \in Call
  BY CallFacts DEF InOrder
<1>2. /\ todo[j].call \in {"sink", "register"} \cup SetupCalls \cup EndCalls /\ todo[j].worker \in 0 .. 2
  BY <1>1 DEF Call
<1>3. todo[j].call \notin {"deactivate", "join", "register", "stop_flusher"}
  BY <1>1 DEF CallInOrder
<1>4. todo[j].worker = 0
  BY <1>1, <1>3 DEF CallInOrder, StopCalls
<1> QED
  BY <1>1, <1>2, <1>3, <1>4 DEF CallInOrder, EndCalls, StopCalls, SetupCalls

LEMMA NotEnding ==
  ASSUME InOrder(todo), todo # <<>>, todo[1].call \notin EndCalls
  PROVE  ~Ending(todo)
BY CallFacts DEF InOrder, CallInOrder

\* What follows the registration.
AfterRegister(m) ==
  CASE m = "tlms" -> <<Does("set_default", m), Does("default", m), Does("flush_every", m)>>
    [] m = "N25QX" -> <<Does("default", m), Does("flush_every", m)>>
    [] m = "or1k_data" -> <<Does("log", m), Does("flush_every", m)>>
    [] m = "SDRAM" -> <<Does("flush_every", m), Does("log", m)>>
    [] m = "or1k" -> <<Does("flush_every", m)>>

LEMMA SetupIs ==
  ASSUME NEW m \in Models
  PROVE  /\ Setup(m) \in Seq(Call) /\ Len(Setup(m)) \in 2 .. 4
         /\ Setup(m)[1].call = "register" /\ Setup(m)[1].model = m /\ Setup(m)[1].worker = 0
         /\ \A k \in 2 .. Len(Setup(m)) :
              /\ Setup(m)[k].call \in SetupCalls /\ Setup(m)[k].model = m /\ Setup(m)[k].worker = 0
              /\ Setup(m)[k].call = "set_default" => m = "tlms"
<1>1. \A call \in {"register"} \cup SetupCalls :
        Does(call, m) \in Call /\ Does(call, m).call = call /\ Does(call, m).model = m /\ Does(call, m).worker = 0
  BY DEF Does, Call
<1>2. Setup(m) = <<Does("register", m)>> \o AfterRegister(m)
  BY DEF Setup, AfterRegister
<1>3. /\ AfterRegister(m) \in Seq(Call) /\ Len(AfterRegister(m)) \in 1 .. 3
      /\ \A k \in 1 .. Len(AfterRegister(m)) :
              /\ AfterRegister(m)[k].call \in SetupCalls /\ AfterRegister(m)[k].model = m
              /\ AfterRegister(m)[k].worker = 0
              /\ AfterRegister(m)[k].call = "set_default" => m = "tlms"
  <2>1. CASE m = "tlms"
    <3>1. AfterRegister(m) = <<Does("set_default", m), Does("default", m), Does("flush_every", m)>>
      BY <2>1 DEF AfterRegister
    <3>2. AfterRegister(m) \in Seq(Call) /\ Len(AfterRegister(m)) = 3
           /\ AfterRegister(m)[1] = Does("set_default", m) /\ AfterRegister(m)[2] = Does("default", m)
           /\ AfterRegister(m)[3] = Does("flush_every", m)
      BY <1>1, <3>1 DEF SetupCalls
    <3> QED
      BY <1>1, <2>1, <3>2 DEF SetupCalls
  <2>2. CASE m = "N25QX"
    <3>1. AfterRegister(m) = <<Does("default", m), Does("flush_every", m)>>
      BY <2>2 DEF AfterRegister
    <3>2. AfterRegister(m) \in Seq(Call) /\ Len(AfterRegister(m)) = 2
           /\ AfterRegister(m)[1] = Does("default", m) /\ AfterRegister(m)[2] = Does("flush_every", m)
      BY <1>1, <3>1 DEF SetupCalls
    <3> QED
      BY <1>1, <2>2, <3>2 DEF SetupCalls
  <2>3. CASE m = "or1k_data"
    <3>1. AfterRegister(m) = <<Does("log", m), Does("flush_every", m)>>
      BY <2>3 DEF AfterRegister
    <3>2. AfterRegister(m) \in Seq(Call) /\ Len(AfterRegister(m)) = 2
           /\ AfterRegister(m)[1] = Does("log", m) /\ AfterRegister(m)[2] = Does("flush_every", m)
      BY <1>1, <3>1 DEF SetupCalls
    <3> QED
      BY <1>1, <2>3, <3>2 DEF SetupCalls
  <2>4. CASE m = "SDRAM"
    <3>1. AfterRegister(m) = <<Does("flush_every", m), Does("log", m)>>
      BY <2>4 DEF AfterRegister
    <3>2. AfterRegister(m) \in Seq(Call) /\ Len(AfterRegister(m)) = 2
           /\ AfterRegister(m)[1] = Does("flush_every", m) /\ AfterRegister(m)[2] = Does("log", m)
      BY <1>1, <3>1 DEF SetupCalls
    <3> QED
      BY <1>1, <2>4, <3>2 DEF SetupCalls
  <2>5. CASE m = "or1k"
    <3>1. AfterRegister(m) = <<Does("flush_every", m)>>
      BY <2>5 DEF AfterRegister
    <3>2. AfterRegister(m) \in Seq(Call) /\ Len(AfterRegister(m)) = 1
           /\ AfterRegister(m)[1] = Does("flush_every", m)
      BY <1>1, <3>1 DEF SetupCalls
    <3> QED
      BY <1>1, <2>5, <3>2 DEF SetupCalls
  <2> QED
    BY <2>1, <2>2, <2>3, <2>4, <2>5 DEF Models
<1> QED
  <2>1. <<Does("register", m)>> \in Seq(Call) /\ Len(<<Does("register", m)>>) = 1
    BY <1>1
  <2>2. /\ Setup(m) \in Seq(Call) /\ Len(Setup(m)) = 1 + Len(AfterRegister(m))
        /\ \A i \in 1 .. 1 + Len(AfterRegister(m)) :
             Setup(m)[i] = IF i <= 1 THEN <<Does("register", m)>>[i] ELSE AfterRegister(m)[i - 1]
    BY <1>2, <1>3, <2>1, ConcatProperties
  <2>3. Setup(m)[1] = Does("register", m)
    BY <1>3, <2>2
  <2>4. ASSUME NEW k \in 2 .. Len(Setup(m)) PROVE Setup(m)[k] = AfterRegister(m)[k - 1] /\ k - 1 \in 1 .. Len(AfterRegister(m))
    BY <1>3, <2>2
  <2>5. ASSUME NEW k \in 2 .. Len(Setup(m))
        PROVE  /\ Setup(m)[k].call \in SetupCalls /\ Setup(m)[k].model = m /\ Setup(m)[k].worker = 0
               /\ Setup(m)[k].call = "set_default" => m = "tlms"
    BY <1>3, <2>4
  <2>6. Len(Setup(m)) \in 2 .. 4
    <3>1. Len(AfterRegister(m)) \in 1 .. 3 /\ Len(Setup(m)) = 1 + Len(AfterRegister(m))
      BY <1>3, <2>2
    <3>2. \A n \in 1 .. 3 : 1 + n \in 2 .. 4
      OBVIOUS
    <3> QED
      BY <3>1, <3>2, Zenon
  <2> QED
    BY <1>1, <2>2, <2>3, <2>5, <2>6

\* What stops a worker, if there is one.
LEMMA StopsIs ==
  ASSUME NEW p \in 0 .. 2
  PROVE  /\ Stops(p) \in Seq(Call)
         /\ p = 0 => Stops(p) = <<>>
         /\ p # 0 =>
              /\ Len(Stops(p)) = 2 /\ Stops(p)[1].worker = p /\ Stops(p)[2].worker = p
              /\ Stops(p)[1].call = "deactivate" /\ Stops(p)[2].call = "join"
<1>1. CASE p = 0
  BY <1>1, EmptySeq DEF Stops
<1>2. CASE p # 0
  <2> DEFINE first == [call |-> "deactivate", model |-> "none", worker |-> p]
             second == [call |-> "join", model |-> "none", worker |-> p]
  <2>1. first \in Call /\ second \in Call
    BY DEF Call, EndCalls, StopCalls
  <2>2. Stops(p) = <<first, second>>
    BY <1>2 DEF Stops
  <2>3. /\ first.call = "deactivate" /\ first.worker = p
        /\ second.call = "join" /\ second.worker = p
    OBVIOUS
  <2> HIDE DEF first, second
  <2>4. Stops(p) \in Seq(Call) /\ Len(Stops(p)) = 2 /\ Stops(p)[1] = first /\ Stops(p)[2] = second
    BY <2>1, <2>2
  <2> QED
    BY <1>2, <2>3, <2>4
<1> QED
  BY <1>1, <1>2

\* The end of the program, when nothing else is to be called.
EndOfMain == <<Does("stop_flusher", "none"), Does("destroy", "none")>>

LEMMA LastIs ==
  /\ EndOfMain \in Seq(Call) /\ Len(EndOfMain) = 2 /\ InOrder(EndOfMain) /\ Ending(EndOfMain) /\ EndOfMain # <<>>
  /\ EndOfMain[1].call = "stop_flusher" /\ EndOfMain[1].worker = 0
  /\ EndOfMain[2].call = "destroy" /\ EndOfMain[2].worker = 0
<1> DEFINE first == Does("stop_flusher", "none")
           second == Does("destroy", "none")
<1>1. /\ first \in Call /\ first.call = "stop_flusher" /\ first.worker = 0
      /\ second \in Call /\ second.call = "destroy" /\ second.worker = 0
  BY DEF Does, Call, EndCalls
<1>2. EndOfMain = <<first, second>>
  BY DEF EndOfMain
<1> HIDE DEF first, second
<1>3. EndOfMain \in Seq(Call) /\ Len(EndOfMain) = 2 /\ EndOfMain[1] = first /\ EndOfMain[2] = second /\ EndOfMain # <<>>
  BY <1>1, <1>2
<1>4. Ending(EndOfMain)
  BY <1>1, <1>3 DEF Ending
<1>5. ASSUME NEW k \in 1 .. 2 PROVE CallInOrder(EndOfMain, k)
  <2>1. CASE k = 1
    BY <1>1, <1>3, <2>1 DEF CallInOrder, StopCalls, EndCalls
  <2>2. CASE k = 2
    BY <1>1, <1>3, <2>2 DEF CallInOrder, StopCalls, EndCalls
  <2> QED
    BY <2>1, <2>2
<1> QED
  BY <1>1, <1>3, <1>4, <1>5 DEF InOrder

\* One call of a model that logs.
LEMMA LineIs ==
  ASSUME NEW m \in Models
  PROVE  LET t == <<Does("log", m)>> IN
         InOrder(t) /\ ~Ending(t) /\ Len(t) = 1 /\ t[1].call = "log" /\ t[1].model = m /\ t[1].worker = 0
<1> DEFINE c == Does("log", m)
           t == <<c>>
<1>1. c \in Call /\ c.call = "log" /\ c.model = m /\ c.worker = 0
  BY DEF Does, Call, SetupCalls
<1> HIDE DEF c
<1>2. t \in Seq(Call) /\ Len(t) = 1 /\ t[1] = c
  BY <1>1
<1> HIDE DEF t
<1>3. ~Ending(t)
  BY <1>1, <1>2 DEF Ending
<1>4. CallInOrder(t, 1)
  BY <1>1, <1>2, <1>3 DEF CallInOrder, StopCalls
<1> QED
  BY <1>1, <1>2, <1>3, <1>4 DEF InOrder, t, c

\* The models of a test bench, one after the other.
LEMMA BenchIs ==
  ASSUME NEW p \in Seq(Models), NEW t, t = [k \in 1 .. Len(p) |-> Does("sink", p[k])]
  PROVE  /\ InOrder(t) /\ ~Ending(t) /\ Len(t) = Len(p)
         /\ \A k \in 1 .. Len(t) : t[k].call = "sink" /\ t[k].model = p[k] /\ t[k].worker = 0
<1>1. Len(p) \in Nat /\ \A k \in 1 .. Len(p) : p[k] \in Models
  BY LenProperties, ElementOfSeq
<1>2. \A m \in Models : Does("sink", m) \in Call /\ Does("sink", m).call = "sink"
                        /\ Does("sink", m).model = m /\ Does("sink", m).worker = 0
  BY DEF Does, Call
<1>3. /\ \A k \in 1 .. Len(p) : t[k] = Does("sink", p[k])
      /\ t \in [1 .. Len(p) -> Call]
  BY <1>1, <1>2
<1>4. t \in Seq(Call) /\ Len(t) = Len(p)
  BY <1>1, <1>3
<1>5. \A k \in 1 .. Len(t) : t[k].call = "sink" /\ t[k].model = p[k] /\ t[k].worker = 0 /\ p[k] \in Models
  BY <1>1, <1>2, <1>3, <1>4
<1>6. ~Ending(t)
  <2>1. t # <<>> => Len(t) \in 1 .. Len(t)
    BY <1>4, EmptySeq, LenProperties
  <2> QED
    BY <1>5, <2>1 DEF Ending
<1>7. \A k \in 1 .. Len(t) : CallInOrder(t, k)
  BY <1>5, <1>6 DEF CallInOrder, StopCalls
<1> QED
  BY <1>4, <1>5, <1>6, <1>7 DEF InOrder

-----------------------------------------------------------------------------
(* A call is done, and others are to be called. *)

Mono == \A l \in Logs : Ready(l) => Ready(l)'

LEMMA NeverAgain == ASSUME InOrder(todo), NEW j \in 2 .. Len(todo) PROVE todo[j].call # "register"
<1>1. j \in 1 .. Len(todo) /\ j # 1
  BY LenProperties DEF InOrder
<1> QED
  BY <1>1 DEF InOrder, CallInOrder

LEMMA NobodyTold ==
  ASSUME InOrder(todo), todo = <<>> \/ todo[1].call \notin StopCalls, NEW w \in Workers
  PROVE  ~Told(todo, w)
<1>1. CASE todo = <<>>
  BY <1>1 DEF Told
<1>2. CASE todo # <<>>
  <2>1. todo[1].worker = 0
    BY <1>2, CallFacts DEF InOrder, CallInOrder
  <2>2. \A j \in 2 .. Len(todo) : todo[j].worker = 0
    BY <1>2, RestIs DEF StopCalls
  <2>3. \A k \in 1 .. Len(todo) : k = 1 \/ k \in 2 .. Len(todo)
    BY <1>2, CallFacts
  <2> QED
    BY <2>1, <2>2, <2>3 DEF Told, Workers
<1> QED
  BY <1>1, <1>2

\* A call that is done, and what it leaves behind.
LEMMA DoneRegistered ==
  ASSUME InOrder(todo), Registered, todo # <<>>, todo' = Tail(todo),
         \A m \in Logs : m \in loggers_ => m \in loggers_', Models \subseteq Logs,
         default_logger_' = default_logger_ \/ (default_logger_' = "tlms" /\ "tlms" \in loggers_'),
         run'.program = run.program, todo[1].call \notin {"sink", "destroy"},
         ToSet(run.program) \subseteq Models,
         todo[1].call = "register" => todo[1].model \in loggers_'
  PROVE  /\ InOrder(todo)' /\ Registered'
         /\ \A m \in Logs : Known(todo, m)' => m \in loggers_'
<1> DEFINE u == Tail(todo)
<1>1. /\ Len(todo) \in Nat \ {0} /\ u \in Seq(Call) /\ Len(u) = Len(todo) - 1 /\ todo[1] \in Call
      /\ \A k \in 1 .. Len(todo) - 1 : u[k] = todo[k + 1] /\ k + 1 \in 2 .. Len(todo)
  BY CallFacts
<1>2. InOrder(u) /\ todo' = u
  BY TailInOrder
<1> HIDE DEF u
<1>3. ASSUME NEW j \in 2 .. Len(todo) PROVE j - 1 \in 1 .. Len(u) /\ u[j - 1] = todo[j]
  <2>1. j - 1 \in 1 .. Len(todo) - 1 /\ (j - 1) + 1 = j
    BY <1>1
  <2> QED
    BY <1>1, <2>1
<1>4. u # <<>> => u[1].call # "register"
  <2>1. u # <<>> => 2 \in 2 .. Len(todo) /\ u[1] = todo[2]
    BY <1>1, EmptySeq, LenProperties
  <2> QED
    BY <2>1, NeverAgain
<1>5. \A m \in Logs : Known(todo, m)' => m \in loggers_'
  BY <1>2, <1>4 DEF Known
<1>6. \A m \in Logs : Known(todo, m) => m \in loggers_'
  BY DEF Known
<1>7. Ending(todo) => Ending(u)
  <2>1. ASSUME Ending(todo) PROVE Len(todo) \in 2 .. Len(todo)
    BY <1>1, <2>1 DEF Ending
  <2>2. ASSUME Ending(todo) PROVE u # <<>> /\ u[Len(u)].call = "destroy"
    BY <1>1, <1>3, <2>1, <2>2, EmptySeq DEF Ending
  <2> QED
    BY <2>2 DEF Ending
<1>8. \A k \in 1 .. Len(todo') :
        todo'[k].call \in {"log", "set_default"} => Known(todo, todo[k].model)'
  <2> SUFFICES ASSUME NEW k \in 1 .. Len(u), u[k].call \in {"log", "set_default"}
               PROVE  u[k].model \in loggers_'
    BY <1>2 DEF Known
  <2>1. k + 1 \in 1 .. Len(todo) /\ u[k] = todo[k + 1] /\ CallInOrder(todo, k + 1)
    BY <1>1 DEF InOrder
  <2>2. Known(todo, todo[k + 1].model) /\ todo[k + 1].model \in Models
    BY <2>1 DEF Registered, CallInOrder, Models
  <2> QED
    BY <1>6, <2>1, <2>2
<1>9. default_logger_' = "tlms" => "tlms" \in loggers_'
  BY DEF Registered, Models
<1>10. default_logger_' = "none" => Ending(todo)'
  BY <1>2, <1>7 DEF Registered
<1>11. ASSUME NEW m \in ToSet(run.program)
       PROVE  \/ m \in loggers_' \/ Ending(u)
              \/ \E k \in 1 .. Len(u) : u[k].call \in {"sink", "register"} /\ u[k].model = m
  <2>1. CASE m \in loggers_ \/ Ending(todo)
    BY <1>7, <2>1
  <2>2. CASE \E k \in 1 .. Len(todo) : todo[k].call \in {"sink", "register"} /\ todo[k].model = m
    <3>1. PICK k \in 1 .. Len(todo) : todo[k].call \in {"sink", "register"} /\ todo[k].model = m
      BY <2>2
    <3>2. CASE k = 1
      BY <3>1, <3>2
    <3>3. CASE k # 1
      <4>1. k \in 2 .. Len(todo)
        BY <1>1, <3>3
      <4> QED
        BY <1>3, <3>1, <4>1
    <3> QED
      BY <3>2, <3>3
  <2> QED
    BY <2>1, <2>2 DEF Registered
<1>12. Registered'
  BY <1>2, <1>8, <1>9, <1>10, <1>11 DEF Registered
<1> QED
  BY <1>2, <1>5, <1>12

LEMMA DoneFlushers ==
  ASSUME InOrder(todo), Flushers, todo # <<>>, todo' = Tail(todo), todo[1].call # "stop_flusher",
         periodic_flusher_' = periodic_flusher_,
         \A w \in Workers :
           worker'[w].in # "none" =>
             worker[w].in # "none" /\ ~(todo[1].call = "join" /\ todo[1].worker = w)
  PROVE  Flushers'
<1> SUFFICES ASSUME NEW w \in Workers, worker'[w].in # "none"
             PROVE  \/ Told(Tail(todo), w)
                    \/ w = periodic_flusher_ /\ ~Ending(Tail(todo))
  BY DEF Flushers
<1> DEFINE u == Tail(todo)
<1>1. /\ Len(todo) \in Nat \ {0} /\ u \in Seq(Call) /\ Len(u) = Len(todo) - 1
      /\ \A k \in 1 .. Len(todo) - 1 : u[k] = todo[k + 1]
  BY CallFacts
<1> HIDE DEF u
<1>2. ASSUME NEW j \in 2 .. Len(todo) PROVE j - 1 \in 1 .. Len(u) /\ u[j - 1] = todo[j]
  <2>1. j - 1 \in 1 .. Len(todo) - 1 /\ (j - 1) + 1 = j
    BY <1>1
  <2> QED
    BY <1>1, <2>1
<1>3. Ending(u) => Ending(todo)
  <2>1. u # <<>> => Len(u) \in 1 .. Len(todo) - 1 /\ u[Len(u)] = todo[Len(todo)]
    BY <1>1, EmptySeq, LenProperties
  <2> QED
    BY <2>1 DEF Ending
<1>4. CASE Told(todo, w)
  <2>1. PICK k \in 1 .. Len(todo) : todo[k].worker = w
    BY <1>4 DEF Told
  <2>2. CASE k # 1
    <3>1. k \in 2 .. Len(todo)
      BY <1>1, <2>2
    <3> QED
      BY <1>2, <2>1, <3>1 DEF Told, u
  <2>3. CASE k = 1
    <3>1. todo[1].call \in StopCalls /\ CallInOrder(todo, 1)
      BY <1>1, <2>1, <2>3 DEF InOrder, CallInOrder, Workers
    <3>2. 2 \in 2 .. Len(todo) /\ todo[2].worker = w
      BY <1>1, <2>1, <2>3, <3>1 DEF StopCalls, CallInOrder
    <3> QED
      BY <1>2, <3>2 DEF Told, u
  <2> QED
    BY <2>2, <2>3
<1>5. CASE ~Told(todo, w)
  BY <1>3, <1>5 DEF Flushers, u
<1> QED
  BY <1>4, <1>5

\* Calls that come first, in the place of the one that is done.
LEMMA PushInOrder ==
  ASSUME InOrder(todo), todo # <<>>, todo[1].call # "deactivate", NEW s \in Seq(Call),
         \A k \in 1 .. Len(s) : CallInOrder(s \o Tail(todo), k),
         Ending(s \o Tail(todo)) => Ending(todo)
  PROVE  InOrder(s \o Tail(todo))
<1> DEFINE u == s \o Tail(todo)
<1>1. /\ u \in Seq(Call) /\ Len(s) \in Nat /\ Len(u) = Len(s) + Len(todo) - 1 /\ Len(todo) \in Nat
      /\ \A k \in 1 .. Len(u) : k > Len(s) =>
           u[k] = todo[k - Len(s) + 1] /\ k - Len(s) + 1 \in 2 .. Len(todo)
  BY Pushed, CallFacts
<1> HIDE DEF u
<1>2. ASSUME NEW k \in 1 .. Len(u), k > Len(s) PROVE CallInOrder(u, k)
  <2>1. PICK j \in 2 .. Len(todo) : j = k - Len(s) + 1 /\ u[k] = todo[j]
    BY <1>1, <1>2
  <2>2. j = Len(todo) <=> k = Len(u)
    BY <1>1, <2>1
  <2>3. Ending(u) => todo[j].call \in EndCalls
    <3>1. j \in 1 .. Len(todo)
      BY <1>1
    <3> QED
      BY <3>1 DEF InOrder, CallInOrder, u
  <2> QED
    BY <2>1, <2>2, <2>3, RestIs DEF CallInOrder, StopCalls, SetupCalls
<1>3. \A k \in 1 .. Len(u) : CallInOrder(u, k)
  BY <1>1, <1>2 DEF u
<1> QED
  BY <1>1, <1>3 DEF InOrder, u

\* The last call stays the last one.
LEMMA PushEnds ==
  ASSUME InOrder(todo), todo # <<>>, NEW s \in Seq(Call),
         todo[1].call # "destroy", s # <<>> => s[Len(s)].call # "destroy"
  PROVE  Ending(s \o Tail(todo)) <=> Ending(todo)
<1> DEFINE u == s \o Tail(todo)
<1>1. /\ u \in Seq(Call) /\ Len(s) \in Nat /\ Len(u) = Len(s) + Len(todo) - 1 /\ Len(todo) \in Nat \ {0}
      /\ \A k \in 1 .. Len(s) : u[k] = s[k]
      /\ \A j \in 2 .. Len(todo) : Len(s) + j - 1 \in 1 .. Len(u) /\ u[Len(s) + j - 1] = todo[j]
  BY Pushed, CallFacts
<1> HIDE DEF u
<1>2. CASE Len(todo) = 1
  <2>1. ~Ending(todo) /\ Len(u) = Len(s)
    BY <1>1, <1>2 DEF Ending
  <2>2. u # <<>> => s # <<>> /\ u[Len(u)] = s[Len(s)]
    BY <1>1, <2>1, EmptySeq, LenProperties
  <2> QED
    BY <2>1, <2>2 DEF Ending, u
<1>3. CASE Len(todo) # 1
  <2>1. Len(todo) \in 2 .. Len(todo) /\ Len(s) + Len(todo) - 1 = Len(u)
    BY <1>1, <1>3, Bounds, Zenon
  <2>2. u[Len(u)] = todo[Len(todo)] /\ Len(u) # 0
    BY <1>1, <2>1
  <2>3. u # <<>>
    BY <2>2
  <2> QED
    BY <2>2, <2>3 DEF Ending, u
<1> QED
  BY <1>2, <1>3

LEMMA SetupInOrder ==
  ASSUME InOrder(todo), todo # <<>>, todo[1].call = "sink", NEW m \in Models
  PROVE  LET u == Setup(m) \o Tail(todo) IN
         /\ InOrder(u) /\ ~Ending(u) /\ u # <<>>
         /\ u[1].call = "register" /\ u[1].model = m /\ u[1].worker = 0
<1> DEFINE s == Setup(m)
           u == s \o Tail(todo)
<1>1. /\ s \in Seq(Call) /\ Len(s) \in 2 .. 4
      /\ s[1].call = "register" /\ s[1].model = m /\ s[1].worker = 0
      /\ \A k \in 2 .. Len(s) :
           /\ s[k].call \in SetupCalls /\ s[k].model = m /\ s[k].worker = 0
           /\ s[k].call = "set_default" => m = "tlms"
  BY SetupIs
<1> HIDE DEF s
<1>2. \A k \in 1 .. Len(s) : u[k] = s[k]
  BY <1>1, Pushed
<1>3. ~Ending(todo)
  BY NotEnding DEF EndCalls, StopCalls
<1>4. s[Len(s)].call # "destroy"
  <2>1. Len(s) \in 2 .. Len(s)
    BY <1>1, Bounds, Zenon
  <2> QED
    BY <1>1, <2>1 DEF SetupCalls
<1>5. ~Ending(u)
  BY <1>1, <1>3, <1>4, PushEnds
<1> HIDE DEF u
<1>6. ASSUME NEW k \in 1 .. Len(s) PROVE CallInOrder(u, k)
  <2>1. CASE k = 1
    BY <1>1, <1>2, <1>5, <2>1 DEF CallInOrder, StopCalls
  <2>2. CASE k # 1
    <3>1. k \in 2 .. Len(s)
      BY <1>1, <2>2
    <3>2. u[k].call = "set_default" => m = "tlms"
      BY <1>1, <1>2, <3>1
    <3>3. u[k].call \in SetupCalls /\ u[k].model = m /\ u[k].worker = 0
      BY <1>1, <1>2, <3>1
    <3> QED
      BY <1>5, <3>2, <3>3 DEF CallInOrder, StopCalls, SetupCalls
  <2> QED
    BY <2>1, <2>2
<1>7. 1 \in 1 .. Len(s)
  BY <1>1
<1>8. InOrder(u)
  BY <1>1, <1>5, <1>6, PushInOrder DEF u
<1>9. u # <<>>
  <2>1. Len(s \o Tail(todo)) = Len(s) + Len(todo) - 1 /\ Len(todo) \in Nat \ {0}
    BY <1>1, Pushed, CallFacts
  <2>2. Len(u) # 0
    BY <1>1, <2>1 DEF u
  <2> QED
    BY <2>2
<1> QED
  BY <1>1, <1>2, <1>5, <1>7, <1>8, <1>9 DEF s, u

LEMMA StopsInOrder ==
  ASSUME InOrder(todo), todo # <<>>, todo[1].call \in {"flush_every", "stop_flusher"}, NEW p \in 0 .. 2
  PROVE  LET u == Stops(p) \o Tail(todo) IN
         /\ InOrder(u) /\ (Ending(u) <=> Ending(todo)) /\ (u # <<>> => u[1].call # "register")
         /\ p # 0 => Told(u, p)
<1> DEFINE s == Stops(p)
           u == s \o Tail(todo)
<1>1. /\ s \in Seq(Call)
      /\ p = 0 => s = <<>>
      /\ p # 0 => /\ Len(s) = 2 /\ s[1].worker = p /\ s[2].worker = p
                  /\ s[1].call = "deactivate" /\ s[2].call = "join"
  BY StopsIs
<1> HIDE DEF s
<1>2. /\ u \in Seq(Call) /\ Len(s) \in Nat /\ Len(u) = Len(s) + Len(todo) - 1 /\ Len(todo) \in Nat \ {0}
      /\ \A k \in 1 .. Len(s) : u[k] = s[k]
      /\ \A k \in 1 .. Len(u) : k > Len(s) =>
           u[k] = todo[k - Len(s) + 1] /\ k - Len(s) + 1 \in 2 .. Len(todo)
  BY <1>1, Pushed, CallFacts
<1>3. Ending(u) <=> Ending(todo)
  BY <1>1, EmptySeq, PushEnds
<1>4. CASE p = 0
  <2>1. Len(s) = 0
    BY <1>1, <1>4
  <2>2. InOrder(u)
    <3>1. \A k \in 1 .. Len(s) : CallInOrder(u, k)
      <4>1. 1 .. Len(s) = {}
        BY <2>1
      <4> QED
        BY <4>1
    <3> QED
      BY <1>1, <1>3, <3>1, PushInOrder
  <2>3. u # <<>> => u[1].call # "register"
    <3> HIDE DEF u
    <3>1. ASSUME u # <<>> PROVE 1 \in 1 .. Len(u) /\ 1 > Len(s) /\ 1 - Len(s) + 1 = 2
      BY <1>2, <2>1, <3>1, EmptySeq, LenProperties
    <3> QED
      BY <1>2, <3>1, NeverAgain
  <2> QED
    BY <1>3, <1>4, <2>2, <2>3 DEF s
<1>5. CASE p # 0
  <2>1. /\ u[1].worker = p /\ u[2].worker = p /\ u[1].call = "deactivate" /\ u[2].call = "join"
        /\ Len(u) \in Nat /\ Len(u) >= 2 /\ 1 \in 1 .. Len(u)
    <3> HIDE DEF u
    <3>1. Len(u) = 2 + Len(todo) - 1 /\ u[1] = s[1] /\ u[2] = s[2]
      <4>1. Len(s) = 2
        BY <1>1, <1>5
      <4>2. 1 \in 1 .. Len(s) /\ 2 \in 1 .. Len(s)
        BY <4>1
      <4> QED
        BY <1>2, <4>1, <4>2
    <3>2. Len(u) \in Nat /\ Len(u) >= 2 /\ 1 \in 1 .. Len(u)
      BY <1>2, <3>1, Bounds, Zenon
    <3> QED
      BY <1>1, <1>5, <3>1, <3>2
  <2> HIDE DEF u
  <2>2. \A k \in 1 .. Len(s) : CallInOrder(u, k)
    <3>1. CallInOrder(u, 1)
      BY <1>5, <2>1 DEF CallInOrder, StopCalls, EndCalls
    <3>2. CallInOrder(u, 2)
      BY <1>5, <2>1 DEF CallInOrder, StopCalls, EndCalls
    <3>3. \A k \in 1 .. Len(s) : k = 1 \/ k = 2
      <4>1. Len(s) = 2
        BY <1>1, <1>5
      <4> QED
        BY <4>1
    <3> QED
      BY <3>1, <3>2, <3>3
  <2>3. InOrder(u)
    BY <1>1, <1>3, <2>2, PushInOrder DEF u
  <2>4. Told(u, p)
    BY <2>1 DEF Told
  <2> QED
    BY <1>3, <2>1, <2>3, <2>4 DEF u, s
<1> QED
  BY <1>4, <1>5

-----------------------------------------------------------------------------
(* What the steps have in common. *)

LEMMA Names ==
  ASSUME Types
  PROVE  /\ Models \subseteq Logs /\ "console" \notin Logs /\ "none" \notin Logs
         /\ "tlms" \in Models /\ "none" \notin Models /\ "console" \notin Models
         /\ run.program \in Seq(Models) /\ ToSet(run.program) \subseteq Models
<1>1. Models \subseteq Logs /\ "console" \notin Logs /\ "none" \notin Logs
  BY LoggingAssumption
<1>2. run.program \in Seq(Models)
  BY LoggingAssumption DEF Types, WorkerState
<1>3. ToSet(run.program) \subseteq Models
  BY <1>2, ElementOfSeq DEF ToSet
<1> QED
  BY <1>1, <1>2, <1>3 DEF Models

\* A step that calls nothing: of a sink, or of a worker.
LEMMA NothingDone ==
  ASSUME LogInv, run.up, SinkInv', Mono, UNCHANGED <<registry, periodic_flusher_, todo, run>>,
         Types', FlushesLiveLoggers',
         \A w \in Workers : worker'[w].in # "none" => worker[w].in # "none"
  PROVE  LogInv'
<1>1. InOrder(todo) /\ Registered /\ Usable /\ Flushers
  BY DEF LogInv
<1>2. InOrder(todo)' /\ Registered'
  BY <1>1 DEF Registered, Known, registry
<1>3. Usable'
  BY <1>1 DEF Usable, Known, registry, Mono
<1>4. Flushers'
  BY <1>1 DEF Flushers
<1> QED
  BY <1>2, <1>3, <1>4 DEF LogInv

\* The step does the first of the calls.
LEMMA CallDone ==
  ASSUME LogInv, run.up, SinkInv', Mono, Types', FlushesLiveLoggers', run' = run,
         todo # <<>>, todo' = Tail(todo), todo[1].call \notin {"sink", "destroy", "stop_flusher"},
         periodic_flusher_' = periodic_flusher_,
         \A m \in Logs : m \in loggers_ => m \in loggers_',
         \A m \in Logs : m \in loggers_' => Known(todo, m),
         default_logger_' = default_logger_ \/ (default_logger_' = "tlms" /\ "tlms" \in loggers_'),
         todo[1].call = "register" => todo[1].model \in loggers_',
         \A w \in Workers :
           worker'[w].in # "none" =>
             worker[w].in # "none" /\ ~(todo[1].call = "join" /\ todo[1].worker = w)
  PROVE  LogInv'
<1>1. InOrder(todo) /\ Registered /\ Usable /\ Flushers /\ Types
  BY DEF LogInv
<1>2. InOrder(todo)' /\ Registered' /\ \A m \in Logs : Known(todo, m)' => m \in loggers_'
  BY <1>1, DoneRegistered, Names
<1>3. Usable'
  BY <1>1, <1>2 DEF Usable, Mono
<1>4. Flushers'
  BY <1>1, DoneFlushers
<1> QED
  BY <1>2, <1>3, <1>4 DEF LogInv

\* The step ends the program.
LEMMA EndBegins ==
  ASSUME LogInv, run.up, SinkInv', Mono, todo' = EndOfMain, UNCHANGED <<registry, flusher, run>>,
         todo = <<>> \/ todo[1].call \notin StopCalls
  PROVE  LogInv'
<1>1. InOrder(todo) /\ Registered /\ Usable /\ Flushers /\ Types /\ FlushesLiveLoggers
  BY DEF LogInv
<1>2. InOrder(todo)' /\ Ending(todo') /\ todo'[1].call = "stop_flusher"
  BY LastIs
<1>3. \A k \in 1 .. Len(todo') : todo'[k].call \notin {"log", "set_default", "register"}
  <2>1. \A k \in 1 .. Len(EndOfMain) : k = 1 \/ k = 2
    BY LastIs
  <2> QED
    BY <2>1, LastIs
<1>4. Registered'
  BY <1>1, <1>2, <1>3 DEF Registered, registry
<1>5. Usable'
  BY <1>1, <1>2 DEF Usable, Known, Mono, registry
<1>6. Flushers'
  BY <1>1, <1>2, NobodyTold DEF Flushers, flusher
<1>7. Types' /\ FlushesLiveLoggers'
  BY <1>1 DEF Types, WorkerState, FlushesLiveLoggers, Up, registry, flusher
<1> QED
  BY <1>2, <1>4, <1>5, <1>6, <1>7 DEF LogInv

\* Nothing was to be called, and a model logs.
LEMMA LineBegins ==
  ASSUME LogInv, run.up, todo = <<>>, NEW m \in ToSet(run.program), todo' = <<Does("log", m)>>,
         UNCHANGED <<sink, registry, flusher, run>>
  PROVE  LogInv'
<1>1. InOrder(todo) /\ Registered /\ Usable /\ Flushers /\ Types /\ FlushesLiveLoggers /\ SinkInv
  BY DEF LogInv
<1>2. m \in Models /\ Models \subseteq Logs
  BY <1>1, Names
<1>3. ~Ending(todo) /\ Len(todo) = 0
  BY DEF Ending
<1>4. \A n \in ToSet(run.program) : n \in loggers_
  BY <1>1, <1>3 DEF Registered
<1>5. /\ InOrder(todo)' /\ ~Ending(todo') /\ Len(todo') = 1
      /\ todo'[1].call = "log" /\ todo'[1].model = m /\ todo'[1].worker = 0
  BY <1>2, LineIs
<1>6. Registered'
  <2>1. \A k \in 1 .. Len(todo') : k = 1
    BY <1>5
  <2>2. m \in loggers_
    BY <1>4
  <2> QED
    BY <1>1, <1>3, <1>4, <1>5, <2>1, <2>2 DEF Registered, Known, registry
<1>7. SinkInv' /\ Mono
  BY <1>1 DEF SinkInv, SinkTypes, Counted, Held, Coming, Rotating, NeverWritesToNull, In, Ready, Mono, sink
<1>8. Usable'
  BY <1>1, <1>5, <1>7 DEF Usable, Known, Mono, registry
<1>9. Flushers'
  BY <1>1, <1>3, <1>5, NobodyTold DEF Flushers, flusher
<1>10. Types' /\ FlushesLiveLoggers'
  BY <1>1 DEF Types, WorkerState, FlushesLiveLoggers, Up, registry, flusher
<1> QED
  BY <1>5, <1>6, <1>7, <1>8, <1>9, <1>10 DEF LogInv

-----------------------------------------------------------------------------
(* The calls of the simulation. *)

LEMMA CallsIs ==
  ASSUME LogInv, NEW c, Calls(c)
  PROVE  /\ run.up /\ In("no_sink") /\ todo # <<>> /\ todo[1].call = c
         /\ Model = todo[1].model /\ Old = todo[1].worker /\ Model \in Models \cup {"none"}
         /\ SinkInv /\ Types /\ InOrder(todo) /\ Registered /\ Usable /\ Flushers /\ FlushesLiveLoggers
         /\ 1 \in 1 .. Len(todo) /\ CallInOrder(todo, 1)
<1>1. run.up /\ In("no_sink") /\ todo # <<>> /\ Head(todo).call = c
  BY DEF Calls, Up
<1>2. SinkInv /\ Types /\ InOrder(todo) /\ Registered /\ Usable /\ Flushers /\ FlushesLiveLoggers
  BY <1>1 DEF LogInv
<1>3. Head(todo) = todo[1] /\ Len(todo) \in Nat \ {0} /\ todo[1].model \in Models \cup {"none"}
  BY <1>1, <1>2, CallFacts
<1>4. 1 \in 1 .. Len(todo)
  BY <1>3
<1> QED
  BY <1>1, <1>2, <1>3, <1>4 DEF Model, Old, InOrder

\* The sinks may be as they were.
LEMMA SameSink == ASSUME SinkInv, UNCHANGED sink PROVE SinkInv' /\ Mono
BY DEF SinkInv, SinkTypes, Counted, Held, Coming, Rotating, NeverWritesToNull, In, Ready, Mono, sink

LEMMA SinkKeeps == ASSUME LogInv, Sink PROVE LogInv'
<1>1. /\ run.up /\ In("no_sink") /\ todo # <<>> /\ todo[1].call = "sink" /\ Model = todo[1].model
      /\ SinkInv /\ Types /\ InOrder(todo) /\ Registered /\ Usable /\ Flushers /\ FlushesLiveLoggers
      /\ CallInOrder(todo, 1)
  BY CallsIs DEF Sink
<1> DEFINE u == Setup(Model) \o Tail(todo)
<1>2. /\ todo' = u /\ UNCHANGED <<registry, flusher, run>>
      /\ IF Model \in loggers_ THEN ConstructAgain(Model) ELSE Construct(Model)
  BY DEF Sink
<1>3. PICK m \in Models : m = Model
  BY <1>1 DEF CallInOrder
<1>4. m \in Logs /\ Models \subseteq Logs
  BY <1>1, Names
<1>5. SinkInv' /\ Mono /\ Ready(m)'
  <2>1. CASE m \in loggers_
    <3>1. ConstructAgain(m)
      BY <1>2, <1>3, <2>1
    <3>2. Ready(m)
      BY <1>1, <1>4, <2>1 DEF Usable, Known
    <3> QED
      BY <1>1, <1>4, <3>1, <3>2, AgainKeeps DEF Mono
  <2>2. CASE m \notin loggers_
    <3>1. Construct(m)
      BY <1>2, <1>3, <2>2
    <3> QED
      BY <1>1, <1>4, <3>1, ConstructKeeps DEF Mono
  <2> QED
    BY <2>1, <2>2
<1>6. /\ InOrder(u) /\ ~Ending(u) /\ u # <<>>
      /\ u[1].call = "register" /\ u[1].model = m /\ u[1].worker = 0
  BY <1>1, <1>3, SetupInOrder
<1>7. ~Ending(todo)
  BY <1>1, NotEnding DEF EndCalls, StopCalls
<1>8. /\ Setup(m) \in Seq(Call) /\ Len(Setup(m)) \in 2 .. 4
      /\ Setup(m)[1].call = "register"
      /\ \A k \in 2 .. Len(Setup(m)) : Setup(m)[k].model = m
  BY SetupIs
<1>9. /\ Len(Setup(m)) \in Nat
      /\ \A k \in 1 .. Len(Setup(m)) : u[k] = Setup(m)[k]
      /\ \A k \in 1 .. Len(u) : k > Len(Setup(m)) =>
           u[k] = todo[k - Len(Setup(m)) + 1] /\ k - Len(Setup(m)) + 1 \in 2 .. Len(todo)
      /\ \A j \in 2 .. Len(todo) :
           Len(Setup(m)) + j - 1 \in 1 .. Len(u) /\ u[Len(Setup(m)) + j - 1] = todo[j]
  BY <1>1, <1>3, <1>8, Pushed
<1>10. Len(todo) \in Nat \ {0} /\ \A k \in 1 .. Len(todo) : k = 1 \/ k \in 2 .. Len(todo)
  BY <1>1, CallFacts
<1>11. Len(u) \in Nat \ {0}
  BY <1>6, EmptySeq, LenProperties DEF InOrder
<1> HIDE DEF u
<1>12. ASSUME NEW k \in 1 .. Len(u), u[k].call \in {"log", "set_default"}
       PROVE  u[k].model = m \/ u[k].model \in loggers_
  <2>1. CASE k <= Len(Setup(m))
    <3>1. k \in 1 .. Len(Setup(m)) /\ k # 1
      BY <1>6, <1>9, <1>12, <2>1
    <3>2. k \in 2 .. Len(Setup(m))
      BY <1>9, <3>1
    <3> QED
      BY <1>8, <1>9, <3>1, <3>2
  <2>2. CASE k > Len(Setup(m))
    <3>1. PICK j \in 2 .. Len(todo) : u[k] = todo[j]
      BY <1>9, <2>2
    <3>2. Known(todo, todo[j].model)
      <4>1. j \in 1 .. Len(todo)
        BY <1>10
      <4> QED
        BY <1>1, <1>12, <3>1, <4>1 DEF Registered
    <3> QED
      BY <1>1, <3>1, <3>2 DEF Known
  <2> QED
    BY <1>9, <2>1, <2>2
<1>13. Registered'
  <2>1. \A k \in 1 .. Len(todo') :
          todo'[k].call \in {"log", "set_default"} => Known(todo, todo[k].model)'
    BY <1>2, <1>6, <1>12 DEF Known, registry
  <2>2. default_logger_' # "none" /\ (default_logger_' = "tlms" => "tlms" \in loggers_')
    BY <1>1, <1>2, <1>7 DEF Registered, registry
  <2>3. ASSUME NEW n \in ToSet(run.program)
        PROVE  n \in loggers_ \/ \E k \in 1 .. Len(u) : u[k].call \in {"sink", "register"} /\ u[k].model = n
    <3>1. CASE n \in loggers_
      BY <3>1
    <3>2. CASE \E k \in 1 .. Len(todo) : todo[k].call \in {"sink", "register"} /\ todo[k].model = n
      <4>1. PICK k \in 1 .. Len(todo) : todo[k].call \in {"sink", "register"} /\ todo[k].model = n
        BY <3>2
      <4>2. CASE k = 1
        <5>1. n = m /\ 1 \in 1 .. Len(u)
          BY <1>1, <1>3, <1>11, <4>1, <4>2
        <5> QED
          BY <1>6, <5>1
      <4>3. CASE k \in 2 .. Len(todo)
        BY <1>9, <4>1, <4>3
      <4> QED
        BY <1>10, <4>2, <4>3
    <3> QED
      BY <1>1, <1>7, <3>1, <3>2 DEF Registered
  <2> QED
    BY <1>2, <2>1, <2>2, <2>3 DEF Registered, registry
<1>14. Usable'
  BY <1>1, <1>2, <1>5, <1>6 DEF Usable, Known, Mono, registry
<1>15. Flushers'
  <2>1. \A w \in Workers : worker[w].in # "none" => w = periodic_flusher_
    BY <1>1, NobodyTold DEF Flushers, StopCalls
  <2> QED
    BY <1>2, <1>6, <2>1 DEF Flushers, flusher
<1>16. Types' /\ FlushesLiveLoggers'
  BY <1>1, <1>2 DEF Types, WorkerState, FlushesLiveLoggers, Up, registry, flusher
<1> QED
  BY <1>1, <1>2, <1>5, <1>6, <1>13, <1>14, <1>15, <1>16 DEF LogInv

LEMMA SinkFailsKeeps == ASSUME LogInv, SinkFails PROVE LogInv'
<1>1. run.up /\ todo # <<>> /\ todo[1].call = "sink" /\ SinkInv
  BY CallsIs DEF SinkFails
<1>2. todo' = EndOfMain /\ UNCHANGED <<registry, flusher, run>>
  BY DEF SinkFails, Ends, EndOfMain
<1>3. SinkInv' /\ Mono
  BY <1>1 DEF SinkFails, SinkInv, SinkTypes, Counted, Held, Coming, Rotating, NeverWritesToNull, In, Ready, Mono
<1> QED
  BY <1>1, <1>2, <1>3, EndBegins DEF StopCalls

LEMMA RegisterKeeps == ASSUME LogInv, Register PROVE LogInv'
<1>1. /\ run.up /\ todo # <<>> /\ todo[1].call = "register" /\ Model = todo[1].model /\ CallInOrder(todo, 1)
      /\ SinkInv /\ Types /\ FlushesLiveLoggers
  BY CallsIs DEF Register
<1>2. SinkInv' /\ Mono /\ UNCHANGED <<flusher, run>>
  BY <1>1, SameSink DEF Register
<1>3. CASE Model \in loggers_
  <2>1. todo' = EndOfMain /\ UNCHANGED <<registry, flusher, run>>
    BY <1>2, <1>3 DEF Register, Ends, EndOfMain
  <2> QED
    BY <1>1, <1>2, <2>1, EndBegins DEF StopCalls
<1>4. CASE Model \notin loggers_
  <2>1. todo' = Tail(todo) /\ loggers_' = loggers_ \cup {Model} /\ default_logger_' = default_logger_
    BY <1>4 DEF Register, Done
  <2>2. Model \in Models /\ Models \subseteq Logs
    BY <1>1, Names DEF CallInOrder
  <2>3. Types' /\ FlushesLiveLoggers'
    BY <1>1, <1>2, <2>1, <2>2 DEF Types, WorkerState, FlushesLiveLoggers, Up, flusher
  <2>4. \A m \in Logs : m \in loggers_' => Known(todo, m)
    BY <1>1, <2>1 DEF Known
  <2>5. /\ \A m \in Logs : m \in loggers_ => m \in loggers_'
        /\ todo[1].model \in loggers_'
        /\ periodic_flusher_' = periodic_flusher_ /\ worker' = worker /\ run' = run
    BY <1>1, <1>2, <2>1 DEF flusher
  <2> QED
    BY <1>1, <1>2, <2>1, <2>3, <2>4, <2>5, CallDone
<1> QED
  BY <1>3, <1>4

LEMMA DefaultKeeps == ASSUME LogInv, set_default_logger PROVE LogInv'
<1>1. /\ run.up /\ todo # <<>> /\ todo[1].call = "set_default" /\ Model = todo[1].model /\ 1 \in 1 .. Len(todo)
      /\ CallInOrder(todo, 1) /\ SinkInv /\ Types /\ Registered /\ InOrder(todo)
  BY CallsIs DEF set_default_logger
<1>2. /\ SinkInv' /\ Mono /\ UNCHANGED <<flusher, run>> /\ todo' = Tail(todo) /\ MapIsFree
      /\ loggers_' = (loggers_ \ {default_logger_}) \cup {Model} /\ default_logger_' = Model
  BY <1>1, SameSink DEF set_default_logger, Done
<1>3. Model = "tlms" /\ Known(todo, "tlms") /\ "tlms" \in loggers_
  BY <1>1 DEF CallInOrder, Registered, Known
<1>4. default_logger_ \in {"console", "tlms"}
  BY <1>1, NotEnding DEF Types, WorkerState, Registered, EndCalls, StopCalls
<1>5. \A m \in Logs : m \in loggers_' <=> m \in loggers_
  BY <1>1, <1>2, <1>3, <1>4, Names
<1>6. Types' /\ FlushesLiveLoggers'
  BY <1>1, <1>2, <1>3, Names DEF Types, WorkerState, FlushesLiveLoggers, MapIsFree, flusher
<1>7. "tlms" \in loggers_' /\ \A m \in Logs : m \in loggers_' => Known(todo, m)
  BY <1>2, <1>3, <1>5 DEF Known
<1>8. periodic_flusher_' = periodic_flusher_ /\ worker' = worker /\ run' = run
  BY <1>2 DEF flusher
<1> QED
  BY <1>1, <1>2, <1>3, <1>5, <1>6, <1>7, <1>8, CallDone

LEMMA LineKeeps == ASSUME LogInv, LogLine PROVE LogInv'
<1>1. /\ run.up /\ todo # <<>> /\ todo[1].call = "log" /\ Model = todo[1].model
      /\ CallInOrder(todo, 1) /\ SinkInv /\ Types /\ Usable /\ FlushesLiveLoggers
  BY CallsIs DEF LogLine
<1>2. PICK m \in Models : m = Model
  BY <1>1 DEF CallInOrder
<1>3. /\ Begin(m) /\ UNCHANGED <<registry, flusher, run>> /\ todo' = Tail(todo) /\ m \in loggers_ /\ m \in Logs
  BY <1>1, <1>2, Names DEF LogLine, Done
<1>4. Ready(m)
  BY <1>1, <1>3 DEF Usable, Known
<1>5. SinkInv' /\ Mono
  BY <1>1, <1>3, <1>4, BeginKeeps DEF Mono
<1>6. Types' /\ FlushesLiveLoggers'
  BY <1>1, <1>3 DEF Types, WorkerState, FlushesLiveLoggers, Up, registry, flusher
<1>7. \A k \in Logs : k \in loggers_ => Known(todo, k)
  BY DEF Known
<1> QED
  BY <1>1, <1>3, <1>5, <1>6, <1>7, CallDone DEF registry, flusher

LEMMA LogDefaultKeeps == ASSUME LogInv, LogDefault PROVE LogInv'
<1>1. /\ run.up /\ todo # <<>> /\ todo[1].call = "default" /\ InOrder(todo) /\ Registered
      /\ SinkInv /\ Types /\ Usable /\ FlushesLiveLoggers
  BY CallsIs DEF LogDefault
<1>2. UNCHANGED <<registry, flusher, run>> /\ todo' = Tail(todo)
  BY DEF LogDefault, Done
<1>3. default_logger_ \in {"console", "tlms"} /\ (default_logger_ = "tlms" => "tlms" \in loggers_)
  BY <1>1, NotEnding DEF Types, WorkerState, Registered, EndCalls, StopCalls
<1>4. SinkInv' /\ Mono
  <2>1. CASE default_logger_ = "console"
    BY <1>1, <2>1, SameSink DEF LogDefault
  <2>2. CASE default_logger_ = "tlms"
    <3>1. Begin("tlms") /\ "tlms" \in Logs
      BY <1>1, <2>2, Names DEF LogDefault
    <3>2. Ready("tlms")
      BY <1>1, <1>3, <2>2, <3>1 DEF Usable, Known
    <3> QED
      BY <1>1, <3>1, <3>2, BeginKeeps DEF Mono
  <2> QED
    BY <1>3, <2>1, <2>2
<1>5. Types' /\ FlushesLiveLoggers'
  BY <1>1, <1>2 DEF Types, WorkerState, FlushesLiveLoggers, Up, registry, flusher
<1>6. \A k \in Logs : k \in loggers_ => Known(todo, k)
  BY DEF Known
<1> QED
  BY <1>1, <1>2, <1>4, <1>5, <1>6, CallDone DEF registry, flusher

LEMMA RotationKeeps == ASSUME LogInv, Rotation PROVE LogInv'
<1>1. run.up /\ SinkInv /\ Types /\ FlushesLiveLoggers /\ UNCHANGED <<registry, flusher, todo, run>>
  BY DEF Rotation, Up, LogInv
<1>2. SinkInv' /\ Mono
  BY <1>1, SinkItKeeps DEF Rotation, Mono
<1>3. Types' /\ FlushesLiveLoggers'
  BY <1>1 DEF Types, WorkerState, FlushesLiveLoggers, Up, registry, flusher
<1> QED
  BY <1>1, <1>2, <1>3, NothingDone DEF flusher

\* A worker that is to be stopped is told to do so first.
LEMMA StopsBegin ==
  ASSUME LogInv, run.up, todo # <<>>, todo[1].call \in {"flush_every", "stop_flusher"},
         todo' = Stops(periodic_flusher_) \o Tail(todo), UNCHANGED <<sink, loggers_, run>>,
         default_logger_' = default_logger_ \/ (default_logger_' = "none" /\ Ending(todo)),
         Types', FlushesLiveLoggers',
         \A w \in Workers :
           worker'[w].in # "none" => worker[w].in # "none" \/ (w = periodic_flusher_' /\ ~Ending(todo))
  PROVE  LogInv'
<1>1. InOrder(todo) /\ Registered /\ Usable /\ Flushers /\ Types /\ SinkInv /\ periodic_flusher_ \in 0 .. 2
  BY DEF LogInv, Types
<1> DEFINE s == Stops(periodic_flusher_)
           u == s \o Tail(todo)
<1>2. /\ InOrder(u) /\ (Ending(u) <=> Ending(todo)) /\ (u # <<>> => u[1].call # "register")
      /\ (periodic_flusher_ # 0 => Told(u, periodic_flusher_))
  BY <1>1, StopsInOrder
<1>3. /\ s \in Seq(Call)
      /\ periodic_flusher_ = 0 => s = <<>>
      /\ periodic_flusher_ # 0 => (Len(s) = 2 /\ s[1].call = "deactivate" /\ s[2].call = "join")
  BY <1>1, StopsIs
<1>4. ASSUME NEW k \in 1 .. Len(s) PROVE s[k].call \in {"deactivate", "join"}
  <2>1. CASE periodic_flusher_ = 0
    <3>1. Len(s) = 0
      BY <1>3, <2>1
    <3> QED
      BY <3>1
  <2>2. CASE periodic_flusher_ # 0
    <3>1. Len(s) = 2
      BY <1>3, <2>2
    <3>2. k = 1 \/ k = 2
      BY <3>1
    <3> QED
      BY <1>3, <2>2, <3>2
  <2> QED
    BY <2>1, <2>2
<1> HIDE DEF s
<1>5. /\ Len(s) \in Nat
      /\ \A k \in 1 .. Len(s) : u[k] = s[k]
      /\ \A k \in 1 .. Len(u) : k > Len(s) =>
           u[k] = todo[k - Len(s) + 1] /\ k - Len(s) + 1 \in 2 .. Len(todo)
      /\ \A j \in 2 .. Len(todo) : Len(s) + j - 1 \in 1 .. Len(u) /\ u[Len(s) + j - 1] = todo[j]
  BY <1>1, <1>3, Pushed
<1>6. Len(todo) \in Nat \ {0} /\ \A k \in 1 .. Len(todo) : k = 1 \/ k \in 2 .. Len(todo)
  BY <1>1, CallFacts
<1>7. todo' = u
  BY DEF s
<1> HIDE DEF u
<1>8. ASSUME NEW k \in 1 .. Len(u), u[k].call \in {"log", "set_default"} PROVE u[k].model \in loggers_
  <2>1. k > Len(s)
    <3>1. k \notin 1 .. Len(s)
      BY <1>4, <1>5, <1>8
    <3> QED
      BY <1>5, <3>1
  <2>2. PICK j \in 2 .. Len(todo) : u[k] = todo[j]
    BY <1>5, <2>1
  <2>3. j \in 1 .. Len(todo)
    BY <1>6
  <2>4. Known(todo, todo[j].model)
    BY <1>1, <1>8, <2>2, <2>3 DEF Registered
  <2> QED
    BY <2>2, <2>4 DEF Known
<1>9. ASSUME NEW m \in ToSet(run.program)
      PROVE  \/ m \in loggers_ \/ Ending(u)
             \/ \E k \in 1 .. Len(u) : u[k].call \in {"sink", "register"} /\ u[k].model = m
  <2>1. CASE m \in loggers_ \/ Ending(todo)
    BY <1>2, <2>1
  <2>2. CASE \E k \in 1 .. Len(todo) : todo[k].call \in {"sink", "register"} /\ todo[k].model = m
    <3>1. PICK k \in 1 .. Len(todo) : todo[k].call \in {"sink", "register"} /\ todo[k].model = m
      BY <2>2
    <3>2. k \in 2 .. Len(todo)
      BY <1>6, <3>1
    <3> QED
      BY <1>5, <3>1, <3>2
  <2> QED
    BY <1>1, <2>1, <2>2 DEF Registered
<1>10. Registered'
  <2>1. \A k \in 1 .. Len(todo') :
          todo'[k].call \in {"log", "set_default"} => Known(todo, todo[k].model)'
    BY <1>7, <1>8 DEF Known
  <2>2. /\ default_logger_' = "tlms" => "tlms" \in loggers_'
        /\ default_logger_' = "none" => Ending(todo)'
    BY <1>1, <1>2, <1>7 DEF Registered
  <2> QED
    BY <1>7, <1>9, <2>1, <2>2 DEF Registered
<1>11. SinkInv' /\ Mono
  BY <1>1, SameSink
<1>12. Usable'
  BY <1>1, <1>2, <1>7, <1>11 DEF Usable, Known, Mono
<1>13. Flushers'
  <2> SUFFICES ASSUME NEW w \in Workers, worker'[w].in # "none"
               PROVE  Told(u, w) \/ (w = periodic_flusher_' /\ ~Ending(u))
    BY <1>7 DEF Flushers
  <2>1. CASE worker[w].in # "none"
    <3>1. w = periodic_flusher_ /\ w # 0
      BY <1>1, <2>1, NobodyTold DEF Flushers, StopCalls, Workers
    <3> QED
      BY <1>2, <3>1
  <2>2. CASE worker[w].in = "none"
    BY <1>2, <2>2
  <2> QED
    BY <2>1, <2>2
<1> QED
  BY <1>2, <1>7, <1>10, <1>11, <1>12, <1>13 DEF LogInv

LEMMA FlushEveryKeeps == ASSUME LogInv, flush_every PROVE LogInv'
<1>1. /\ run.up /\ todo # <<>> /\ todo[1].call = "flush_every" /\ InOrder(todo)
      /\ Types /\ FlushesLiveLoggers
  BY CallsIs DEF flush_every
<1>2. PICK w \in Workers :
        /\ worker[w].in = "none" /\ periodic_flusher_' = w
        /\ worker' = [worker EXCEPT ![w].in = "wait"] /\ active_' = [active_ EXCEPT ![w] = TRUE]
  BY DEF flush_every, Starts
<1>3. UNCHANGED <<sink, registry, run>> /\ todo' = Stops(periodic_flusher_) \o Tail(todo)
  BY DEF flush_every
<1>4. ~Ending(todo)
  BY <1>1, NotEnding DEF EndCalls, StopCalls
<1>5. \A v \in Workers : worker'[v] = IF v = w THEN [worker[w] EXCEPT !.in = "wait"] ELSE worker[v]
  BY <1>1, <1>2 DEF Types, WorkerState
<1>6. Types'
  BY <1>1, <1>2, <1>3 DEF Types, WorkerState, registry, Workers
<1>7. FlushesLiveLoggers'
  BY <1>1, <1>3, <1>5 DEF Types, WorkerState, FlushesLiveLoggers, Up, registry
<1>8. \A v \in Workers :
        worker'[v].in # "none" => worker[v].in # "none" \/ (v = periodic_flusher_' /\ ~Ending(todo))
  BY <1>2, <1>4, <1>5
<1> QED
  BY <1>1, <1>3, <1>6, <1>7, <1>8, StopsBegin DEF registry

LEMMA StopFlusherKeeps == ASSUME LogInv, StopFlusher PROVE LogInv'
<1>1. /\ run.up /\ todo # <<>> /\ todo[1].call = "stop_flusher" /\ CallInOrder(todo, 1)
      /\ Types /\ FlushesLiveLoggers
  BY CallsIs DEF StopFlusher
<1>2. /\ UNCHANGED <<sink, loggers_, flusher, run>> /\ todo' = Stops(periodic_flusher_) \o Tail(todo)
      /\ default_logger_' = "none"
  BY DEF StopFlusher
<1>3. Ending(todo)
  BY <1>1 DEF CallInOrder, Ending
<1>4. Types' /\ FlushesLiveLoggers'
  BY <1>1, <1>2 DEF Types, WorkerState, FlushesLiveLoggers, Up, flusher
<1>5. \A v \in Workers :
        worker'[v].in # "none" => worker[v].in # "none" \/ (v = periodic_flusher_' /\ ~Ending(todo))
  BY <1>2 DEF flusher
<1> QED
  BY <1>1, <1>2, <1>3, <1>4, <1>5, StopsBegin

LEMMA DeactivateKeeps == ASSUME LogInv, Deactivate PROVE LogInv'
<1>1. /\ run.up /\ todo # <<>> /\ todo[1].call = "deactivate" /\ SinkInv /\ Types /\ FlushesLiveLoggers
  BY CallsIs DEF Deactivate
<1>2. /\ UNCHANGED <<sink, registry, periodic_flusher_, worker, run>> /\ todo' = Tail(todo)
      /\ active_' = [active_ EXCEPT ![Old] = FALSE]
  BY DEF Deactivate, Done
<1>3. SinkInv' /\ Mono
  BY <1>1, <1>2, SameSink
<1>4. Types' /\ FlushesLiveLoggers'
  BY <1>1, <1>2 DEF Types, WorkerState, FlushesLiveLoggers, Up, registry
<1>5. \A k \in Logs : k \in loggers_ => Known(todo, k)
  BY DEF Known
<1> QED
  BY <1>1, <1>2, <1>3, <1>4, <1>5, CallDone DEF registry

LEMMA JoinKeeps == ASSUME LogInv, Join PROVE LogInv'
<1>1. /\ run.up /\ todo # <<>> /\ todo[1].call = "join" /\ SinkInv /\ Types /\ FlushesLiveLoggers
      /\ Old = todo[1].worker
  BY CallsIs DEF Join
<1>2. /\ UNCHANGED <<sink, registry, periodic_flusher_, active_, run>> /\ todo' = Tail(todo)
      /\ worker' = [worker EXCEPT ![Old] = NoWorker]
  BY DEF Join, Done
<1>3. SinkInv' /\ Mono
  BY <1>1, <1>2, SameSink
<1>4. \A v \in Workers : worker'[v] = IF v = Old THEN NoWorker ELSE worker[v]
  BY <1>1, <1>2 DEF Types, WorkerState
<1>5. Types' /\ FlushesLiveLoggers'
  BY <1>1, <1>2, <1>4 DEF Types, WorkerState, FlushesLiveLoggers, Up, registry, NoWorker
<1>6. \A v \in Workers : worker'[v].in # "none" => worker[v].in # "none" /\ ~(todo[1].worker = v)
  BY <1>1, <1>4 DEF NoWorker
<1>7. \A k \in Logs : k \in loggers_ => Known(todo, k)
  BY DEF Known
<1> QED
  BY <1>1, <1>2, <1>3, <1>5, <1>6, <1>7, CallDone DEF registry

-----------------------------------------------------------------------------
(* The runs of the program, and the workers. *)

LEMMA IdleKeeps ==
  ASSUME LogInv, Simulate \/ (\E word \in Words : Parse(word)) \/ Trace \/ Finish
  PROVE  LogInv'
<1>1. /\ run.up /\ todo = <<>> /\ UNCHANGED <<sink, registry, flusher, run>> /\ SinkInv
      /\ todo' = EndOfMain \/ \E m \in ToSet(run.program) : todo' = <<Does("log", m)>>
  BY DEF Simulate, Parse, Trace, Finish, Simulated, Logs1, Ends, EndOfMain, Up, LogInv
<1>2. SinkInv' /\ Mono
  BY <1>1, SameSink
<1> QED
  BY <1>1, <1>2, EndBegins, LineBegins

LEMMA DestroyKeeps == ASSUME LogInv, Destroy PROVE LogInv'
<1>1. run.up /\ SinkInv /\ Types /\ In("no_sink")
  BY CallsIs DEF Destroy
<1>2. /\ CloseAll /\ at' = at /\ loggers_' = {} /\ run' = [run EXCEPT !.up = FALSE]
      /\ UNCHANGED <<default_logger_, flusher>>
  BY DEF Destroy, CloseAll
<1>3. SinkInv'
  BY <1>1, <1>2, CloseAllKeeps
<1>4. Types' /\ ~run'.up /\ In("no_sink")'
  BY <1>1, <1>2 DEF Types, WorkerState, flusher, In
<1> QED
  BY <1>3, <1>4 DEF LogInv

LEMMA CrashKeeps == ASSUME LogInv, Crash PROVE LogInv'
<1>1. /\ SinkInv /\ Types /\ Die /\ at' = Free /\ loggers_' = {} /\ run' = [run EXCEPT !.up = FALSE]
      /\ UNCHANGED <<default_logger_, flusher>>
  BY DEF Crash, Die, LogInv
<1>2. SinkInv'
  BY <1>1, DieKeeps
<1>3. Types' /\ ~run'.up /\ In("no_sink")'
  BY <1>1 DEF Types, WorkerState, flusher, In, Free
<1> QED
  BY <1>2, <1>3 DEF LogInv

LEMMA StartKeeps == ASSUME LogInv, Start PROVE LogInv'
<1>1. /\ SinkInv /\ Types /\ loggers_' = {"console"} /\ default_logger_' = "console"
      /\ periodic_flusher_' = 0 /\ worker' = [w \in Workers |-> NoWorker]
      /\ active_' = [w \in Workers |-> FALSE] /\ UNCHANGED sink
      /\ run' = [run EXCEPT !.number = @ + 1, !.up = TRUE]
      /\ todo' = [k \in 1 .. Len(run.program) |-> Does("sink", run.program[k])]
  BY DEF Start, LogInv
<1>2. SinkInv' /\ Mono
  BY <1>1, SameSink
<1>3. run'.program = run.program /\ run'.up /\ run' \in [number : Nat, up : BOOLEAN, program : Programs]
  <2>1. run \in [number : Nat, up : BOOLEAN, program : Programs]
    BY <1>1 DEF Types
  <2>2. run' = [number |-> run.number + 1, up |-> TRUE, program |-> run.program]
    BY <1>1, <2>1
  <2> QED
    BY <2>1, <2>2
<1>4. \A w \in Workers : worker'[w] = NoWorker
  BY <1>1
<1>5. Types' /\ FlushesLiveLoggers' /\ Flushers'
  BY <1>1, <1>3, <1>4 DEF Types, WorkerState, FlushesLiveLoggers, Flushers, NoWorker
<1>6. run.program \in Seq(Models) /\ Models \subseteq Logs /\ "console" \notin Logs
  BY <1>1, Names
<1>7. /\ InOrder(todo)' /\ Len(todo') = Len(run.program)
      /\ \A k \in 1 .. Len(todo') : todo'[k].call = "sink" /\ todo'[k].model = run.program[k]
  BY <1>1, <1>6, BenchIs
<1>8. todo' # <<>> => todo'[1].call = "sink"
  BY <1>7, EmptySeq, LenProperties DEF InOrder
<1>9. Usable'
  BY <1>1, <1>6, <1>8 DEF Usable, Known
<1>10. \A m \in ToSet(run.program) : \E k \in 1 .. Len(todo') : todo'[k].call = "sink" /\ todo'[k].model = m
  BY <1>6, <1>7 DEF ToSet
<1>11. Registered'
  <2>1. \A k \in 1 .. Len(todo') : todo'[k].call \notin {"log", "set_default"}
    BY <1>7
  <2>2. default_logger_' # "tlms" /\ default_logger_' # "none"
    BY <1>1
  <2> QED
    BY <1>3, <1>10, <2>1, <2>2 DEF Registered
<1> QED
  BY <1>2, <1>3, <1>5, <1>7, <1>9, <1>11 DEF LogInv


LEMMA WorkerKeeps == ASSUME LogInv, NEW w \in Workers, Worker(w) PROVE LogInv'
<1>1. /\ run.up /\ SinkInv /\ Types /\ FlushesLiveLoggers
      /\ UNCHANGED <<registry, periodic_flusher_, active_, todo, run>>
  BY DEF Worker, WorkerEnds, WorkerCalls, FlushAll, FlushOne, FlushAllEnds, Up, LogInv
<1>2. /\ worker \in [Workers -> WorkerState] /\ worker[w] \in WorkerState
      /\ worker[w].left \subseteq Logs \cup {"console"} /\ loggers_ \subseteq Logs \cup {"console"}
  BY <1>1 DEF Types, WorkerState
<1>3. ASSUME NEW r \in WorkerState, worker' = [worker EXCEPT ![w] = r], worker[w].in # "none",
             r.in = "flush_all" => r.left \subseteq loggers_, SinkInv', Mono
      PROVE  LogInv'
  <2>1. \A v \in Workers : worker'[v] = IF v = w THEN r ELSE worker[v]
    BY <1>2, <1>3
  <2>2. Types'
    BY <1>1, <1>3 DEF Types, registry
  <2>3. FlushesLiveLoggers'
    BY <1>1, <1>3, <2>1 DEF FlushesLiveLoggers, Up, registry
  <2>4. \A v \in Workers : worker'[v].in # "none" => worker[v].in # "none"
    BY <1>3, <2>1
  <2> QED
    BY <1>1, <1>3, <2>2, <2>3, <2>4, NothingDone
<1>4. ASSUME NEW place \in {"ended", "callback", "wait"}, Becomes(w, place), UNCHANGED sink,
             worker[w].in # "none"
      PROVE  LogInv'
  <2> DEFINE r == [in |-> place, left |-> worker[w].left]
  <2>1. worker[w] = [in |-> worker[w].in, left |-> worker[w].left]
    BY <1>2 DEF WorkerState
  <2>2. worker' = [worker EXCEPT ![w] = r] /\ r \in WorkerState /\ r.in # "flush_all"
    <3>1. [worker[w] EXCEPT !.in = place] = r
      BY <2>1
    <3>2. worker' = [worker EXCEPT ![w] = [worker[w] EXCEPT !.in = place]]
      BY <1>4 DEF Becomes
    <3> QED
      BY <1>2, <3>1, <3>2 DEF WorkerState
  <2>3. SinkInv' /\ Mono
    BY <1>1, <1>4, SameSink
  <2> HIDE DEF r
  <2> QED
    BY <1>3, <1>4, <2>2, <2>3
<1>5. CASE FlushAll(w)
  <2> DEFINE r == [in |-> "flush_all", left |-> loggers_]
  <2>1. worker' = [worker EXCEPT ![w] = r] /\ r \in WorkerState /\ r.left \subseteq loggers_
    BY <1>2, <1>5 DEF FlushAll, WorkerState
  <2>2. SinkInv' /\ Mono /\ worker[w].in # "none"
    BY <1>1, <1>5, SameSink DEF FlushAll
  <2> HIDE DEF r
  <2> QED
    BY <1>3, <2>1, <2>2
<1>6. CASE FlushOne(w)
  <2>1. PICK l \in worker[w].left :
          /\ IF l = "console" THEN UNCHANGED sink ELSE Flush(l)
          /\ worker' = [worker EXCEPT ![w].left = @ \ {l}] /\ worker[w].in = "flush_all"
    BY <1>6 DEF FlushOne
  <2> DEFINE r == [in |-> "flush_all", left |-> worker[w].left \ {l}]
  <2>2. worker[w] = [in |-> "flush_all", left |-> worker[w].left]
    BY <1>2, <2>1 DEF WorkerState
  <2>3. worker' = [worker EXCEPT ![w] = r] /\ r \in WorkerState
    <3>1. [worker[w] EXCEPT !.left = worker[w].left \ {l}] = r
      BY <2>2
    <3>2. worker' = [worker EXCEPT ![w] = [worker[w] EXCEPT !.left = worker[w].left \ {l}]]
      BY <2>1
    <3> QED
      BY <1>2, <3>1, <3>2 DEF WorkerState
  <2>4. worker[w].left \subseteq loggers_
    BY <1>1, <2>1 DEF FlushesLiveLoggers, Up
  <2>5. SinkInv' /\ Mono
    <3>1. CASE l = "console"
      BY <1>1, <2>1, <3>1, SameSink
    <3>2. CASE l # "console"
      <4>1. l \in Logs /\ Flush(l)
        BY <1>2, <2>1, <3>2
      <4> QED
        BY <1>1, <4>1, FlushKeeps DEF Mono
    <3> QED
      BY <3>1, <3>2
  <2>6. r.left \subseteq loggers_
    BY <2>4
  <2> HIDE DEF r
  <2> QED
    BY <1>3, <2>1, <2>3, <2>5, <2>6
<1>7. CASE WorkerEnds(w)
  BY <1>4, <1>7 DEF WorkerEnds
<1>8. CASE WorkerCalls(w)
  BY <1>4, <1>8 DEF WorkerCalls
<1>9. CASE FlushAllEnds(w)
  BY <1>4, <1>9 DEF FlushAllEnds
<1> QED
  BY <1>5, <1>6, <1>7, <1>8, <1>9 DEF Worker

-----------------------------------------------------------------------------
(* The theorems. *)

LEMMA InitLog == Init => LogInv
<1> SUFFICES ASSUME Init PROVE LogInv
  OBVIOUS
<1>1. /\ InitSink /\ loggers_ = {} /\ default_logger_ = "none" /\ periodic_flusher_ = 0
      /\ worker = [w \in Workers |-> NoWorker] /\ active_ = [w \in Workers |-> FALSE]
      /\ run \in [number : {0}, up : {FALSE}, program : Programs]
  BY DEF Init
<1>2. Types /\ ~run.up
  <2>1. run \in [number : Nat, up : BOOLEAN, program : Programs] /\ ~run.up
    <3>1. run \in [number : {0}, up : {FALSE}, program : Programs]
      BY <1>1
    <3>2. run.number \in {0} /\ run.up \in {FALSE} /\ run.program \in Programs
      BY <3>1
    <3>3. run = [number |-> run.number, up |-> run.up, program |-> run.program]
      BY <3>1
    <3>4. {0} \subseteq Nat
      OBVIOUS
    <3>5. \A b : b \in {FALSE} => b \in BOOLEAN /\ ~b
      BY Zenon
    <3>6. \A n \in Nat, b \in BOOLEAN, p \in Programs :
            [number |-> n, up |-> b, program |-> p] \in [number : Nat, up : BOOLEAN, program : Programs]
      OBVIOUS
    <3> QED
      BY <3>2, <3>3, <3>4, <3>5, <3>6, Zenon
  <2>2. NoWorker \in WorkerState
    BY DEF NoWorker, WorkerState
  <2> QED
    BY <1>1, <2>1, <2>2 DEF Types
<1>3. SinkTypes /\ In("no_sink")
  BY <1>1, OpenedIs, SinkAssumption, EmptySeq DEF InitSink, SinkTypes, In, Free, Index
<1>4. ASSUME NEW l \in Logs PROVE Counted(l)
  <2>1. /\ \A i \in Index : files[l][i] = <<>>
        /\ stream[l] = Closed
    BY <1>1 DEF InitSink
  <2>2. Len(<<>>) = 0
    OBVIOUS
  <2> QED
    BY <2>1, <2>2, OpenedIs, SinkAssumption DEF Counted
<1>5. Rotating /\ NeverWritesToNull
  BY <1>3 DEF Rotating, NeverWritesToNull, In
<1> QED
  BY <1>2, <1>3, <1>4, <1>5 DEF LogInv, SinkInv

LEMMA StepLog == LogInv /\ [Next]_vars => LogInv'
<1> SUFFICES ASSUME LogInv, [Next]_vars PROVE LogInv'
  OBVIOUS
<1>1. CASE Simulation
  BY <1>1, SinkKeeps, SinkFailsKeeps, RegisterKeeps, DefaultKeeps, LineKeeps, LogDefaultKeeps, RotationKeeps,
     FlushEveryKeeps, DeactivateKeeps, JoinKeeps, StopFlusherKeeps, DestroyKeeps
  DEF Simulation
<1>2. CASE Simulate \/ (\E word \in Words : Parse(word)) \/ Trace \/ Finish
  BY <1>2, IdleKeeps
<1>3. CASE Crash \/ Start
  BY <1>3, CrashKeeps, StartKeeps
<1>4. CASE \E w \in Workers : Worker(w)
  BY <1>4, WorkerKeeps
<1>5. CASE UNCHANGED vars
  <2>1. UNCHANGED <<sink, registry, flusher, todo, run>>
    BY <1>5 DEF vars
  <2>2. CASE run.up
    <3>1. SinkInv' /\ Mono /\ Types' /\ FlushesLiveLoggers'
      BY <2>1, <2>2, SameSink DEF LogInv, Types, FlushesLiveLoggers, Up, registry, flusher
    <3> QED
      BY <2>1, <2>2, <3>1, NothingDone DEF flusher
  <2>3. CASE ~run.up
    <3>1. SinkInv' /\ Types' /\ In("no_sink")'
      BY <2>1, <2>3, SameSink DEF LogInv, Types, In, registry, flusher, sink
    <3> QED
      BY <2>1, <2>3, <3>1 DEF LogInv
  <2> QED
    BY <2>2, <2>3
<1> QED
  BY <1>1, <1>2, <1>3, <1>4, <1>5 DEF Next

\* What is to be called, who is registered, who runs and what a stream holds fit
\* together in every state of the logs (setup_logger, sink_it_, ~registry).
THEOREM LogInvariant == Spec => []LogInv
<1> QED
  BY InitLog, StepLog, PTL DEF Spec

\* No file of a log is longer than max_size_, however often the program is run,
\* whatever call of the file system fails (rotate_).
THEOREM FilesStayBounded == Spec => []FilesAreBounded
<1>1. LogInv => FilesAreBounded
  BY BoundedFiles DEF LogInv
<1> QED
  BY <1>1, LogInvariant, PTL

\* fwrite never gets the null stream of a failing open (file_helper::write).
THEOREM NullIsNotWritten == Spec => []NeverWritesToNull
<1>1. LogInv => NeverWritesToNull
  BY DEF LogInv, SinkInv
<1> QED
  BY <1>1, LogInvariant, PTL

\* The pointer that get returns is not null where a model dereferences it.
THEOREM LoggersAreFound == Spec => []GetFindsLogger
<1>1. ASSUME LogInv PROVE GetFindsLogger
  <2> SUFFICES ASSUME run.up, todo # <<>>, Head(todo).call = "log" PROVE Model \in loggers_
    BY DEF GetFindsLogger, Up
  <2>1. InOrder(todo) /\ Registered
    BY <1>1 DEF LogInv
  <2>2. Head(todo) = todo[1] /\ Len(todo) \in Nat \ {0}
    BY <2>1, CallFacts
  <2>3. 1 \in 1 .. Len(todo)
    BY <2>2
  <2> QED
    BY <2>1, <2>2, <2>3 DEF Registered, Known, Model
<1> QED
  BY <1>1, LogInvariant, PTL

\* The map that flush_all goes through does not lose a logger it has still to
\* flush (flush_all, set_default_logger, ~registry).
THEOREM FlushedAreAlive == Spec => []FlushesLiveLoggers
<1>1. LogInv => FlushesLiveLoggers
  BY DEF LogInv, FlushesLiveLoggers, Up
<1> QED
  BY <1>1, LogInvariant, PTL

\* A worker is the current one or about to be stopped, and none is left when the
\* loggers are destroyed (flush_every, ~periodic_worker, ~registry).
THEOREM OneFlusherRuns == Spec => []OneFlusher
<1>1. ASSUME LogInv PROVE OneFlusher
  <2>1. ASSUME run.up, NEW w \in Workers, worker[w].in # "none"
        PROVE  w = periodic_flusher_ \/ \E k \in 1 .. Len(todo) : todo[k].worker = w
    BY <1>1, <2>1 DEF LogInv, Flushers, Told
  <2>2. ASSUME run.up, todo # <<>>, Head(todo).call = "destroy", NEW w \in Workers
        PROVE  worker[w].in = "none"
    <3>1. InOrder(todo) /\ Flushers
      BY <1>1, <2>2 DEF LogInv
    <3>2. Head(todo) = todo[1] /\ Len(todo) \in Nat \ {0} /\ todo[1].call = "destroy"
      BY <2>2, <3>1, CallFacts
    <3>3. 1 \in 1 .. Len(todo)
      BY <3>2
    <3>4. CallInOrder(todo, 1)
      BY <3>1, <3>3 DEF InOrder
    <3>5. Ending(todo)
      BY <2>2, <3>2, <3>4 DEF CallInOrder, Ending
    <3>6. ~Told(todo, w)
      BY <3>1, <3>2, NobodyTold DEF StopCalls
    <3> QED
      BY <3>1, <3>2, <3>5, <3>6 DEF Flushers
  <2> QED
    BY <2>1, <2>2 DEF OneFlusher, Up
<1> QED
  BY <1>1, LogInvariant, PTL

-----------------------------------------------------------------------------
(* The files of a log laid end to end. *)

LEMMA LeastNat ==
  ASSUME NEW S, S \subseteq Nat, S # {}
  PROVE  \E n \in S : \A m \in S : n <= m
<1> DEFINE R == {p \in Nat \X Nat : p[1] < p[2]}
<1>1. IsWellFoundedOn(R, Nat)
  BY NatLessThanWellFounded DEF OpToRel
<1>2. \A m, n \in Nat : <<m, n>> \notin R => n <= m
  OBVIOUS
<1> HIDE DEF R
<1>3. PICK n \in S : \A m \in S : <<m, n>> \notin R
  BY <1>1, WFMin
<1>4. \A m \in S : m \in Nat /\ n \in Nat
  BY <1>3
<1> QED
  BY <1>2, <1>3, <1>4

\* Induction on an interval, for a set and not a predicate.
LEMMA Interval ==
  ASSUME NEW a \in Nat, NEW b \in Nat, NEW T, a \in T,
         \A n \in a .. b : n # b /\ n \in T => n + 1 \in T
  PROVE  \A n \in a .. b : n \in T
<1> DEFINE S == (a .. b) \ T
<1>1. ASSUME S # {} PROVE FALSE
  <2>1. S \subseteq Nat
    OBVIOUS
  <2>2. PICK n \in S : \A m \in S : n <= m
    BY <1>1, <2>1, LeastNat
  <2>3. n \in a .. b /\ n \notin T /\ n # a
    BY <2>2
  <2>4. n - 1 \in a .. b /\ ~(n <= n - 1) /\ n - 1 # b /\ (n - 1) + 1 = n
    BY <2>3
  <2>5. n - 1 \in T
    BY <2>2, <2>4
  <2> QED
    BY <2>3, <2>4, <2>5
<1> QED
  BY <1>1

LEMMA Associative == \A s, t, u \in Seq(Nat) : (s \o t) \o u = s \o (t \o u)
BY ConcatAssociative

\* F[i]: the first i sequences of q end to end.
Folded(F, q) ==
  /\ F \in [1 .. Len(q) -> Seq(Nat)] /\ F[1] = q[1]
  /\ \A i \in 2 .. Len(q) : F[i] = F[i - 1] \o q[i]

LEMMA FoldExists ==
  ASSUME NEW q \in Seq(Seq(Nat)), Len(q) > 0
  PROVE  \E F : Folded(F, q)
<1> DEFINE Upto(n, F) == F \in [1 .. n -> Seq(Nat)] /\ F[1] = q[1]
                         /\ \A i \in 2 .. n : F[i] = F[i - 1] \o q[i]
           T == {n \in 1 .. Len(q) : \E F : Upto(n, F)}
<1>0. Len(q) \in Nat /\ 1 \in 1 .. Len(q) /\ Len(q) \in 1 .. Len(q) /\ \A i \in 1 .. Len(q) : q[i] \in Seq(Nat)
  BY LenProperties, ElementOfSeq
<1>1. 1 \in T
  <2> DEFINE G == [i \in 1 .. 1 |-> q[1]]
  <2>1. G \in [1 .. 1 -> Seq(Nat)] /\ G[1] = q[1] /\ \A i \in 2 .. 1 : FALSE
    BY <1>0
  <2>2. Upto(1, G)
    BY <2>1
  <2> QED
    BY <1>0, <2>2
<1>2. ASSUME NEW k \in 1 .. Len(q), k # Len(q), k \in T PROVE k + 1 \in T
  <2>1. PICK F : Upto(k, F)
    BY <1>2
  <2> DEFINE G == [i \in 1 .. k + 1 |-> IF i = k + 1 THEN F[k] \o q[k + 1] ELSE F[i]]
  <2>2. k + 1 \in 1 .. Len(q) /\ k \in 1 .. k /\ k \in 1 .. k + 1 /\ k \in Nat /\ k + 1 # k
    BY <1>0, <1>2
  <2>3. F[k] \o q[k + 1] \in Seq(Nat)
    BY <1>0, <2>1, <2>2, ConcatProperties
  <2>4. G \in [1 .. k + 1 -> Seq(Nat)]
    BY <2>1, <2>2, <2>3
  <2>5. G[1] = q[1] /\ G[k] = F[k] /\ G[k + 1] = F[k] \o q[k + 1]
    BY <2>1, <2>2
  <2>6. ASSUME NEW i \in 2 .. k PROVE G[i] = G[i - 1] \o q[i]
    <3>1. i \in 1 .. k + 1 /\ i - 1 \in 1 .. k + 1 /\ i # k + 1 /\ i - 1 # k + 1
      BY <2>2
    <3>2. G[i] = F[i] /\ G[i - 1] = F[i - 1]
      BY <3>1
    <3> QED
      BY <2>1, <3>2
  <2> HIDE DEF G
  <2>7. ASSUME NEW i \in 2 .. k + 1 PROVE G[i] = G[i - 1] \o q[i]
    <3>1. i \in 2 .. k \/ (i = k + 1 /\ i - 1 = k)
      BY <2>2
    <3> QED
      BY <2>5, <2>6, <3>1
  <2>8. Upto(k + 1, G)
    BY <2>4, <2>5, <2>7
  <2> QED
    BY <2>2, <2>8
<1> HIDE DEF T
<1>3. \A n \in 1 .. Len(q) : n \in T
  BY <1>0, <1>1, <1>2, Interval
<1>4. Len(q) \in T
  BY <1>0, <1>3
<1> QED
  BY <1>4 DEF T, Folded

LEMMA FlattenIsFold ==
  ASSUME NEW q \in Seq(Seq(Nat)), Len(q) > 0
  PROVE  \E F : Folded(F, q) /\ FlattenSeq(q) = F[Len(q)]
<1> DEFINE F == CHOOSE F : F = [i \in 1 .. Len(q) |-> IF i = 1 THEN q[i] ELSE F[i - 1] \o q[i]]
<1>0. Len(q) \in Nat /\ Len(q) # 0 /\ 1 \in 1 .. Len(q) /\ \A i \in 1 .. Len(q) : q[i] \in Seq(Nat)
  BY LenProperties, ElementOfSeq
<1>1. PICK G : Folded(G, q)
  BY FoldExists
<1>2. G = [i \in 1 .. Len(q) |-> IF i = 1 THEN q[i] ELSE G[i - 1] \o q[i]]
  <2>1. ASSUME NEW i \in 1 .. Len(q) PROVE G[i] = IF i = 1 THEN q[i] ELSE G[i - 1] \o q[i]
    <3>1. i = 1 \/ i \in 2 .. Len(q)
      BY <1>0
    <3> QED
      BY <1>1, <3>1 DEF Folded
  <2> QED
    BY <1>1, <2>1 DEF Folded
<1>3. F = [i \in 1 .. Len(q) |-> IF i = 1 THEN q[i] ELSE F[i - 1] \o q[i]]
  BY <1>2
<1>4. FlattenSeq(q) = F[Len(q)]
  BY <1>0 DEF FlattenSeq
<1> HIDE DEF F
<1>5. F[1] = q[1] /\ \A i \in 2 .. Len(q) : F[i] = F[i - 1] \o q[i]
  <2>1. F[1] = q[1]
    BY <1>0, <1>3
  <2>2. ASSUME NEW i \in 2 .. Len(q) PROVE F[i] = F[i - 1] \o q[i]
    <3>1. i \in 1 .. Len(q) /\ i # 1
      BY <1>0
    <3> QED
      BY <1>3, <3>1
  <2> QED
    BY <2>1, <2>2
<1>6. F \in [1 .. Len(q) -> Seq(Nat)]
  <2> DEFINE T == {i \in 1 .. Len(q) : F[i] \in Seq(Nat)}
  <2>1. 1 \in T
    BY <1>0, <1>5
  <2>2. ASSUME NEW k \in 1 .. Len(q), k # Len(q), k \in T PROVE k + 1 \in T
    <3>1. k + 1 \in 2 .. Len(q) /\ k + 1 \in 1 .. Len(q) /\ (k + 1) - 1 = k
      BY <1>0, <2>2
    <3>2. F[k + 1] = F[k] \o q[k + 1] /\ F[k] \in Seq(Nat) /\ q[k + 1] \in Seq(Nat)
      BY <1>0, <1>5, <2>2, <3>1
    <3>3. F[k + 1] \in Seq(Nat)
      BY <3>2, ConcatProperties
    <3> QED
      BY <3>1, <3>3
  <2> HIDE DEF T
  <2>3. \A i \in 1 .. Len(q) : i \in T
    BY <1>0, <2>1, <2>2, Interval
  <2>4. \A i \in 1 .. Len(q) : F[i] \in Seq(Nat)
    BY <2>3 DEF T
  <2> QED
    BY <1>3, <2>4
<1> QED
  BY <1>4, <1>5, <1>6 DEF Folded

\* What follows the a-th sequence is the same in both, and so is what comes before but
\* for x at its start.
Agree(F, G, q, r, a, b, x) ==
  /\ q \in Seq(Seq(Nat)) /\ r \in Seq(Seq(Nat)) /\ Len(r) = Len(q) /\ Folded(F, q) /\ Folded(G, r)
  /\ a \in 1 .. Len(q) /\ b \in a .. Len(q) /\ x \in Seq(Nat) /\ F[a] = x \o G[a]
  /\ \A i \in a + 1 .. b : q[i] = r[i]

LEMMA FoldsAgree ==
  \A F, G, q, r, a, b, x : Agree(F, G, q, r, a, b, x) => F[b] = x \o G[b] /\ G[b] \in Seq(Nat)
<1> SUFFICES ASSUME NEW F, NEW G, NEW q, NEW r, NEW a, NEW b, NEW x, Agree(F, G, q, r, a, b, x)
             PROVE  F[b] = x \o G[b] /\ G[b] \in Seq(Nat)
  OBVIOUS
<1> DEFINE T == {i \in a .. b : F[i] = x \o G[i]}
<1> USE DEF Agree
<1>0. Len(q) \in Nat /\ a \in Nat /\ b \in Nat /\ a \in a .. b /\ b \in a .. b /\ b \in 1 .. Len(q)
      /\ \A i \in 1 .. Len(q) : r[i] \in Seq(Nat)
  BY LenProperties, ElementOfSeq
<1>1. ASSUME NEW k \in a .. b, k # b, k \in T PROVE k + 1 \in T
  <2>1. k + 1 \in a .. b /\ k + 1 \in a + 1 .. b /\ k + 1 \in 2 .. Len(q) /\ (k + 1) - 1 = k
        /\ k \in 1 .. Len(q) /\ k + 1 \in 1 .. Len(q)
    BY <1>0, <1>1
  <2>2. F[k] = x \o G[k] /\ G[k] \in Seq(Nat) /\ q[k + 1] = r[k + 1] /\ r[k + 1] \in Seq(Nat)
    BY <1>0, <1>1, <2>1 DEF Folded
  <2>3. F[k + 1] = F[k] \o q[k + 1] /\ G[k + 1] = G[k] \o r[k + 1]
    BY <2>1 DEF Folded
  <2>4. (x \o G[k]) \o r[k + 1] = x \o (G[k] \o r[k + 1])
    BY <2>2, Associative
  <2> QED
    BY <2>1, <2>2, <2>3, <2>4
<1>2. a \in T
  BY <1>0
<1> HIDE DEF T
<1>3. b \in T
  BY <1>0, <1>1, <1>2, Interval
<1> QED
  BY <1>0, <1>3 DEF T, Folded

LEMMA FoldOfFull ==
  ASSUME NEW F, NEW q \in Seq(Seq(Nat)), Folded(F, q), NEW s \in Nat, Len(q) > 0,
         \A i \in 1 .. Len(q) : Len(q[i]) = s
  PROVE  Len(F[Len(q)]) = Len(q) * s
<1> DEFINE T == {i \in 1 .. Len(q) : Len(F[i]) = i * s}
<1>0. Len(q) \in Nat /\ 1 \in 1 .. Len(q) /\ Len(q) \in 1 .. Len(q)
      /\ \A i \in 1 .. Len(q) : q[i] \in Seq(Nat)
  BY LenProperties, ElementOfSeq
<1>1. 1 \in T
  <2>1. 1 * s = s
    OBVIOUS
  <2> QED
    BY <1>0, <2>1 DEF Folded
<1>2. ASSUME NEW k \in 1 .. Len(q), k # Len(q), k \in T PROVE k + 1 \in T
  <2>1. k + 1 \in 1 .. Len(q) /\ k + 1 \in 2 .. Len(q) /\ (k + 1) - 1 = k
    BY <1>0, <1>2
  <2>2. F[k + 1] = F[k] \o q[k + 1] /\ F[k] \in Seq(Nat) /\ q[k + 1] \in Seq(Nat)
    BY <1>0, <2>1 DEF Folded
  <2>3. Len(F[k + 1]) = Len(F[k]) + Len(q[k + 1])
    BY <2>2, ConcatProperties
  <2>4. Len(F[k]) = k * s /\ Len(q[k + 1]) = s
    BY <1>2, <2>1
  <2>5. k * s + s = (k + 1) * s
    OBVIOUS
  <2> QED
    BY <2>1, <2>3, <2>4, <2>5
<1> HIDE DEF T
<1>3. Len(q) \in T
  BY <1>0, <1>1, <1>2, Interval
<1> QED
  BY <1>3 DEF T

LEMMA CutOut ==
  ASSUME NEW x \in Seq(Nat), NEW y \in Seq(Nat), NEW z \in Seq(Nat)
  PROVE  SubSeq((x \o y) \o z, Len(x) + 1, Len(x) + Len(y)) = y
<1> DEFINE k == (x \o y) \o z
           c == SubSeq(k, Len(x) + 1, Len(x) + Len(y))
<1>1. /\ x \o y \in Seq(Nat) /\ Len(x \o y) = Len(x) + Len(y)
      /\ Len(x) \in Nat /\ Len(y) \in Nat /\ Len(z) \in Nat
      /\ \A i \in 1 .. Len(x) + Len(y) : (x \o y)[i] = IF i <= Len(x) THEN x[i] ELSE y[i - Len(x)]
  BY ConcatProperties, LenProperties
<1>2. /\ k \in Seq(Nat) /\ Len(k) = Len(x) + Len(y) + Len(z)
      /\ \A i \in 1 .. Len(x) + Len(y) : k[i] = (x \o y)[i]
  BY <1>1, ConcatProperties
<1>3. \A i \in 1 .. Len(y) : k[Len(x) + i] = y[i]
  BY <1>1, <1>2
<1>4. /\ c \in Seq(Nat) /\ Len(c) = Len(y)
      /\ \A i \in 1 .. Len(y) : c[i] = k[Len(x) + i]
  <2>1. \A i \in Len(x) + 1 .. Len(x) + Len(y) : k[i] \in Nat
    BY <1>1, <1>2, ElementOfSeq
  <2> DEFINE m == Len(x) + 1
             n == Len(x) + Len(y)
  <2>2. m \in Int /\ n \in Int /\ n - m + 1 = Len(y) /\ (m <= n <=> Len(y) # 0)
        /\ \A i \in 1 .. Len(y) : m + i - 1 = Len(x) + i
    BY <1>1
  <2> HIDE DEF k, m, n
  <2>3. /\ SubSeq(k, m, n) \in Seq(Nat)
        /\ Len(SubSeq(k, m, n)) = IF m <= n THEN n - m + 1 ELSE 0
        /\ \A i \in 1 .. n - m + 1 : SubSeq(k, m, n)[i] = k[m + i - 1]
    BY <2>1, <2>2, SubSeqProperties DEF m, n
  <2> QED
    BY <2>2, <2>3 DEF m, n
<1> HIDE DEF c, k
<1>5. c = y
  BY <1>3, <1>4, SeqEqual
<1> QED
  BY <1>5 DEF c, k

LEMMA PrefixOfConcat ==
  ASSUME NEW x \in Seq(Nat), NEW y \in Seq(Nat)
  PROVE  IsPrefix(x, x \o y)
<1>1. <<>> \in Seq(Nat) /\ Len(<<>>) = 0 /\ Len(x) \in Nat /\ Len(y) \in Nat /\ Len(x \o y) = Len(x) + Len(y)
  BY EmptySeq, ConcatProperties, LenProperties
<1>2. SubSeq(x \o y, 1, Len(x)) = x
  <2>1. SubSeq((<<>> \o x) \o y, Len(<<>>) + 1, Len(<<>>) + Len(x)) = x
    BY <1>1, CutOut
  <2> QED
    BY <1>1, <2>1, ConcatEmptySeq
<1>3. SubSeq(x, 1, Len(x)) = x
  BY SubSeqFull
<1> QED
  BY <1>1, <1>2, <1>3 DEF IsPrefix

-----------------------------------------------------------------------------
(* The files of one log, the oldest first. *)

LEMMA OldestIs ==
  ASSUME NEW f \in [Index -> Seq(Nat)]
  PROVE  /\ Oldest(f) \in Seq(Seq(Nat)) /\ Len(Oldest(f)) = max_files + 1
         /\ \A i \in 1 .. max_files + 1 : Oldest(f)[i] = f[max_files + 1 - i] /\ max_files + 1 - i \in Index
<1>1. \A i \in 1 .. max_files + 1 : max_files + 1 - i \in Index
  BY SinkAssumption DEF Index
<1>2. max_files + 1 \in Nat
  BY SinkAssumption
<1> QED
  BY <1>1, <1>2 DEF Oldest

LEMMA LaidIsFold ==
  ASSUME NEW f \in [Index -> Seq(Nat)]
  PROVE  /\ \E F : Folded(F, Oldest(f)) /\ Laid(f) = F[max_files + 1]
         /\ Laid(f) \in Seq(Nat)
<1>1. Oldest(f) \in Seq(Seq(Nat)) /\ Len(Oldest(f)) = max_files + 1 /\ max_files + 1 > 0
      /\ max_files + 1 \in 1 .. max_files + 1
  BY OldestIs, SinkAssumption
<1>2. PICK F : Folded(F, Oldest(f)) /\ Laid(f) = F[max_files + 1]
  BY <1>1, FlattenIsFold DEF Laid
<1> QED
  BY <1>1, <1>2 DEF Folded

NextTo(F, q, h, i) ==
  q \in Seq(Seq(Nat)) /\ Folded(F, q) /\ i \in 2 .. Len(q) /\ h \in Nat /\ h + 1 = i

LEMMA FoldStep ==
  \A F, q, h, i : NextTo(F, q, h, i) => F[i] = F[h] \o q[i] /\ F[i] \in Seq(Nat) /\ F[h] \in Seq(Nat)
<1> SUFFICES ASSUME NEW F, NEW q, NEW h, NEW i, NextTo(F, q, h, i)
             PROVE  F[i] = F[h] \o q[i] /\ F[i] \in Seq(Nat) /\ F[h] \in Seq(Nat)
  OBVIOUS
<1>1. Len(q) \in Nat /\ i \in 1 .. Len(q) /\ h \in 1 .. Len(q) /\ i - 1 = h
  BY LenProperties DEF NextTo
<1>2. F[i] = F[i - 1] \o q[i] /\ F[i] \in Seq(Nat) /\ F[h] \in Seq(Nat)
  BY <1>1 DEF NextTo, Folded
<1> QED
  BY <1>1, <1>2

\* Both lists of files, and their folds.
Pair(f, g, n, q, r, F, G) ==
  /\ n = max_files + 1 /\ q \in Seq(Seq(Nat)) /\ r \in Seq(Seq(Nat)) /\ Len(q) = n /\ Len(r) = n
  /\ \A i \in 1 .. n : q[i] = f[n - i] /\ r[i] = g[n - i] /\ n - i \in Index
  /\ Folded(F, q) /\ Laid(f) = F[n] /\ Folded(G, r) /\ Laid(g) = G[n]

LEMMA PairExists ==
  ASSUME NEW f \in [Index -> Seq(Nat)], NEW g \in [Index -> Seq(Nat)]
  PROVE  \E n, q, r, F, G : Pair(f, g, n, q, r, F, G)
<1>1. /\ Oldest(f) \in Seq(Seq(Nat)) /\ Len(Oldest(f)) = max_files + 1
      /\ \A i \in 1 .. max_files + 1 : Oldest(f)[i] = f[max_files + 1 - i] /\ max_files + 1 - i \in Index
  BY OldestIs, Zenon
<1>2. /\ Oldest(g) \in Seq(Seq(Nat)) /\ Len(Oldest(g)) = max_files + 1
      /\ \A i \in 1 .. max_files + 1 : Oldest(g)[i] = g[max_files + 1 - i]
  BY OldestIs, Zenon
<1>3. PICK F : Folded(F, Oldest(f)) /\ Laid(f) = F[max_files + 1]
  BY LaidIsFold
<1>4. PICK G : Folded(G, Oldest(g)) /\ Laid(g) = G[max_files + 1]
  BY LaidIsFold
<1>5. PICK n, q, r : n = max_files + 1 /\ q = Oldest(f) /\ r = Oldest(g)
  OBVIOUS
<1>6. /\ q \in Seq(Seq(Nat)) /\ r \in Seq(Seq(Nat)) /\ Len(q) = n /\ Len(r) = n
      /\ \A i \in 1 .. n : q[i] = f[n - i] /\ r[i] = g[n - i] /\ n - i \in Index
  <2>1. q \in Seq(Seq(Nat)) /\ r \in Seq(Seq(Nat)) /\ Len(q) = n /\ Len(r) = n
    BY <1>1, <1>2, <1>5, Zenon
  <2>2. ASSUME NEW i \in 1 .. n PROVE q[i] = f[n - i] /\ r[i] = g[n - i] /\ n - i \in Index
    <3>1. i \in 1 .. max_files + 1
      BY <1>5, Zenon
    <3>2. Oldest(f)[i] = f[max_files + 1 - i] /\ max_files + 1 - i \in Index /\ Oldest(g)[i] = g[max_files + 1 - i]
      BY <1>1, <1>2, <3>1, Zenon
    <3>3. q[i] = Oldest(f)[i] /\ r[i] = Oldest(g)[i]
      BY <1>5, Zenon
    <3>4. max_files + 1 - i = n - i
      <4>1. n = max_files + 1
        BY <1>5, Zenon
      <4> QED
        BY <4>1, SinkAssumption
    <3> QED
      BY <3>2, <3>3, <3>4, Zenon
  <2> QED
    BY <2>1, <2>2
<1>7. Folded(F, q) /\ Laid(f) = F[n] /\ Folded(G, r) /\ Laid(g) = G[n]
  BY <1>3, <1>4, <1>5, Zenon
<1>8. Pair(f, g, n, q, r, F, G)
  BY <1>5, <1>6, <1>7, Zenon DEF Pair
<1> QED
  BY <1>8

\* Only the newest file differs.
LEMMA NewestDiffers ==
  ASSUME NEW f \in [Index -> Seq(Nat)], NEW g \in [Index -> Seq(Nat)],
         \A i \in Index \ {0} : f[i] = g[i]
  PROVE  \E p \in Seq(Nat) : Laid(f) = p \o f[0] /\ Laid(g) = p \o g[0]
<1>1. PICK n, q, r, F, G : Pair(f, g, n, q, r, F, G)
  BY PairExists
<1>2. max_files \in Nat \ {0} /\ n \in Nat /\ max_files \in 1 .. n /\ n \in 2 .. n /\ n \in 1 .. n
      /\ 1 \in 1 .. n /\ max_files \in 1 .. max_files /\ n - 1 = max_files /\ n - n = 0
  BY <1>1, SinkAssumption DEF Pair
<1>3. ASSUME NEW i \in 1 .. max_files PROVE q[i] = r[i]
  <2>1. i \in 1 .. n /\ n - i # 0
    BY <1>1, SinkAssumption DEF Pair
  <2> QED
    BY <1>1, <2>1 DEF Pair
<1>4. Agree(F, G, q, r, 1, max_files, <<>>)
  <2>1. <<>> \in Seq(Nat) /\ F[1] = q[1] /\ G[1] = r[1] /\ q[1] = r[1] /\ r[1] \in Seq(Nat)
    BY <1>1, <1>2, <1>3, EmptySeq, ElementOfSeq DEF Pair, Folded
  <2>2. F[1] = <<>> \o G[1]
    BY <2>1, ConcatEmptySeq
  <2>3. \A i \in 1 + 1 .. max_files : q[i] = r[i]
    BY <1>2, <1>3
  <2> QED
    BY <1>1, <1>2, <2>1, <2>2, <2>3 DEF Pair, Agree
<1>5. F[max_files] = <<>> \o G[max_files] /\ G[max_files] \in Seq(Nat)
  BY <1>4, FoldsAgree
<1>6. F[n] = F[max_files] \o q[n] /\ G[n] = G[max_files] \o r[n]
  <2>1. NextTo(F, q, max_files, n) /\ NextTo(G, r, max_files, n)
    BY <1>1, <1>2 DEF Pair, NextTo
  <2>2. F[n] = F[max_files] \o q[n] /\ F[n] \in Seq(Nat) /\ F[max_files] \in Seq(Nat)
    BY <2>1, FoldStep
  <2>3. G[n] = G[max_files] \o r[n] /\ G[n] \in Seq(Nat) /\ G[max_files] \in Seq(Nat)
    BY <2>1, FoldStep
  <2> QED
    BY <2>2, <2>3
<1>7. q[n] = f[0] /\ r[n] = g[0] /\ Laid(f) = F[n] /\ Laid(g) = G[n]
  BY <1>1, <1>2 DEF Pair
<1>8. F[max_files] = G[max_files]
  BY <1>5, ConcatEmptySeq
<1> QED
  BY <1>5, <1>6, <1>7, <1>8

\* The oldest file is given up.
LEMMA OldestDiffers ==
  ASSUME NEW f \in [Index -> Seq(Nat)], NEW g \in [Index -> Seq(Nat)], g[max_files] = <<>>,
         \A i \in Index \ {max_files} : f[i] = g[i]
  PROVE  Laid(f) = f[max_files] \o Laid(g)
<1>1. PICK n, q, r, F, G : Pair(f, g, n, q, r, F, G)
  BY PairExists
<1>2. max_files \in Nat \ {0} /\ n \in Nat /\ n \in 1 .. n /\ 1 \in 1 .. n /\ n - 1 = max_files
      /\ max_files \in Index
  BY <1>1, SinkAssumption DEF Pair, Index
<1>3. ASSUME NEW i \in 1 + 1 .. n PROVE q[i] = r[i]
  <2>1. i \in 1 .. n /\ n - i # max_files
    BY <1>1, <1>2 DEF Pair
  <2> QED
    BY <1>1, <2>1 DEF Pair
<1>4. PICK x : x = f[max_files]
  OBVIOUS
<1>5. Agree(F, G, q, r, 1, n, x)
  <2>1. F[1] = x /\ G[1] = <<>> /\ x \in Seq(Nat)
    BY <1>1, <1>2, <1>4 DEF Pair, Folded
  <2>2. F[1] = x \o G[1]
    BY <2>1, ConcatEmptySeq
  <2> QED
    BY <1>1, <1>2, <1>3, <2>1, <2>2 DEF Pair, Agree
<1>6. F[n] = x \o G[n] /\ G[n] \in Seq(Nat)
  BY <1>5, FoldsAgree
<1> QED
  BY <1>1, <1>4, <1>6 DEF Pair

\* A sequence takes the place of an empty one.
Swapped(F, G, q, r, k) ==
  /\ q \in Seq(Seq(Nat)) /\ r \in Seq(Seq(Nat)) /\ Len(q) = Len(r) /\ Folded(F, q) /\ Folded(G, r)
  /\ k \in 1 .. Len(q) /\ k + 1 \in 1 .. Len(q) /\ q[k] = <<>> /\ r[k] = q[k + 1] /\ r[k + 1] = <<>>
  /\ \A i \in 1 .. Len(q) : i # k /\ i # k + 1 => q[i] = r[i]

LEMMA FoldHole == \A F, G, q, r, k : Swapped(F, G, q, r, k) => F[Len(q)] = G[Len(q)]
<1> SUFFICES ASSUME NEW F, NEW G, NEW q, NEW r, NEW k, Swapped(F, G, q, r, k) PROVE F[Len(q)] = G[Len(q)]
  OBVIOUS
<1>1. PICK n, y, k1 : n = Len(q) /\ y = q[k + 1] /\ k1 = k + 1
  OBVIOUS
<1>2. /\ n \in Nat /\ n \in 1 .. n /\ 1 \in 1 .. n /\ k \in 1 .. n /\ k \in Nat /\ k1 \in 1 .. n /\ k1 = k + 1
      /\ n \in k1 .. n /\ k1 \in 2 .. n
      /\ q[k] = <<>> /\ r[k] = y /\ q[k1] = y /\ r[k1] = <<>> /\ y \in Seq(Nat) /\ <<>> \in Seq(Nat)
      /\ F[1] = q[1] /\ G[1] = r[1] /\ Len(r) = n /\ Len(q) = n
  <2>1. /\ q \in Seq(Seq(Nat)) /\ Len(q) = n /\ Len(r) = n /\ k \in 1 .. n /\ k1 \in 1 .. n
        /\ q[k] = <<>> /\ r[k] = y /\ q[k1] = y /\ r[k1] = <<>> /\ F[1] = q[1] /\ G[1] = r[1]
    BY <1>1 DEF Swapped, Folded
  <2>2. n \in Nat /\ y \in Seq(Nat) /\ <<>> \in Seq(Nat)
    BY <1>1, <2>1, EmptySeq, ElementOfSeq, LenProperties
  <2>3. n \in 1 .. n /\ 1 \in 1 .. n /\ k \in Nat /\ k1 = k + 1 /\ n \in k1 .. n /\ k1 \in 2 .. n
    BY <1>1, <2>1, <2>2
  <2> QED
    BY <2>1, <2>2, <2>3
<1>3. ASSUME NEW i \in 1 .. n, i # k, i # k1 PROVE q[i] = r[i] /\ q[i] \in Seq(Nat)
  BY <1>1, <1>3, ElementOfSeq DEF Swapped
<1>4. NextTo(F, q, k, k1) /\ NextTo(G, r, k, k1)
  BY <1>1, <1>2 DEF Swapped, NextTo
<1>5. F[k1] = F[k] \o y /\ G[k1] = G[k] \o <<>> /\ G[k] \in Seq(Nat) /\ G[k1] \in Seq(Nat)
  <2>1. F[k1] = F[k] \o q[k1] /\ F[k1] \in Seq(Nat) /\ F[k] \in Seq(Nat)
    BY <1>4, FoldStep
  <2>2. G[k1] = G[k] \o r[k1] /\ G[k1] \in Seq(Nat) /\ G[k] \in Seq(Nat)
    BY <1>4, FoldStep
  <2> QED
    BY <1>2, <2>1, <2>2
<1>6. F[k1] = G[k1]
  <2>1. CASE k = 1
    <3>1. F[k] = <<>> /\ G[k] = y
      BY <1>2, <2>1
    <3> QED
      BY <1>2, <1>5, <3>1, ConcatEmptySeq
  <2>2. CASE k # 1
    <3>1. PICK h \in 1 .. n : h = k - 1
      BY <1>2, <2>2
    <3>2. NextTo(F, q, h, k) /\ NextTo(G, r, h, k)
      BY <1>1, <1>2, <3>1 DEF Swapped, NextTo
    <3>3. F[k] = F[h] \o <<>> /\ G[k] = G[h] \o y /\ F[h] \in Seq(Nat) /\ G[h] \in Seq(Nat)
      <4>1. F[k] = F[h] \o q[k] /\ F[k] \in Seq(Nat) /\ F[h] \in Seq(Nat)
        BY <3>2, FoldStep
      <4>2. G[k] = G[h] \o r[k] /\ G[k] \in Seq(Nat) /\ G[h] \in Seq(Nat)
        BY <3>2, FoldStep
      <4> QED
        BY <1>2, <4>1, <4>2
    <3>4. Agree(F, G, q, r, 1, h, <<>>)
      <4>1. ASSUME NEW i \in 1 .. h PROVE q[i] = r[i] /\ q[i] \in Seq(Nat)
        <5>1. i \in 1 .. n /\ i # k /\ i # k1
          BY <1>2, <3>1
        <5> QED
          BY <1>3, <5>1
      <4>2. 1 \in 1 .. h /\ h \in 1 .. n /\ \A i \in 1 + 1 .. h : i \in 1 .. h
        BY <1>2, <3>1
      <4>3. F[1] = <<>> \o G[1]
        BY <1>2, <4>1, <4>2, ConcatEmptySeq
      <4> QED
        BY <1>2, <4>1, <4>2, <4>3 DEF Agree, Swapped
    <3>5. F[h] = <<>> \o G[h] /\ G[h] \in Seq(Nat)
      BY <3>4, FoldsAgree
    <3>6. F[h] = G[h] /\ F[k] = F[h] /\ G[k1] = G[k]
      BY <1>5, <3>3, <3>5, ConcatEmptySeq
    <3> QED
      BY <1>5, <3>3, <3>6
  <2> QED
    BY <2>1, <2>2
<1>7. Agree(F, G, q, r, k1, n, <<>>)
  <2>1. F[k1] = <<>> \o G[k1]
    BY <1>5, <1>6, ConcatEmptySeq
  <2>2. ASSUME NEW i \in k1 + 1 .. n PROVE q[i] = r[i]
    <3>1. i \in 1 .. n /\ i # k /\ i # k1
      BY <1>2
    <3> QED
      BY <1>3, <3>1
  <2> QED
    BY <1>2, <2>1, <2>2 DEF Agree, Swapped
<1>8. F[n] = <<>> \o G[n] /\ G[n] \in Seq(Nat)
  BY <1>7, FoldsAgree
<1>9. F[n] = G[n]
  BY <1>8, ConcatEmptySeq
<1> QED
  BY <1>1, <1>9

\* A file takes the place of an empty one.
LEMMA HoleMoves ==
  ASSUME NEW f \in [Index -> Seq(Nat)], NEW g \in [Index -> Seq(Nat)], NEW j \in Index \ {0},
         f[j] = <<>>, g[j] = f[j - 1], g[j - 1] = <<>>, \A i \in Index \ {j - 1, j} : f[i] = g[i]
  PROVE  Laid(f) = Laid(g)
<1>1. PICK n, q, r, F, G : Pair(f, g, n, q, r, F, G)
  BY PairExists
<1>2. PICK k \in 1 .. n : k = n - j
  BY <1>1, SinkAssumption DEF Pair, Index
<1>3. n \in Nat /\ k + 1 \in 1 .. n /\ n - k = j /\ n - (k + 1) = j - 1
  BY <1>1, <1>2, SinkAssumption DEF Pair, Index
<1>4. ASSUME NEW i \in 1 .. n, i # k, i # k + 1 PROVE q[i] = r[i]
  <2>1. n - i # j /\ n - i # j - 1
    BY <1>2, <1>3, <1>4
  <2> QED
    BY <1>1, <2>1 DEF Pair
<1>5. q[k] = <<>> /\ r[k] = q[k + 1] /\ r[k + 1] = <<>>
  BY <1>1, <1>3 DEF Pair
<1>6. Swapped(F, G, q, r, k)
  BY <1>1, <1>3, <1>4, <1>5 DEF Swapped, Pair
<1>7. F[Len(q)] = G[Len(q)]
  BY <1>6, FoldHole
<1> QED
  BY <1>1, <1>7 DEF Pair

LEMMA EmptyFiles ==
  ASSUME NEW f \in [Index -> Seq(Nat)], \A i \in Index : f[i] = <<>>
  PROVE  Laid(f) = <<>>
<1>1. \A i \in 1 .. max_files + 1 : Oldest(f)[i] = <<>>
  BY OldestIs
<1>2. Oldest(f) \in Seq(Seq(Nat)) /\ Len(Oldest(f)) = max_files + 1 /\ max_files + 1 \in Nat /\ max_files + 1 > 0
  BY OldestIs, SinkAssumption
<1>3. PICK F : Folded(F, Oldest(f)) /\ Laid(f) = F[max_files + 1]
  BY LaidIsFold
<1>4. Len(F[max_files + 1]) = (max_files + 1) * 0
  <2>1. \A i \in 1 .. max_files + 1 : Len(Oldest(f)[i]) = 0
    <3>1. Len(<<>>) = 0
      OBVIOUS
    <3> QED
      BY <1>1, <3>1
  <2> QED
    BY <1>2, <1>3, <2>1, FoldOfFull
<1>5. Laid(f) \in Seq(Nat) /\ Len(Laid(f)) = 0
  BY <1>2, <1>3, <1>4, LaidIsFold
<1> QED
  BY <1>5, EmptySeq

LEMMA FullFiles ==
  ASSUME NEW f \in [Index -> Seq(Nat)], \A i \in Index : Len(f[i]) = max_size
  PROVE  Len(Laid(f)) = max_size + max_files * max_size
<1>1. \A i \in 1 .. max_files + 1 : Len(Oldest(f)[i]) = max_size
  BY OldestIs
<1>2. Oldest(f) \in Seq(Seq(Nat)) /\ Len(Oldest(f)) = max_files + 1 /\ max_files + 1 > 0
      /\ max_size \in Nat /\ max_files \in Nat
  BY OldestIs, SinkAssumption
<1>3. PICK F : Folded(F, Oldest(f)) /\ Laid(f) = F[max_files + 1]
  BY LaidIsFold
<1>4. Len(F[max_files + 1]) = (max_files + 1) * max_size
  BY <1>1, <1>2, <1>3, FoldOfFull
<1>5. (max_files + 1) * max_size = max_size + max_files * max_size
  BY <1>2
<1> QED
  BY <1>3, <1>4, <1>5

-----------------------------------------------------------------------------
(* A step of one log, as the abstract log sees it. *)

LEMMA LaidIsSeq == ASSUME NEW f \in [Index -> Seq(Nat)] PROVE Laid(f) \in Seq(Nat) /\ Len(Laid(f)) \in Nat
BY LaidIsFold, LenProperties

LEMMA FrontOf ==
  \A x, y \in Seq(Nat) : /\ SubSeq(x \o y, 1, Len(x)) = x /\ IsPrefix(x, x \o y)
                         /\ SubSeq(x \o y, Len(x) + 1, Len(x \o y)) = y
                         /\ Len(x \o y) = Len(x) + Len(y) /\ Len(x) \in Nat /\ Len(y) \in Nat
<1> SUFFICES ASSUME NEW x \in Seq(Nat), NEW y \in Seq(Nat)
             PROVE  /\ SubSeq(x \o y, 1, Len(x)) = x /\ IsPrefix(x, x \o y)
                    /\ SubSeq(x \o y, Len(x) + 1, Len(x \o y)) = y
                    /\ Len(x \o y) = Len(x) + Len(y) /\ Len(x) \in Nat /\ Len(y) \in Nat
  OBVIOUS
<1>1. <<>> \in Seq(Nat) /\ Len(<<>>) = 0 /\ Len(x) \in Nat /\ Len(y) \in Nat
      /\ x \o y \in Seq(Nat) /\ Len(x \o y) = Len(x) + Len(y)
      /\ <<>> \o x = x /\ (x \o y) \o <<>> = x \o y
  BY EmptySeq, ConcatProperties, LenProperties, ConcatEmptySeq
<1>2. SubSeq((<<>> \o x) \o y, Len(<<>>) + 1, Len(<<>>) + Len(x)) = x
  BY <1>1, CutOut
<1>3. SubSeq((x \o y) \o <<>>, Len(x) + 1, Len(x) + Len(y)) = y
  BY <1>1, CutOut
<1>4. 0 + 1 = 1 /\ 0 + Len(x) = Len(x)
  BY <1>1
<1>5. SubSeq(x \o y, 1, Len(x)) = x
  BY <1>1, <1>2, <1>4
<1> QED
  BY <1>1, <1>3, <1>5, PrefixOfConcat

\* What the log keeps before and after the step, and the buffer.
Log1(l, k, k1, b, b1) ==
  /\ l \in Logs /\ k = Laid(files[l]) /\ k1 = Laid(files'[l]) /\ b = stream[l].buffer /\ b1 = stream'[l].buffer
  /\ k \in Seq(Nat) /\ k1 \in Seq(Nat) /\ b \in Seq(Nat) /\ b1 \in Seq(Nat)

LEMMA Log1Exists ==
  ASSUME SinkInv, SinkInv', NEW l \in Logs
  PROVE  \E k, k1, b, b1 : Log1(l, k, k1, b, b1)
<1>1. files[l] \in [Index -> Seq(Nat)] /\ stream[l].buffer \in Seq(Nat)
  BY SinkFacts DEF SinkInv
<1>2. files'[l] \in [Index -> Seq(Nat)] /\ stream'[l].buffer \in Seq(Nat)
  <2>1. files'[l] \in [Index -> Seq(Nat)] /\ stream'[l] \in [open : BOOLEAN, buffer : Seq(Nat)]
    BY DEF SinkInv, SinkTypes
  <2> QED
    BY <2>1
<1>3. Laid(files[l]) \in Seq(Nat) /\ Laid(files'[l]) \in Seq(Nat)
  BY <1>1, <1>2, LaidIsSeq
<1> QED
  BY <1>1, <1>2, <1>3 DEF Log1

Persists(l, k, k1, b, b1, x) ==
  /\ Log1(l, k, k1, b, b1) /\ x \in Seq(Nat) /\ k1 = k \o x /\ b = x \o b1
  /\ line'[l] = line[l] /\ faults' = faults

LEMMA ToPersist == \A l, k, k1, b, b1, x : Persists(l, k, k1, b, b1, x) => Log!Step(l)
<1> SUFFICES ASSUME NEW l, NEW k, NEW k1, NEW b, NEW b1, NEW x, Persists(l, k, k1, b, b1, x) PROVE Log!Step(l)
  OBVIOUS
<1>1. k1 \o b1 = k \o b /\ IsPrefix(k, k1)
  <2>1. k \in Seq(Nat) /\ x \in Seq(Nat) /\ b1 \in Seq(Nat) /\ k1 = k \o x /\ b = x \o b1
    BY DEF Persists, Log1
  <2>2. (k \o x) \o b1 = k \o (x \o b1)
    BY <2>1, Associative
  <2>3. IsPrefix(k, k \o x)
    BY <2>1, PrefixOfConcat
  <2> QED
    BY <2>1, <2>2, <2>3
<1>3. Log!IsPrefix(k, k1)
  BY <1>1, Zenon DEF IsPrefix, Log!IsPrefix
<1>2. Log!Persist(l)
  BY <1>1, <1>3 DEF Log!Persist, Log!Lines, Log!Lines1, Persists, Log1
<1> QED
  BY <1>2 DEF Log!Step

Writes(l, k, k1, b, b1, x) ==
  /\ Log1(l, k, k1, b, b1) /\ x \in Seq(Nat) /\ k1 = k \o x /\ Append(b, line'[l]) = x \o b1
  /\ line[l] \in Nat /\ line'[l] = line[l] + 1 /\ faults' = faults

LEMMA ToWrite == \A l, k, k1, b, b1, x : Writes(l, k, k1, b, b1, x) => Log!Step(l)
<1> SUFFICES ASSUME NEW l, NEW k, NEW k1, NEW b, NEW b1, NEW x, Writes(l, k, k1, b, b1, x) PROVE Log!Step(l)
  OBVIOUS
<1>1. k1 \o b1 = k \o Append(b, line'[l]) /\ IsPrefix(k, k1)
  <2>1. k \in Seq(Nat) /\ x \in Seq(Nat) /\ b1 \in Seq(Nat) /\ k1 = k \o x /\ Append(b, line'[l]) = x \o b1
    BY DEF Writes, Log1
  <2>2. (k \o x) \o b1 = k \o (x \o b1)
    BY <2>1, Associative
  <2>3. IsPrefix(k, k \o x)
    BY <2>1, PrefixOfConcat
  <2> QED
    BY <2>1, <2>2, <2>3
<1>2. k \o Append(b, line'[l]) = Append(k \o b, line'[l])
  <2>1. PICK n \in Nat : n = line'[l]
    BY DEF Writes
  <2>2. k \in Seq(Nat) /\ b \in Seq(Nat) /\ <<n>> \in Seq(Nat) /\ k \o b \in Seq(Nat)
    BY ConcatProperties DEF Writes, Log1
  <2>3. k \o (b \o <<n>>) = (k \o b) \o <<n>>
    BY <2>2, Associative
  <2>4. Append(b, n) = b \o <<n>> /\ Append(k \o b, n) = (k \o b) \o <<n>>
    BY <2>1, <2>2, AppendIsConcat
  <2> QED
    BY <2>1, <2>3, <2>4
<1>4. Log!IsPrefix(k, k1)
  BY <1>1, Zenon DEF IsPrefix, Log!IsPrefix
<1>3. Log!Write(l)
  BY <1>1, <1>2, <1>4 DEF Log!Write, Log!Lines, Log!Lines1, Writes, Log1
<1> QED
  BY <1>3 DEF Log!Step

Expires(l, k, k1, b, b1, x) ==
  /\ Log1(l, k, k1, b, b1) /\ x \in Seq(Nat) /\ x # <<>> /\ k = x \o k1 /\ b1 = b
  /\ faults = 0 => Len(k1) >= max_files * max_size
  /\ line'[l] = line[l] /\ faults' = faults

LEMMA ToExpire == \A l, k, k1, b, b1, x : Expires(l, k, k1, b, b1, x) => Log!Step(l)
<1> SUFFICES ASSUME NEW l, NEW k, NEW k1, NEW b, NEW b1, NEW x, Expires(l, k, k1, b, b1, x) PROVE Log!Step(l)
  OBVIOUS
<1>1. PICK n : n = Len(x)
  OBVIOUS
<1>2. k1 = SubSeq(k, n + 1, Len(k)) /\ Len(k) = n + Len(k1) /\ n \in Nat /\ Len(k1) \in Nat
  BY <1>1, FrontOf DEF Expires, Log1
<1>3. n # 0
  BY <1>1, EmptySeq DEF Expires
<1>4. n \in 1 .. Len(k)
  BY <1>2, <1>3
<1>5. Log!Expire(l)
  BY <1>2, <1>4 DEF Log!Expire, Expires, Log1
<1> QED
  BY <1>5 DEF Log!Step

Crashes(l, k, k1, b, b1) ==
  Log1(l, k, k1, b, b1) /\ k1 = k /\ b1 = <<>> /\ line'[l] = line[l] /\ faults' = faults + 1

LEMMA ToCrash == \A l, k, k1, b, b1 : Crashes(l, k, k1, b, b1) => Log!Step(l)
<1> SUFFICES ASSUME NEW l, NEW k, NEW k1, NEW b, NEW b1, Crashes(l, k, k1, b, b1) PROVE Log!Step(l)
  OBVIOUS
<1>1. Log!Crash(l)
  BY DEF Log!Crash, Crashes, Log1
<1> QED
  BY <1>1 DEF Log!Step

Fails(l, k, k1, b, b1, x, y) ==
  /\ Log1(l, k, k1, b, b1) /\ x \in Seq(Nat) /\ y \in Seq(Nat) /\ k = (x \o k1) \o y /\ b1 = b
  /\ line'[l] \in {line[l], line[l] + 1} /\ faults' = faults + 1

LEMMA ToFail == \A l, k, k1, b, b1, x, y : Fails(l, k, k1, b, b1, x, y) => Log!Step(l)
<1> SUFFICES ASSUME NEW l, NEW k, NEW k1, NEW b, NEW b1, NEW x, NEW y, Fails(l, k, k1, b, b1, x, y)
             PROVE Log!Step(l)
  OBVIOUS
<1>1. PICK i, j : i = Len(x) /\ j = Len(x) + Len(k1)
  OBVIOUS
<1>2. k1 = SubSeq(k, i + 1, j)
  BY <1>1, CutOut DEF Fails, Log1
<1>3. Len(k) = j + Len(y) /\ i \in Nat /\ Len(k1) \in Nat /\ Len(y) \in Nat
  BY <1>1, ConcatProperties, LenProperties DEF Fails, Log1
<1>4. i \in 0 .. Len(k) /\ j \in 0 .. Len(k)
  BY <1>1, <1>3
<1>5. Log!Fail(l)
  BY <1>2, <1>4 DEF Log!Fail, Fails, Log1
<1> QED
  BY <1>5 DEF Log!Step

-----------------------------------------------------------------------------
(* The files while they are moved. *)

\* A file that is not there, or whose place is free in the rotation, has no lines.
Filed(f, e, h) ==
  /\ f \in [Index -> Seq(Nat)] /\ e \subseteq Index /\ h \in Nat
  /\ \A i \in Index : i \notin e \/ i = h => i \notin e /\ f[i] = <<>>

\* Below a file with lines every file is full, but for the free place.
Full(f, h) ==
  \A i \in 1 .. max_files : f[i] # <<>> =>
    Len(f[i]) = max_size /\ \A j \in 1 .. i - 1 : j = h \/ Len(f[j]) = max_size

MovedUp(f, g, i) ==
  /\ f \in [Index -> Seq(Nat)] /\ g \in [Index -> Seq(Nat)] /\ i \in Index \ {0}
  /\ g[i] = f[i - 1] /\ g[i - 1] = <<>> /\ \A j \in Index \ {i - 1, i} : g[j] = f[j]

\* The place that becomes free next.
NextFree(h, i) == i \in Index \ {0} /\ (h = i \/ (h = max_files + 1 /\ i = max_files))

LEMMA IndexIs ==
  /\ max_files \in Nat \ {0} /\ max_size \in Nat \ {0} /\ Len(<<>>) = 0 /\ 0 \in Index /\ max_files \in Index
  /\ max_files + 1 \notin Index /\ \A i \in Index : i \in Nat /\ i <= max_files
  /\ \A i \in 1 .. max_files : i \in Index /\ i # 0
  /\ \A i \in Index \ {0} : i \in 1 .. max_files /\ i - 1 \in Index /\ i - 1 # i /\ i - 1 \in Nat
                            /\ i - 1 # max_files + 1 /\ (i # 1 => i - 1 \in 1 .. max_files)
  /\ \A i \in 1 .. max_files : \A j \in 1 .. i - 1 : j \in 1 .. max_files /\ j # i /\ j \in Index
BY SinkAssumption DEF Index

LEMMA MovedFiled ==
  \A f, g, e, d, h, i :
    Filed(f, e, h) /\ MovedUp(f, g, i) /\ NextFree(h, i) /\ d = (e \ {i - 1}) \cup {i} => Filed(g, d, i - 1)
<1> SUFFICES ASSUME NEW f, NEW g, NEW e, NEW d, NEW h, NEW i, Filed(f, e, h), MovedUp(f, g, i),
                    NextFree(h, i), d = (e \ {i - 1}) \cup {i}
             PROVE  Filed(g, d, i - 1)
  OBVIOUS
<1>1. i \in Index /\ i - 1 \in Index /\ i - 1 # i /\ i - 1 \in Nat /\ d \subseteq Index
  BY IndexIs DEF MovedUp, Filed
<1>2. ASSUME NEW j \in Index, j \notin d \/ j = i - 1 PROVE j \notin d /\ g[j] = <<>>
  <2>1. CASE j = i - 1
    BY <1>1, <2>1 DEF MovedUp
  <2>2. CASE j # i - 1
    <3>1. j # i /\ j \notin e
      BY <1>1, <1>2, <2>2
    <3> QED
      BY <1>2, <2>2, <3>1 DEF MovedUp, Filed
  <2> QED
    BY <2>1, <2>2
<1> QED
  BY <1>1, <1>2 DEF MovedUp, Filed

LEMMA SkippedFiled ==
  \A f, e, h, i : Filed(f, e, h) /\ i \in Index \ {0} /\ i - 1 \notin e => Filed(f, e, i - 1) /\ f[i - 1] = <<>>
<1> SUFFICES ASSUME NEW f, NEW e, NEW h, NEW i \in Index \ {0}, Filed(f, e, h), i - 1 \notin e
             PROVE  Filed(f, e, i - 1) /\ f[i - 1] = <<>>
  OBVIOUS
<1>1. i - 1 \in Index /\ i - 1 \in Nat
  BY IndexIs
<1> QED
  BY <1>1 DEF Filed

LEMMA MovedFull ==
  \A f, g, h, i :
    Full(f, h) /\ MovedUp(f, g, i) /\ NextFree(h, i) /\ Len(f[0]) = max_size
    => Full(g, i - 1) /\ (i - 1 > 0 => Len(g[0]) = max_size)
<1> SUFFICES ASSUME NEW f, NEW g, NEW h, NEW i, Full(f, h), MovedUp(f, g, i), NextFree(h, i),
                    Len(f[0]) = max_size
             PROVE  Full(g, i - 1) /\ (i - 1 > 0 => Len(g[0]) = max_size)
  OBVIOUS
<1>1. /\ i \in 1 .. max_files /\ i \in Index \ {0} /\ i - 1 \in Index /\ i - 1 # i /\ i - 1 # h
      /\ g[i] = f[i - 1] /\ g[i - 1] = <<>>
  <2>1. i \in Index \ {0} /\ g[i] = f[i - 1] /\ g[i - 1] = <<>>
    BY DEF MovedUp
  <2> QED
    BY <2>1, IndexIs DEF NextFree
<1>2. ASSUME NEW j \in Index, j # i, j # i - 1 PROVE g[j] = f[j]
  BY <1>2 DEF MovedUp
<1>3. ASSUME NEW j \in 1 .. i - 1, f[i - 1] # <<>> PROVE j = i - 1 \/ Len(g[j]) = max_size
  <2>1. CASE j = i - 1
    BY <2>1
  <2>2. CASE j # i - 1
    <3>1. i - 1 \in 1 .. max_files /\ j \in 1 .. (i - 1) - 1 /\ j # i /\ j \in Index /\ j # h
      BY <1>1, <2>2, IndexIs DEF NextFree
    <3>2. Len(f[j]) = max_size
      BY <1>3, <3>1 DEF Full
    <3> QED
      BY <1>2, <2>2, <3>1, <3>2
  <2> QED
    BY <2>1, <2>2
<1>4. ASSUME f[i - 1] # <<>> PROVE Len(g[i]) = max_size
  <2>1. CASE i = 1
    BY <1>1, <2>1
  <2>2. CASE i # 1
    <3>1. i - 1 \in 1 .. max_files
      BY <1>1, <2>2, IndexIs
    <3> QED
      BY <1>1, <1>4, <3>1 DEF Full
  <2> QED
    BY <2>1, <2>2
<1>5. ASSUME NEW p \in 1 .. max_files, g[p] # <<>>
      PROVE  Len(g[p]) = max_size /\ \A j \in 1 .. p - 1 : j = i - 1 \/ Len(g[j]) = max_size
  <2>1. p # i - 1
    BY <1>1, <1>5
  <2>2. CASE p = i
    <3>1. f[i - 1] # <<>>
      BY <1>1, <1>5, <2>2
    <3> QED
      BY <1>3, <1>4, <2>2, <3>1
  <2>3. CASE p # i
    <3>1. p \in Index /\ g[p] = f[p]
      BY <1>2, <2>1, <2>3, IndexIs
    <3>2. Len(f[p]) = max_size /\ \A j \in 1 .. p - 1 : j = h \/ Len(f[j]) = max_size
      BY <1>5, <3>1 DEF Full
    <3>3. ASSUME NEW j \in 1 .. p - 1, j # i - 1 PROVE Len(g[j]) = max_size
      <4>1. j \in Index /\ j \in 1 .. max_files
        BY IndexIs
      <4>2. CASE j # i
        <5>1. j # h
          BY <1>1, <4>1, <4>2, IndexIs DEF NextFree
        <5> QED
          BY <1>2, <3>2, <3>3, <4>1, <4>2, <5>1
      <4>3. CASE j = i
        <5>1. f[i - 1] # <<>>
          <6>1. CASE i = 1
            <7>1. Len(f[0]) # 0 /\ i - 1 = 0
              BY <6>1, IndexIs
            <7> QED
              BY <7>1, IndexIs
          <6>2. CASE i # 1
            <7>1. i - 1 \in 1 .. p - 1
              BY <1>1, <4>3, <6>2, IndexIs
            <7>2. Len(f[i - 1]) = max_size
              BY <1>1, <3>2, <7>1
            <7> QED
              BY <7>2, IndexIs
          <6> QED
            BY <6>1, <6>2
        <5> QED
          BY <1>4, <4>3, <5>1
      <4> QED
        BY <4>2, <4>3
    <3> QED
      BY <3>1, <3>2, <3>3
  <2> QED
    BY <2>2, <2>3
<1>6. i - 1 > 0 => Len(g[0]) = max_size
  <2>1. ASSUME i - 1 > 0 PROVE Len(g[0]) = max_size
    <3>1. 0 # i /\ 0 # i - 1 /\ 0 \in Index
      BY <1>1, <2>1, IndexIs
    <3> QED
      BY <1>2, <3>1
  <2> QED
    BY <2>1
<1> QED
  BY <1>5, <1>6 DEF Full

\* What is not there is not moved; nothing older is there then.
LEMMA SkippedFull ==
  \A f, h, i :
    Full(f, h) /\ NextFree(h, i) /\ Len(f[0]) = max_size /\ f[i - 1] = <<>> => Full(f, i - 1)
<1> SUFFICES ASSUME NEW f, NEW h, NEW i, Full(f, h), NextFree(h, i), Len(f[0]) = max_size, f[i - 1] = <<>>
             PROVE  Full(f, i - 1)
  OBVIOUS
<1>1. i \in 1 .. max_files /\ i \in Index \ {0} /\ i - 1 \in Index /\ i - 1 # i /\ i - 1 # h
  BY IndexIs DEF NextFree
<1>2. i # 1
  <2>1. ASSUME i = 1 PROVE FALSE
    <3>1. i - 1 = 0
      BY <2>1
    <3> QED
      BY <3>1, IndexIs
  <2> QED
    BY <2>1
<1>3. ASSUME NEW p \in 1 .. max_files, f[p] # <<>>
      PROVE  Len(f[p]) = max_size /\ \A j \in 1 .. p - 1 : j = i - 1 \/ Len(f[j]) = max_size
  <2>1. Len(f[p]) = max_size /\ \A j \in 1 .. p - 1 : j = h \/ Len(f[j]) = max_size
    BY <1>3 DEF Full
  <2>2. ASSUME NEW j \in 1 .. p - 1, j = h PROVE FALSE
    <3>1. j = i
      BY <2>2, IndexIs DEF NextFree
    <3>2. i - 1 \in 1 .. p - 1
      BY <1>1, <1>2, <3>1, IndexIs
    <3>3. Len(f[i - 1]) = max_size
      BY <1>1, <2>1, <3>2
    <3> QED
      BY <3>3, IndexIs
  <2> QED
    BY <2>1, <2>2
<1> QED
  BY <1>3 DEF Full

\* Nothing is lost while the files move, but for the oldest file.
LEMMA MovedLines ==
  \A f, g, e, h, i :
    Filed(f, e, h) /\ MovedUp(f, g, i) /\ NextFree(h, i)
    => /\ h = i => Laid(f) = Laid(g)
       /\ h # i => i = max_files /\ Laid(f) = f[max_files] \o Laid(g)
<1> SUFFICES ASSUME NEW f, NEW g, NEW e, NEW h, NEW i, Filed(f, e, h), MovedUp(f, g, i), NextFree(h, i)
             PROVE  /\ h = i => Laid(f) = Laid(g)
                    /\ h # i => i = max_files /\ Laid(f) = f[max_files] \o Laid(g)
  OBVIOUS
<1>1. f \in [Index -> Seq(Nat)] /\ g \in [Index -> Seq(Nat)] /\ i \in Index \ {0} /\ <<>> \in Seq(Nat)
      /\ i \in Index /\ i - 1 \in Index /\ i - 1 # i
  BY EmptySeq, IndexIs DEF MovedUp
<1>2. CASE h = i
  <2>1. f[i] = <<>>
    BY <1>1, <1>2 DEF Filed
  <2>2. g[i] = f[i - 1] /\ g[i - 1] = <<>> /\ \A j \in Index \ {i - 1, i} : f[j] = g[j]
    BY DEF MovedUp
  <2>3. Laid(f) = Laid(g)
    BY <1>1, <2>1, <2>2, HoleMoves
  <2> QED
    BY <1>2, <2>3
<1>3. CASE h # i
  <2> DEFINE c == [f EXCEPT ![i] = <<>>]
  <2>1. c \in [Index -> Seq(Nat)] /\ c[i] = <<>> /\ c[i - 1] = f[i - 1] /\ \A j \in Index \ {i} : c[j] = f[j]
    BY <1>1
  <2> HIDE DEF c
  <2>2. i = max_files
    BY <1>3 DEF NextFree
  <2>3. Laid(f) = f[max_files] \o Laid(c)
    BY <1>1, <2>1, <2>2, OldestDiffers
  <2>4. g[i] = c[i - 1] /\ g[i - 1] = <<>> /\ \A j \in Index \ {i - 1, i} : c[j] = g[j]
    BY <2>1 DEF MovedUp
  <2>5. Laid(c) = Laid(g)
    BY <1>1, <2>1, <2>4, HoleMoves
  <2> QED
    BY <1>3, <2>2, <2>3, <2>5
<1> QED
  BY <1>2, <1>3

\* When the oldest file is given up all others are full.
LEMMA EnoughIsLeft ==
  \A f, g, h :
    /\ f \in [Index -> Seq(Nat)]
    /\ g \in [Index -> Seq(Nat)] /\ Full(f, h) /\ h = max_files + 1 /\ f[max_files] # <<>> /\ Len(f[0]) = max_size
    /\ Laid(f) = f[max_files] \o Laid(g)
    => Len(Laid(g)) >= max_files * max_size
<1> SUFFICES ASSUME NEW f \in [Index -> Seq(Nat)], NEW g \in [Index -> Seq(Nat)], NEW h, Full(f, h),
                    h = max_files + 1, f[max_files] # <<>>, Len(f[0]) = max_size,
                    Laid(f) = f[max_files] \o Laid(g)
             PROVE  Len(Laid(g)) >= max_files * max_size
  OBVIOUS
<1>1. max_files \in 1 .. max_files /\ max_files \in Index
  BY IndexIs
<1>2. Len(f[max_files]) = max_size /\ \A j \in 1 .. max_files - 1 : j = h \/ Len(f[j]) = max_size
  BY <1>1 DEF Full
<1>3. ASSUME NEW i \in Index PROVE Len(f[i]) = max_size
  <2>1. i = 0 \/ i = max_files \/ i \in 1 .. max_files - 1
    BY IndexIs
  <2>2. i # h
    BY IndexIs
  <2> QED
    BY <1>2, <2>1, <2>2
<1>4. Len(Laid(f)) = max_size + max_files * max_size
  BY <1>3, FullFiles
<1>5. Len(Laid(f)) = Len(f[max_files]) + Len(Laid(g)) /\ Len(Laid(g)) \in Nat
  BY <1>1, LaidIsSeq, ConcatProperties
<1>6. PICK n : n = max_files * max_size
  OBVIOUS
<1>7. n \in Nat
  BY <1>6, IndexIs
<1>8. max_size + n = max_size + Len(Laid(g)) /\ max_size \in Nat
  BY <1>2, <1>4, <1>5, <1>6, IndexIs
<1>9. Len(Laid(g)) = n
  BY <1>5, <1>7, <1>8
<1> QED
  BY <1>6, <1>7, <1>9

-----------------------------------------------------------------------------
(* The sinks as logs. *)

Turns(l) == In("rotate") /\ at.log = l
Gap(l) == IF at.log = l /\ (In("retry") \/ (In("rotate") /\ at.i < max_files)) THEN at.i ELSE max_files + 1

Stocked(l) == Filed(files[l], exists[l], Gap(l)) /\ (stream[l].open => 0 \in exists[l])

\* As long as nothing has failed.
Fresh(l) ==
  /\ ~Turns(l) => current_size_[l] <= max_size
  /\ stream[l].open => current_size_[l] = Held(l) + Coming(l)
  /\ Full(files[l], Gap(l))
  /\ Turns(l) /\ at.i > 0 => Len(files[l][0]) = max_size

Stored ==
  /\ faults \in Nat /\ (faults = 0 => ~In("retry"))
  /\ \A l \in Logs : Stocked(l) /\ (faults = 0 => Fresh(l))

Untouched(l) ==
  /\ files'[l] = files[l] /\ exists'[l] = exists[l] /\ stream'[l] = stream[l]
  /\ current_size_'[l] = current_size_[l] /\ line'[l] = line[l]

Counts == faults \in Nat /\ faults' \in Nat /\ faults' \in {faults, faults + 1} /\ (faults' = 0 => faults = 0)

LEMMA StillStands ==
  ASSUME SinkInv, SinkInv', Counts, NEW l \in Logs, files'[l] = files[l], stream'[l] = stream[l],
         line'[l] = line[l] \/ (line'[l] = line[l] + 1 /\ faults' = faults + 1)
  PROVE  Log!Step(l)
<1>1. PICK k, k1, b, b1 : Log1(l, k, k1, b, b1)
  BY Log1Exists
<1>2. k1 = k /\ b1 = b /\ <<>> \in Seq(Nat) /\ k \in Seq(Nat) /\ b \in Seq(Nat)
  BY <1>1, EmptySeq DEF Log1
<1>3. k \o <<>> = k /\ <<>> \o b = b /\ <<>> \o k = k
  BY <1>2, ConcatEmptySeq
<1>4. CASE faults' = faults
  <2>0. faults # faults + 1
    BY DEF Counts
  <2>1. Persists(l, k, k1, b, b1, <<>>)
    BY <1>1, <1>2, <1>3, <1>4, <2>0 DEF Persists
  <2> QED
    BY <2>1, ToPersist
<1>5. CASE faults' = faults + 1
  <2>1. Fails(l, k, k1, b, b1, <<>>, <<>>)
    BY <1>1, <1>2, <1>3, <1>5 DEF Fails
  <2> QED
    BY <2>1, ToFail
<1> QED
  BY <1>4, <1>5 DEF Counts

LEMMA OthersKeep ==
  ASSUME SinkInv, Stored, Counts, NEW l \in Logs,
         at.log = l \/ In("no_sink") \/ at' = at, at'.log = l \/ In("no_sink")' \/ at' = at,
         NEW k \in Logs, k # l, Untouched(k)
  PROVE  Stocked(k)' /\ (faults' = 0 => Fresh(k)')
<1>1. CASE at' = at
  <2>1. Gap(k)' = Gap(k) /\ (Turns(k)' <=> Turns(k)) /\ Coming(k)' = Coming(k)
    BY <1>1 DEF Gap, Turns, Coming, In
  <2>2. Held(k)' = Held(k)
    BY DEF Untouched, Held
  <2>3. Stocked(k)'
    BY <2>1 DEF Stored, Stocked, Untouched
  <2>4. ASSUME faults' = 0 PROVE Fresh(k)'
    <3>1. Fresh(k)
      BY <2>4 DEF Stored, Counts
    <3> QED
      BY <1>1, <2>1, <2>2, <3>1 DEF Fresh, Untouched
  <2> QED
    BY <2>3, <2>4
<1>2. CASE at' # at
  <2>1. /\ Gap(k) = max_files + 1 /\ ~Turns(k) /\ Coming(k) = 0
        /\ Gap(k)' = max_files + 1 /\ ~Turns(k)' /\ Coming(k)' = 0
    BY <1>2 DEF Gap, Turns, Coming, In
  <2>2. Held(k)' = Held(k)
    BY DEF Untouched, Held
  <2>3. Stocked(k)'
    BY <2>1 DEF Stored, Stocked, Untouched
  <2>4. ASSUME faults' = 0 PROVE Fresh(k)'
    <3>1. Fresh(k)
      BY <2>4 DEF Stored, Counts
    <3> QED
      BY <2>1, <2>2, <3>1 DEF Fresh, Untouched
  <2> QED
    BY <2>3, <2>4
<1> QED
  BY <1>1, <1>2

\* A step of one log: the others go on as they were.
LEMMA OneLogMoves ==
  ASSUME SinkInv, SinkInv', Stored, Counts, NEW l \in Logs,
         at.log = l \/ In("no_sink"), at'.log = l \/ In("no_sink")',
         faults' = 0 => ~In("retry")', \A k \in Logs \ {l} : Untouched(k),
         Stocked(l)', faults' = 0 => Fresh(l)', Log!Step(l)
  PROVE  Stored' /\ \A k \in Logs : Log!Step(k)
<1>1. ASSUME NEW k \in Logs, k # l PROVE Stocked(k)' /\ (faults' = 0 => Fresh(k)') /\ Log!Step(k)
  <2>1. Untouched(k)
    BY <1>1
  <2>2. Log!Step(k)
    BY <2>1, StillStands DEF Untouched
  <2>3. Stocked(k)' /\ (faults' = 0 => Fresh(k)')
    BY <1>1, <2>1, OthersKeep
  <2> QED
    BY <2>2, <2>3
<1> QED
  BY <1>1 DEF Stored, Counts

LEMMA StandingLogs ==
  ASSUME SinkInv, Stored, UNCHANGED sink
  PROVE  Stored' /\ \A k \in Logs : Log!Step(k)
<1>1. SinkInv' /\ Counts
  BY SameSink DEF sink, Stored, Counts
<1>2. Stored'
  BY DEF Stored, Stocked, Fresh, Gap, Turns, Held, Coming, In, sink
<1>3. ASSUME NEW k \in Logs PROVE Log!Step(k)
  <2>1. files'[k] = files[k] /\ stream'[k] = stream[k] /\ line'[k] = line[k]
    BY DEF sink
  <2> QED
    BY <1>1, <2>1, StillStands
<1> QED
  BY <1>2, <1>3

\* What is filed of a log outside of a rotation.
LEMMA FiledIs ==
  ASSUME SinkInv, Stored, NEW l \in Logs
  PROVE  /\ Filed(files[l], exists[l], Gap(l)) /\ files[l] \in [Index -> Seq(Nat)] /\ exists[l] \subseteq Index
         /\ \A i \in Index : i \notin exists[l] => files[l][i] = <<>>
         /\ stream[l].open => 0 \in exists[l]
         /\ ~stream[l].open => stream[l].buffer = <<>>
         /\ faults = 0 => Fresh(l)
<1>1. Filed(files[l], exists[l], Gap(l)) /\ (stream[l].open => 0 \in exists[l]) /\ (faults = 0 => Fresh(l))
  BY DEF Stored, Stocked
<1>2. Counted(l)
  BY DEF SinkInv
<1> QED
  BY <1>1, <1>2 DEF Filed, Counted

LEMMA ConstructMoves ==
  ASSUME SinkInv, Stored, NEW l \in Logs, In("no_sink"), Construct(l), ~stream[l].open
  PROVE  Stored' /\ \A k \in Logs : Log!Step(k)
<1>0. SinkInv' /\ SinkTypes /\ Counts /\ at' = at /\ UNCHANGED <<line, faults>>
  BY ConstructKeeps DEF Construct, SinkInv, Stored, Counts
<1>1. /\ files'[l] = files[l] /\ stream'[l] = Opened /\ exists'[l] = exists[l] \cup {0}
      /\ current_size_'[l] = Len(files[l][0]) /\ 0 \in Index
      /\ \A k \in Logs \ {l} : Untouched(k)
  <2>1. files[l] \in [Index -> Seq(Nat)] /\ 0 \in Index
    BY <1>0, SinkFacts
  <2>2. files' = [files EXCEPT ![l] = [files[l] EXCEPT ![0] = files[l][0]]]
    BY <1>0, Opens DEF Construct
  <2>3. files' = files
    BY <1>0, <2>1, <2>2 DEF SinkTypes
  <2> QED
    BY <1>0, <2>1, <2>3 DEF Construct, Open, SinkTypes, Untouched
<1>2. stream[l].buffer = <<>> /\ Filed(files[l], exists[l], Gap(l)) /\ Gap(l) = max_files + 1
      /\ Gap(l)' = max_files + 1 /\ ~Turns(l)' /\ (faults = 0 => Fresh(l)) /\ Coming(l)' = 0
  BY <1>0, FiledIs DEF Gap, Turns, Coming, In
<1>3. Stocked(l)'
  BY <1>1, <1>2, IndexIs DEF Stocked, Filed
<1>4. ASSUME faults' = 0 PROVE Fresh(l)'
  <2>1. Fresh(l) /\ Counted(l)
    BY <1>0, <1>2, <1>4 DEF SinkInv
  <2>2. Len(files[l][0]) <= max_size /\ Len(files[l][0]) \in Nat
    BY <1>0, <2>1, SinkFacts DEF Counted
  <2>3. Held(l)' = Len(files[l][0])
    BY <1>1, <2>2, OpenedIs, IndexIs DEF Held
  <2> QED
    BY <1>1, <1>2, <2>1, <2>2, <2>3 DEF Fresh
<1>5. Log!Step(l)
  <2>1. PICK k, k1, b, b1 : Log1(l, k, k1, b, b1)
    BY <1>0, Log1Exists
  <2>2. k1 = k /\ b = <<>> /\ b1 = <<>> /\ k \in Seq(Nat) /\ <<>> \in Seq(Nat)
    BY <1>1, <1>2, <2>1, OpenedIs, EmptySeq DEF Log1
  <2>3. k \o <<>> = k /\ <<>> \o <<>> = <<>>
    BY <2>2, ConcatEmptySeq
  <2>4. Persists(l, k, k1, b, b1, <<>>)
    BY <1>0, <2>1, <2>2, <2>3 DEF Persists
  <2> QED
    BY <2>4, ToPersist
<1> QED
  BY <1>0, <1>1, <1>3, <1>4, <1>5, OneLogMoves DEF In

LEMMA AgainMoves ==
  ASSUME SinkInv, Stored, NEW l \in Logs, In("no_sink"), ConstructAgain(l)
  PROVE  Stored' /\ \A k \in Logs : Log!Step(k)
<1>0. SinkInv' /\ SinkTypes /\ Counts /\ UNCHANGED <<files, stream, current_size_, line, at, faults>>
  BY AgainKeeps DEF ConstructAgain, SinkInv, Stored, Counts
<1>1. /\ exists'[l] = exists[l] \cup {0} /\ \A k \in Logs \ {l} : Untouched(k)
  BY <1>0 DEF ConstructAgain, SinkTypes, Untouched
<1>2. Filed(files[l], exists[l], Gap(l)) /\ Gap(l) = max_files + 1
      /\ Gap(l)' = max_files + 1 /\ (faults = 0 => Fresh(l))
  BY <1>0, FiledIs DEF Gap, In
<1>3. Stocked(l)'
  BY <1>0, <1>1, <1>2, IndexIs DEF Stocked, Filed
<1>4. faults' = 0 => Fresh(l)'
  BY <1>0, <1>2 DEF Fresh, Turns, Gap, Held, Coming, In
<1>5. Log!Step(l)
  BY <1>0, StillStands
<1> QED
  BY <1>0, <1>1, <1>3, <1>4, <1>5, OneLogMoves DEF In

\* The buffer of a log goes into its file.
LEMMA OutMoves ==
  ASSUME SinkInv, SinkInv', Stored, NEW l \in Logs, files'[l] = Written(l)[l], exists'[l] = exists[l],
         stream'[l].buffer = <<>>
  PROVE  /\ Filed(files'[l], exists'[l], Gap(l))
         /\ ~stream[l].open => files'[l] = files[l]
         /\ \A i \in Index \ {0} : files'[l][i] = files[l][i]
         /\ Len(files'[l][0]) = Held(l)
         /\ line'[l] = line[l] /\ faults' = faults => Log!Step(l)
<1>1. /\ files[l] \in [Index -> Seq(Nat)] /\ files'[l] \in [Index -> Seq(Nat)] /\ 0 \in Index
      /\ files[l][0] \in Seq(Nat) /\ stream[l].buffer \in Seq(Nat) /\ <<>> \in Seq(Nat)
      /\ Len(files'[l][0]) = Held(l) /\ \A i \in Index \ {0} : files'[l][i] = files[l][i]
      /\ files'[l][0] = files[l][0] \o stream[l].buffer
  <2>1. SinkTypes
    BY DEF SinkInv
  <2>2. /\ files \in [Logs -> [Index -> Seq(Nat)]] /\ files[l] \in [Index -> Seq(Nat)] /\ 0 \in Index
        /\ files[l][0] \in Seq(Nat) /\ stream[l].buffer \in Seq(Nat) /\ <<>> \in Seq(Nat)
    BY <2>1, SinkFacts, EmptySeq DEF SinkTypes
  <2>3. /\ files'[l] \in [Index -> Seq(Nat)] /\ Len(files'[l][0]) = Held(l)
        /\ \A i \in Index \ {0} : files'[l][i] = files[l][i]
    BY <2>1, WrittenIs
  <2>4. files'[l][0] = files[l][0] \o stream[l].buffer
    BY <2>2 DEF Written
  <2> QED
    BY <2>2, <2>3, <2>4
<1>2. stream[l].buffer = <<>> => files'[l] = files[l]
  <2>1. ASSUME stream[l].buffer = <<>> PROVE \A i \in Index : files'[l][i] = files[l][i]
    <3>1. files'[l][0] = files[l][0]
      BY <1>1, <2>1, ConcatEmptySeq
    <3> QED
      BY <1>1, <3>1
  <2> QED
    BY <1>1, <2>1
<1>3. /\ Filed(files[l], exists[l], Gap(l))
      /\ stream[l].open => 0 \in exists[l]
      /\ ~stream[l].open => stream[l].buffer = <<>>
  BY FiledIs
<1>4. ASSUME NEW i \in Index, i \notin exists[l] \/ i = Gap(l) PROVE i \notin exists'[l] /\ files'[l][i] = <<>>
  <2>1. i \notin exists[l] /\ files[l][i] = <<>>
    BY <1>3, <1>4 DEF Filed
  <2>2. i = 0 => files'[l] = files[l]
    BY <1>2, <1>3, <2>1
  <2> QED
    BY <1>1, <2>1, <2>2
<1>5. Filed(files'[l], exists'[l], Gap(l))
  BY <1>1, <1>3, <1>4 DEF Filed
<1>6. ASSUME line'[l] = line[l], faults' = faults PROVE Log!Step(l)
  <2>1. PICK k, k1, b, b1 : Log1(l, k, k1, b, b1)
    BY Log1Exists
  <2>2. PICK p \in Seq(Nat) : Laid(files[l]) = p \o files[l][0] /\ Laid(files'[l]) = p \o files'[l][0]
    BY <1>1, NewestDiffers
  <2>3. k = p \o files[l][0] /\ k1 = p \o (files[l][0] \o b) /\ b \in Seq(Nat) /\ b1 = <<>> /\ b = stream[l].buffer
    BY <1>1, <2>1, <2>2 DEF Log1
  <2>4. (p \o files[l][0]) \o b = p \o (files[l][0] \o b)
    BY <1>1, <2>2, <2>3, Associative
  <2>5. k1 = k \o b /\ b = b \o b1
    BY <2>3, <2>4, ConcatEmptySeq
  <2>6. Persists(l, k, k1, b, b1, b)
    BY <1>6, <2>1, <2>3, <2>5 DEF Persists
  <2> QED
    BY <2>6, ToPersist
<1> QED
  BY <1>1, <1>2, <1>3, <1>5, <1>6

LEMMA BeginMoves ==
  ASSUME SinkInv, Stored, NEW l \in Logs, Ready(l), Begin(l)
  PROVE  Stored' /\ \A k \in Logs : Log!Step(k)
<1> DEFINE n == current_size_[l] + 1
<1>0. SinkInv' /\ SinkTypes /\ Counts /\ UNCHANGED <<exists, line, faults>> /\ In("no_sink") /\ n \in Nat
      /\ current_size_[l] \in Nat /\ max_size \in Nat /\ stream[l].open \in BOOLEAN
  <2>1. SinkInv'
    BY BeginKeeps
  <2>2. SinkTypes /\ UNCHANGED <<exists, line, faults>> /\ In("no_sink") /\ faults \in Nat
    BY DEF Begin, SinkInv, Stored
  <2>3. current_size_[l] \in Nat /\ max_size \in Nat /\ stream[l].open \in BOOLEAN
    BY <2>2, SinkFacts
  <2> QED
    BY <2>1, <2>2, <2>3 DEF Counts
<1>1. /\ current_size_'[l] = n /\ \A k \in Logs \ {l} : current_size_'[k] = current_size_[k]
  BY <1>0 DEF Begin, SinkTypes
<1>2. at'.in = (IF n > max_size THEN "rotate" ELSE "write") /\ at'.log = l /\ at'.i = max_files
  BY DEF Begin, TooLong
<1>3. Gap(l) = max_files + 1 /\ ~Turns(l) /\ Coming(l) = 0 /\ Gap(l)' = max_files + 1 /\ ~In("retry")'
  BY <1>0, <1>2, IndexIs DEF Gap, Turns, Coming, In
<1>4. CASE n > max_size
  <2>1. files' = Written(l) /\ stream' = [stream EXCEPT ![l] = Closed]
    BY <1>4 DEF Begin, TooLong
  <2>2. /\ stream'[l] = Closed /\ ~stream'[l].open /\ stream'[l].buffer = <<>>
        /\ \A k \in Logs \ {l} : Untouched(k)
    BY <1>0, <1>1, <2>1, OpenedIs DEF SinkTypes, Untouched, Written
  <2>3. /\ Filed(files'[l], exists'[l], Gap(l)) /\ Log!Step(l) /\ Len(files'[l][0]) = Held(l)
        /\ \A i \in Index \ {0} : files'[l][i] = files[l][i]
    BY <1>0, <2>1, <2>2, OutMoves
  <2>4. Stocked(l)'
    BY <1>3, <2>2, <2>3 DEF Stocked
  <2>5. ASSUME faults' = 0 PROVE Fresh(l)'
    <3>1. Fresh(l) /\ Counted(l)
      BY <1>0, <2>5, FiledIs DEF SinkInv
    <3>2. current_size_[l] <= max_size
      BY <1>3, <3>1 DEF Fresh
    <3>3. stream[l].open
      BY <1>0, <3>2 DEF Ready
    <3>4. current_size_[l] = Held(l) /\ Held(l) \in Nat
      <4>1. Held(l) \in Nat
        BY <1>0, HeldIsNat
      <4> QED
        BY <1>3, <3>1, <3>3, <4>1 DEF Fresh
    <3>5. Len(files'[l][0]) = max_size
      BY <1>0, <1>4, <2>3, <3>2, <3>4
    <3>6. Full(files'[l], Gap(l)')
      <4>1. \A i \in 1 .. max_files : files'[l][i] = files[l][i]
        BY <2>3, IndexIs
      <4>2. \A i \in 1 .. max_files : \A j \in 1 .. i - 1 : files'[l][j] = files[l][j]
        BY <4>1, IndexIs
      <4>3. Full(files[l], max_files + 1)
        BY <1>3, <3>1 DEF Fresh
      <4> QED
        BY <1>3, <4>1, <4>2, <4>3 DEF Full
    <3>7. Turns(l)'
      BY <1>2, <1>4 DEF Turns, In
    <3> QED
      BY <2>2, <3>5, <3>6, <3>7 DEF Fresh
  <2> QED
    BY <1>0, <1>2, <1>3, <2>2, <2>3, <2>4, <2>5, OneLogMoves
<1>5. CASE ~(n > max_size)
  <2>1. UNCHANGED <<files, stream>> /\ at'.in = "write" /\ ~Turns(l)' /\ \A k \in Logs \ {l} : Untouched(k)
    BY <1>0, <1>1, <1>2, <1>5 DEF Begin, TooLong, Untouched, Turns, In
  <2>2. Stocked(l)'
    BY <1>0, <1>3, <2>1, FiledIs DEF Stocked
  <2>3. ASSUME faults' = 0 PROVE Fresh(l)'
    <3>1. Fresh(l) /\ Held(l) \in Nat
      BY <1>0, <2>3, FiledIs, HeldIsNat
    <3>2. Held(l)' = Held(l) /\ Coming(l)' = 1
      BY <1>2, <2>1 DEF Held, Coming, In
    <3>3. stream[l].open => n = Held(l) + 1
      BY <1>3, <3>1 DEF Fresh
    <3> QED
      BY <1>0, <1>1, <1>3, <1>5, <2>1, <3>1, <3>2, <3>3 DEF Fresh
  <2>4. Log!Step(l)
    BY <1>0, <2>1, StillStands
  <2> QED
    BY <1>0, <1>2, <1>3, <2>1, <2>2, <2>3, <2>4, OneLogMoves
<1> QED
  BY <1>4, <1>5

LEMMA FlushMoves ==
  ASSUME SinkInv, Stored, NEW l \in Logs, Flush(l)
  PROVE  Stored' /\ \A k \in Logs : Log!Step(k)
<1> DEFINE logs == IF stream[l].open THEN {l} ELSE Logs
<1>1. /\ files' = [k \in Logs |-> IF k \in logs THEN Written(k)[k] ELSE files[k]]
      /\ stream' = [k \in Logs |-> IF k \in logs THEN [stream[k] EXCEPT !.buffer = <<>>] ELSE stream[k]]
      /\ UNCHANGED <<exists, current_size_, line, at, faults>>
  BY DEF Flush, Flushed
<1> HIDE DEF logs
<1>2. SinkInv' /\ SinkTypes /\ Counts
  BY <1>1, FlushKeeps DEF SinkInv, Stored, Counts
<1>3. ASSUME NEW k \in Logs PROVE Stocked(k)' /\ (faults' = 0 => Fresh(k)') /\ Log!Step(k)
  <2>1. CASE k \notin logs
    <3>1. Untouched(k)
      BY <1>1, <2>1 DEF Untouched
    <3>2. Gap(k)' = Gap(k) /\ (Turns(k)' <=> Turns(k)) /\ Coming(k)' = Coming(k) /\ Held(k)' = Held(k)
      BY <1>1, <3>1 DEF Gap, Turns, Coming, In, Untouched, Held
    <3>3. Stocked(k)' /\ (faults' = 0 => Fresh(k)')
      BY <1>1, <3>1, <3>2 DEF Stored, Stocked, Fresh, Untouched
    <3>4. Log!Step(k)
      BY <1>2, <3>1, StillStands DEF Untouched
    <3> QED
      BY <3>3, <3>4
  <2>2. CASE k \in logs
    <3>1. /\ files'[k] = Written(k)[k] /\ stream'[k] = [stream[k] EXCEPT !.buffer = <<>>]
          /\ exists'[k] = exists[k] /\ line'[k] = line[k] /\ current_size_'[k] = current_size_[k]
      BY <1>1, <2>2
    <3>2. stream'[k].buffer = <<>> /\ stream'[k].open = stream[k].open
      BY <1>2, <3>1, SinkFacts
    <3>3. Gap(k)' = Gap(k) /\ (Turns(k)' <=> Turns(k)) /\ Coming(k)' = Coming(k)
      BY <1>1 DEF Gap, Turns, Coming, In
    <3>4. /\ Filed(files'[k], exists'[k], Gap(k)) /\ Len(files'[k][0]) = Held(k) /\ Log!Step(k)
          /\ ~stream[k].open => files'[k] = files[k]
          /\ \A i \in Index \ {0} : files'[k][i] = files[k][i]
      BY <1>1, <1>2, <3>1, <3>2, OutMoves
    <3>5. Stocked(k)'
      BY <3>1, <3>2, <3>3, <3>4, FiledIs DEF Stocked
    <3>6. ASSUME faults' = 0 PROVE Fresh(k)'
      <4>1. Fresh(k) /\ Held(k) \in Nat
        BY <1>1, <1>2, <3>6, FiledIs, HeldIsNat
      <4>2. Held(k)' = Held(k)
        <5>1. Len(<<>>) = 0 /\ Held(k)' = Len(files'[k][0]) + Len(stream'[k].buffer)
          BY DEF Held
        <5> QED
          BY <3>2, <3>4, <4>1, <5>1
      <4>3. Full(files'[k], Gap(k)')
        <5>1. \A i \in 1 .. max_files : files'[k][i] = files[k][i]
          BY <3>4, IndexIs
        <5>2. \A i \in 1 .. max_files : \A j \in 1 .. i - 1 : files'[k][j] = files[k][j]
          BY <5>1, IndexIs
        <5>3. Full(files[k], Gap(k))
          BY <4>1 DEF Fresh
        <5> QED
          BY <3>3, <5>1, <5>2, <5>3 DEF Full
      <4>4. Turns(k) => ~stream[k].open
        BY DEF Turns, SinkInv, Rotating
      <4> QED
        BY <1>1, <3>1, <3>2, <3>3, <3>4, <4>1, <4>2, <4>3, <4>4 DEF Fresh
    <3> QED
      BY <3>4, <3>5, <3>6
  <2> QED
    BY <2>1, <2>2
<1>4. Stored'
  BY <1>1, <1>3 DEF Stored, In
<1> QED
  BY <1>3, <1>4

LEMMA CloseAllMoves ==
  ASSUME SinkInv, Stored, CloseAll, In("no_sink")
  PROVE  Stored' /\ \A k \in Logs : Log!Step(k)
<1>1. /\ files' = [k \in Logs |-> Written(k)[k]] /\ stream' = [k \in Logs |-> Closed]
      /\ UNCHANGED <<exists, current_size_, line, at, faults>>
  BY DEF CloseAll
<1>2. SinkInv' /\ SinkTypes
  BY CloseAllKeeps DEF SinkInv
<1>3. ASSUME NEW k \in Logs PROVE Stocked(k)' /\ (faults' = 0 => Fresh(k)') /\ Log!Step(k)
  <2>1. files'[k] = Written(k)[k] /\ stream'[k] = Closed /\ stream'[k].buffer = <<>> /\ ~stream'[k].open
        /\ exists'[k] = exists[k] /\ line'[k] = line[k] /\ current_size_'[k] = current_size_[k]
    BY <1>1, OpenedIs
  <2>2. Gap(k) = max_files + 1 /\ ~Turns(k) /\ Gap(k)' = max_files + 1 /\ ~Turns(k)'
    BY <1>1 DEF Gap, Turns, In
  <2>3. /\ Filed(files'[k], exists'[k], Gap(k)) /\ Log!Step(k)
        /\ \A i \in Index \ {0} : files'[k][i] = files[k][i]
    BY <1>1, <1>2, <2>1, OutMoves
  <2>4. Stocked(k)'
    BY <2>1, <2>2, <2>3 DEF Stocked
  <2>5. ASSUME faults' = 0 PROVE Fresh(k)'
    <3>1. Fresh(k)
      BY <1>1, <2>5, FiledIs
    <3>2. Full(files'[k], Gap(k)')
      <4>1. \A i \in 1 .. max_files : files'[k][i] = files[k][i]
        BY <2>3, IndexIs
      <4>2. \A i \in 1 .. max_files : \A j \in 1 .. i - 1 : files'[k][j] = files[k][j]
        BY <4>1, IndexIs
      <4>3. Full(files[k], Gap(k))
        BY <3>1 DEF Fresh
      <4> QED
        BY <2>2, <4>1, <4>2, <4>3 DEF Full
    <3> QED
      BY <2>1, <2>2, <3>1, <3>2 DEF Fresh
  <2> QED
    BY <2>3, <2>4, <2>5
<1>4. Stored'
  BY <1>1, <1>3 DEF Stored, In
<1> QED
  BY <1>3, <1>4

LEMMA DieMoves ==
  ASSUME SinkInv, Stored, Die
  PROVE  Stored' /\ \A k \in Logs : Log!Step(k)
<1>1. /\ stream' = [k \in Logs |-> Closed] /\ at' = Free /\ faults' = faults + 1
      /\ UNCHANGED <<files, exists, current_size_, line>> /\ faults \in Nat
  BY DEF Die, Fault, Stored
<1>2. SinkInv'
  BY DieKeeps
<1>3. faults' \in Nat /\ faults' # 0
  BY <1>1
<1>4. ASSUME NEW k \in Logs PROVE Stocked(k)' /\ Log!Step(k)
  <2>1. ~stream'[k].open /\ stream'[k].buffer = <<>> /\ Gap(k)' = max_files + 1
    BY <1>1, OpenedIs DEF Gap, In, Free
  <2>2. Stocked(k)'
    <3>1. Filed(files[k], exists[k], Gap(k))
      BY FiledIs
    <3>2. Filed(files[k], exists[k], max_files + 1)
      BY <3>1, IndexIs DEF Filed
    <3> QED
      BY <1>1, <2>1, <3>2 DEF Stocked
  <2>3. PICK q, q1, b, b1 : Log1(k, q, q1, b, b1)
    BY <1>2, Log1Exists
  <2>4. Crashes(k, q, q1, b, b1)
    BY <1>1, <2>1, <2>3 DEF Crashes, Log1
  <2> QED
    BY <2>2, <2>4, ToCrash
<1> QED
  BY <1>3, <1>4 DEF Stored

\* In a rotation: the log is closed, and the place that is free is the one it is at.
LEMMA Rotated ==
  ASSUME SinkInv, Stored, In("rotate") \/ In("retry"), NEW l, l = at.log
  PROVE  /\ l \in Logs /\ at.i \in Index /\ ~stream[l].open /\ stream[l].buffer = <<>> /\ stream[l].buffer \in Seq(Nat)
         /\ files[l] \in [Index -> Seq(Nat)] /\ exists[l] \subseteq Index /\ Filed(files[l], exists[l], Gap(l))
         /\ at.i > 0 => at.i \in Index \ {0} /\ NextFree(Gap(l), at.i)
         /\ In("retry") \/ at.i = 0 => Gap(l) = at.i
         /\ line[l] \in Nat /\ SinkTypes
         /\ faults = 0 => /\ In("rotate") /\ Full(files[l], Gap(l))
                          /\ at.i > 0 => Len(files[l][0]) = max_size
<1>1. /\ l \in Logs /\ at.i \in Index /\ ~stream[l].open /\ stream[l].buffer = <<>> /\ SinkTypes
      /\ files[l] \in [Index -> Seq(Nat)]
  BY RotatingLog
<1>2. Filed(files[l], exists[l], Gap(l)) /\ exists[l] \subseteq Index /\ (faults = 0 => Fresh(l) /\ ~In("retry"))
  BY <1>1, FiledIs DEF Stored
<1>3. at.i > 0 => at.i \in Index \ {0} /\ NextFree(Gap(l), at.i)
  <2>1. PICK i : i = at.i
    OBVIOUS
  <2>2. i \in Index /\ (i < max_files \/ i = max_files)
    <3>1. i \in Index
      BY <1>1, <2>1, Zenon
    <3> QED
      BY <3>1, SinkAssumption DEF Index
  <2>3. Gap(l) = i \/ (Gap(l) = max_files + 1 /\ i = max_files)
    BY <2>1, <2>2, Zenon DEF Gap
  <2>4. i > 0 => i \in Index \ {0}
    BY <2>2
  <2> QED
    BY <2>1, <2>3, <2>4, Zenon DEF NextFree
<1>4. In("retry") \/ at.i = 0 => Gap(l) = at.i
  BY <1>1, IndexIs DEF Gap
<1>5. stream[l].buffer \in Seq(Nat) /\ line[l] \in Nat
  BY <1>1, SinkFacts
<1>6. ASSUME faults = 0
      PROVE  In("rotate") /\ Full(files[l], Gap(l)) /\ (at.i > 0 => Len(files[l][0]) = max_size)
  <2>1. Fresh(l) /\ In("rotate") /\ Turns(l)
    BY <1>2, <1>6 DEF Turns
  <2> QED
    BY <2>1 DEF Fresh
<1> QED
  BY <1>1, <1>2, <1>3, <1>4, <1>5, <1>6

\* The files of the log before and after a move.
LEMMA MoveIs ==
  ASSUME SinkInv, NEW l \in Logs, NEW i \in Index \ {0}, Moved(l, i),
         exists' = [exists EXCEPT ![l] = (exists[l] \ {i - 1}) \cup {i}]
  PROVE  /\ MovedUp(files[l], files'[l], i) /\ exists'[l] = (exists[l] \ {i - 1}) \cup {i}
         /\ \A k \in Logs \ {l} : files'[k] = files[k] /\ exists'[k] = exists[k]
<1>1. /\ files \in [Logs -> [Index -> Seq(Nat)]] /\ exists \in [Logs -> SUBSET Index]
      /\ files[l] \in [Index -> Seq(Nat)] /\ <<>> \in Seq(Nat) /\ i - 1 \in Index /\ i \in Index /\ i - 1 # i
  BY EmptySeq, IndexIs DEF SinkInv, SinkTypes
<1> DEFINE f == [files[l] EXCEPT ![i] = files[l][i - 1]]
           g == [f EXCEPT ![i - 1] = <<>>]
<1>2. files' = [files EXCEPT ![l] = g]
  BY <1>1 DEF Moved
<1>3. f \in [Index -> Seq(Nat)] /\ f[i] = files[l][i - 1] /\ \A j \in Index \ {i} : f[j] = files[l][j]
  BY <1>1
<1> HIDE DEF f
<1>4. g \in [Index -> Seq(Nat)] /\ g[i - 1] = <<>> /\ \A j \in Index \ {i - 1} : g[j] = f[j]
  BY <1>1, <1>3
<1> HIDE DEF g
<1>5. files'[l] = g /\ \A k \in Logs \ {l} : files'[k] = files[k]
  BY <1>1, <1>2
<1>6. MovedUp(files[l], g, i)
  BY <1>1, <1>3, <1>4 DEF MovedUp
<1> QED
  BY <1>1, <1>5, <1>6

\* The step a move is for the log.
LEMMA MoveSteps ==
  ASSUME SinkInv, SinkInv', Stored, NEW l, l = at.log, In("rotate") \/ In("retry"), at.i > 0,
         MovedUp(files[l], files'[l], at.i), stream' = stream, line' = line, faults' = faults
  PROVE  Log!Step(l)
<1>1. /\ l \in Logs /\ stream[l].buffer = <<>> /\ Filed(files[l], exists[l], Gap(l)) /\ NextFree(Gap(l), at.i)
      /\ faults = 0 => Full(files[l], Gap(l)) /\ Len(files[l][0]) = max_size
      /\ files[l] \in [Index -> Seq(Nat)]
  BY Rotated
<1>2. PICK k, k1, b, b1 : Log1(l, k, k1, b, b1)
  BY <1>1, Log1Exists
<1>3. PICK f, g, i, h : f = files[l] /\ g = files'[l] /\ i = at.i /\ h = Gap(l)
  OBVIOUS
<1>4. /\ h = i => Laid(f) = Laid(g)
      /\ h # i => i = max_files /\ Laid(f) = f[max_files] \o Laid(g)
  <2>1. PICK e : e = exists[l]
    OBVIOUS
  <2>2. Filed(f, e, h) /\ MovedUp(f, g, i) /\ NextFree(h, i)
    BY <1>1, <1>3, <2>1, Zenon
  <2> QED
    BY <2>2, MovedLines, Zenon
<1>5. k = Laid(f) /\ k1 = Laid(g) /\ b = <<>> /\ b1 = <<>> /\ k \in Seq(Nat) /\ k1 \in Seq(Nat) /\ <<>> \in Seq(Nat)
  BY <1>1, <1>2, <1>3, EmptySeq DEF Log1
<1>6. \A s \in Seq(Nat) : s \o <<>> = s /\ <<>> \o s = s
  BY ConcatEmptySeq
<1>7. CASE k = k1
  <2>1. Persists(l, k, k1, b, b1, <<>>)
    BY <1>2, <1>5, <1>6, <1>7 DEF Persists
  <2> QED
    BY <2>1, ToPersist
<1>8. CASE k # k1
  <2>1. PICK x : x = f[max_files]
    OBVIOUS
  <2>2. h # i /\ i = max_files /\ k = x \o k1 /\ x \in Seq(Nat)
    BY <1>1, <1>3, <1>4, <1>5, <1>8, <2>1, IndexIs
  <2>3. x # <<>>
    BY <1>5, <1>6, <1>8, <2>2
  <2>4. ASSUME faults = 0 PROVE Len(k1) >= max_files * max_size
    <3>1. Full(f, h) /\ Len(f[0]) = max_size /\ h = max_files + 1
      BY <1>1, <1>3, <2>2, <2>4 DEF NextFree
    <3>2. f \in [Index -> Seq(Nat)] /\ g \in [Index -> Seq(Nat)] /\ f[max_files] # <<>>
          /\ Laid(f) = f[max_files] \o Laid(g)
      BY <1>3, <1>4, <2>1, <2>2, <2>3 DEF MovedUp
    <3>3. Len(Laid(g)) >= max_files * max_size
      BY <3>1, <3>2, EnoughIsLeft
    <3> QED
      BY <1>5, <3>3
  <2>5. Expires(l, k, k1, b, b1, x)
    BY <1>2, <1>5, <2>2, <2>3, <2>4 DEF Expires
  <2> QED
    BY <2>5, ToExpire
<1> QED
  BY <1>7, <1>8

LEMMA BelowLast == \A i \in Index \ {0} : i - 1 < max_files
BY SinkAssumption DEF Index

LEMMA ShiftMoves ==
  ASSUME SinkInv, Stored, Shift
  PROVE  Stored' /\ \A k \in Logs : Log!Step(k)
<1>1. PICK l : l = at.log
  OBVIOUS
<1>2. /\ In("rotate") /\ at.i > 0 /\ UNCHANGED <<stream, current_size_, line, faults>>
      /\ at'.in = "rotate" /\ at'.log = l /\ at'.i = at.i - 1
      /\ l \in Logs /\ ~stream[l].open /\ at.i \in Index \ {0} /\ NextFree(Gap(l), at.i)
      /\ Filed(files[l], exists[l], Gap(l)) /\ Counts
      /\ faults = 0 => Full(files[l], Gap(l)) /\ Len(files[l][0]) = max_size
  <2>1. In("rotate") /\ at.i > 0 /\ UNCHANGED <<stream, current_size_, line, faults>> /\ Goes("rotate", at.i - 1)
    BY DEF Shift
  <2>2. /\ l \in Logs /\ ~stream[l].open /\ at.i \in Index \ {0} /\ NextFree(Gap(l), at.i) /\ SinkTypes
        /\ Filed(files[l], exists[l], Gap(l))
        /\ faults = 0 => Full(files[l], Gap(l)) /\ Len(files[l][0]) = max_size
    BY <1>1, <2>1, Rotated
  <2>3. at'.in = "rotate" /\ at'.log = l /\ at'.i = at.i - 1
    BY <1>1, <2>1, <2>2 DEF Goes, SinkTypes
  <2>4. Counts
    BY <2>1 DEF Stored, Counts
  <2> QED
    BY <2>1, <2>2, <2>3, <2>4
<1>3. SinkInv'
  BY ShiftKeeps
<1>4. Gap(l)' = at.i - 1 /\ Turns(l)' /\ ~In("retry")'
  <2>1. at.i - 1 < max_files
    BY <1>2, BelowLast
  <2> QED
    BY <1>2, <2>1 DEF Gap, Turns, In
<1>5. /\ Log!Step(l) /\ Filed(files'[l], exists'[l], at.i - 1)
      /\ \A k \in Logs \ {l} : files'[k] = files[k] /\ exists'[k] = exists[k]
      /\ faults = 0 => Full(files'[l], at.i - 1) /\ (at.i - 1 > 0 => Len(files'[l][0]) = max_size)
  <2>1. CASE at.i - 1 \in exists[at.log]
    <3>1. Moved(l, at.i) /\ exists' = [exists EXCEPT ![l] = (exists[l] \ {at.i - 1}) \cup {at.i}]
      BY <1>1, <2>1 DEF Shift
    <3>2. /\ MovedUp(files[l], files'[l], at.i) /\ exists'[l] = (exists[l] \ {at.i - 1}) \cup {at.i}
          /\ \A k \in Logs \ {l} : files'[k] = files[k] /\ exists'[k] = exists[k]
      BY <1>2, <3>1, MoveIs
    <3>3. Log!Step(l)
      BY <1>1, <1>2, <1>3, <3>2, MoveSteps
    <3>4. Filed(files'[l], exists'[l], at.i - 1)
      BY <1>2, <3>2, MovedFiled
    <3>5. ASSUME faults = 0 PROVE Full(files'[l], at.i - 1) /\ (at.i - 1 > 0 => Len(files'[l][0]) = max_size)
      BY <1>2, <3>2, <3>5, MovedFull
    <3> QED
      BY <3>2, <3>3, <3>4, <3>5
  <2>2. CASE at.i - 1 \notin exists[at.log]
    <3>1. UNCHANGED <<files, exists>>
      BY <2>2 DEF Shift
    <3>2. Log!Step(l)
      BY <1>2, <1>3, <3>1, StillStands
    <3>3. Filed(files[l], exists[l], at.i - 1) /\ files[l][at.i - 1] = <<>>
      <4>1. PICK i, f, e, h : i = at.i /\ f = files[l] /\ e = exists[l] /\ h = Gap(l)
        OBVIOUS
      <4>2. Filed(f, e, h) /\ i \in Index \ {0} /\ i - 1 \notin e
        BY <1>1, <1>2, <2>2, <4>1, Zenon
      <4>3. Filed(f, e, i - 1) /\ f[i - 1] = <<>>
        BY <4>2, SkippedFiled
      <4> QED
        BY <4>1, <4>3, Zenon
    <3>4. faults = 0 => Full(files[l], at.i - 1)
      BY <1>2, <3>3, SkippedFull
    <3> QED
      BY <1>2, <3>1, <3>2, <3>3, <3>4
  <2> QED
    BY <2>1, <2>2
<1>6. Stocked(l)'
  BY <1>2, <1>4, <1>5 DEF Stocked
<1>7. faults' = 0 => Fresh(l)'
  BY <1>2, <1>4, <1>5 DEF Fresh
<1>8. \A k \in Logs \ {l} : Untouched(k)
  BY <1>2, <1>5 DEF Untouched
<1> QED
  BY <1>1, <1>2, <1>3, <1>4, <1>5, <1>6, <1>7, <1>8, OneLogMoves

LEMMA RetriedMoves ==
  ASSUME SinkInv, Stored, Retried
  PROVE  Stored' /\ \A k \in Logs : Log!Step(k)
<1>1. PICK l : l = at.log
  OBVIOUS
<1>2. /\ In("retry") /\ at.i > 0 /\ UNCHANGED <<stream, current_size_, line, faults>>
      /\ at'.in = "rotate" /\ at'.log = l /\ at'.i = at.i - 1
      /\ l \in Logs /\ ~stream[l].open /\ at.i \in Index \ {0} /\ NextFree(Gap(l), at.i)
      /\ Filed(files[l], exists[l], Gap(l)) /\ Counts /\ faults # 0
  <2>1. In("retry") /\ at.i > 0 /\ UNCHANGED <<stream, current_size_, line, faults>> /\ Goes("rotate", at.i - 1)
    BY DEF Retried, SinkInv, SinkTypes
  <2>2. /\ l \in Logs /\ ~stream[l].open /\ at.i \in Index \ {0} /\ NextFree(Gap(l), at.i) /\ SinkTypes
        /\ Filed(files[l], exists[l], Gap(l))
    BY <1>1, <2>1, Rotated
  <2>3. at'.in = "rotate" /\ at'.log = l /\ at'.i = at.i - 1
    BY <1>1, <2>1, <2>2 DEF Goes, SinkTypes
  <2>4. Counts /\ faults # 0
    BY <2>1 DEF Stored, Counts
  <2> QED
    BY <2>1, <2>2, <2>3, <2>4
<1>3. SinkInv'
  BY RetriedKeeps
<1>4. Gap(l)' = at.i - 1 /\ ~In("retry")'
  <2>1. at.i - 1 < max_files
    BY <1>2, BelowLast
  <2> QED
    BY <1>2, <2>1 DEF Gap, In
<1>5. Moved(l, at.i) /\ exists' = [exists EXCEPT ![l] = (exists[l] \ {at.i - 1}) \cup {at.i}]
  BY <1>1 DEF Retried
<1>6. /\ MovedUp(files[l], files'[l], at.i) /\ exists'[l] = (exists[l] \ {at.i - 1}) \cup {at.i}
      /\ \A k \in Logs \ {l} : files'[k] = files[k] /\ exists'[k] = exists[k]
  BY <1>2, <1>5, MoveIs
<1>7. Log!Step(l)
  BY <1>1, <1>2, <1>3, <1>6, MoveSteps
<1>8. Filed(files'[l], exists'[l], at.i - 1)
  BY <1>2, <1>6, MovedFiled
<1>9. Stocked(l)'
  BY <1>2, <1>4, <1>8 DEF Stocked
<1>10. \A k \in Logs \ {l} : Untouched(k)
  BY <1>2, <1>6 DEF Untouched
<1> QED
  BY <1>1, <1>2, <1>3, <1>4, <1>7, <1>9, <1>10, OneLogMoves

\* The log fails at its file, and the line may be lost; outside of a rotation then,
\* or waiting for a second try.
LEMMA FailMoves ==
  ASSUME SinkInv, SinkInv', Stored, NEW l \in Logs, at.log = l, at'.log = l \/ In("no_sink")',
         faults' = faults + 1, Stocked(l)', Log!Step(l), \A k \in Logs \ {l} : Untouched(k)
  PROVE  Stored' /\ \A k \in Logs : Log!Step(k)
<1>1. Counts /\ faults' # 0
  BY DEF Stored, Counts
<1> QED
  BY <1>1, OneLogMoves

LEMMA RenameFailsMoves ==
  ASSUME SinkInv, Stored, RenameFails
  PROVE  Stored' /\ \A k \in Logs : Log!Step(k)
<1>1. PICK l : l = at.log
  OBVIOUS
<1>2. /\ In("rotate") /\ at.i > 0 /\ UNCHANGED <<stream, current_size_, line>> /\ faults' = faults + 1
      /\ at'.in = "retry" /\ at'.log = l /\ at'.i = at.i
      /\ l \in Logs /\ ~stream[l].open /\ at.i \in Index \ {0} /\ NextFree(Gap(l), at.i)
      /\ stream[l].buffer = <<>>
      /\ Filed(files[l], exists[l], Gap(l)) /\ files[l] \in [Index -> Seq(Nat)] /\ SinkTypes
  <2>1. In("rotate") /\ at.i > 0 /\ UNCHANGED <<stream, current_size_, line>> /\ Goes("retry", at.i)
        /\ faults' = faults + 1
    BY DEF RenameFails, Fault
  <2>2. /\ l \in Logs /\ ~stream[l].open /\ at.i \in Index \ {0} /\ NextFree(Gap(l), at.i) /\ SinkTypes
        /\ Filed(files[l], exists[l], Gap(l)) /\ files[l] \in [Index -> Seq(Nat)] /\ stream[l].buffer = <<>>
    BY <1>1, <2>1, Rotated
  <2>3. at'.in = "retry" /\ at'.log = l /\ at'.i = at.i
    BY <1>1, <2>1, <2>2 DEF Goes, SinkTypes
  <2> QED
    BY <2>1, <2>2, <2>3
<1>3. SinkInv'
  BY RenameFailsKeeps
<1>4. Gap(l)' = at.i
  BY <1>2 DEF Gap, In
<1>5. PICK i, f, g : i = at.i /\ f = files[l] /\ g = files'[l]
  OBVIOUS
<1>6. /\ f \in [Index -> Seq(Nat)] /\ g \in [Index -> Seq(Nat)] /\ i \in Index \ {0}
      /\ g[i] = <<>> /\ \A j \in Index \ {i} : f[j] = g[j]
      /\ exists'[l] = exists[l] \ {i} /\ \A k \in Logs \ {l} : Untouched(k)
  <2>1. <<>> \in Seq(Nat) /\ i \in Index \ {0} /\ f \in [Index -> Seq(Nat)]
    BY <1>2, <1>5, EmptySeq
  <2>2. files' = [files EXCEPT ![l] = [f EXCEPT ![i] = <<>>]] /\ exists' = [exists EXCEPT ![l] = exists[l] \ {i}]
    BY <1>1, <1>2, <1>5 DEF RenameFails, SinkTypes
  <2>3. files'[l] = [f EXCEPT ![i] = <<>>] /\ exists'[l] = exists[l] \ {i} /\ \A k \in Logs \ {l} : Untouched(k)
    BY <1>2, <2>2 DEF SinkTypes, Untouched
  <2> QED
    BY <1>5, <2>1, <2>3
<1>7. Stocked(l)'
  <2>1. ASSUME NEW j \in Index, j \notin exists'[l] \/ j = i PROVE j \notin exists'[l] /\ g[j] = <<>>
    BY <1>2, <1>5, <1>6, <2>1 DEF Filed
  <2>2. Filed(g, exists'[l], i)
    BY <1>2, <1>6, <2>1, IndexIs DEF Filed
  <2> QED
    BY <1>2, <1>4, <1>5, <2>2 DEF Stocked
<1>8. Log!Step(l)
  <2>1. PICK k, k1, b, b1 : Log1(l, k, k1, b, b1)
    BY <1>2, <1>3, Log1Exists
  <2>2. PICK x \in Seq(Nat) : Laid(f) = x \o Laid(g)
    <3>1. CASE f[i] = <<>>
      <4>1. f = g
        BY <1>6, <3>1
      <4>2. <<>> \in Seq(Nat) /\ Laid(f) = <<>> \o Laid(g)
        BY <1>6, <4>1, LaidIsSeq, ConcatEmptySeq, EmptySeq
      <4> QED
        BY <4>2
    <3>2. CASE f[i] # <<>>
      <4>1. i = max_files
        <5>1. Gap(l) # i
          BY <1>2, <1>5, <1>6, <3>2 DEF Filed
        <5> QED
          BY <1>2, <1>5, <5>1 DEF NextFree
      <4>2. Laid(f) = f[max_files] \o Laid(g)
        BY <1>6, <4>1, OldestDiffers
      <4> QED
        BY <1>6, <4>1, <4>2
    <3> QED
      BY <3>1, <3>2
  <2>3. k = x \o k1 /\ b1 = b /\ k1 \in Seq(Nat) /\ <<>> \in Seq(Nat) /\ x \o k1 \in Seq(Nat)
    BY <1>2, <1>5, <2>1, <2>2, EmptySeq, ConcatProperties DEF Log1
  <2>4. k = (x \o k1) \o <<>>
    BY <2>3, ConcatEmptySeq
  <2>5. Fails(l, k, k1, b, b1, x, <<>>)
    BY <1>2, <2>1, <2>2, <2>3, <2>4 DEF Fails
  <2> QED
    BY <2>5, ToFail
<1> QED
  BY <1>1, <1>2, <1>3, <1>6, <1>7, <1>8, FailMoves

\* The newest file starts anew.
Emptied(l) ==
  /\ stream'[l].buffer = <<>> /\ stream'[l].open
  /\ files'[l] \in [Index -> Seq(Nat)] /\ files'[l][0] = <<>>
  /\ \A i \in Index \ {0} : files'[l][i] = files[l][i]
  /\ \A k \in Logs \ {l} : files'[k] = files[k] /\ exists'[k] = exists[k] /\ stream'[k] = stream[k]

LEMMA Truncated ==
  ASSUME SinkInv, Stored, In("rotate") \/ In("retry"), NEW l, l = at.log, Open(l, TRUE),
         ~(In("rotate") \/ In("retry"))'
  PROVE  Stocked(l)' /\ Emptied(l)
<1>1. /\ l \in Logs /\ files[l] \in [Index -> Seq(Nat)] /\ SinkTypes /\ Filed(files[l], exists[l], Gap(l))
      /\ 0 \in Index
  BY Rotated, IndexIs
<1>2. /\ files' = [files EXCEPT ![l] = [files[l] EXCEPT ![0] = <<>>]] /\ <<>> \in Seq(Nat)
      /\ stream' = [stream EXCEPT ![l] = Opened] /\ exists' = [exists EXCEPT ![l] = exists[l] \cup {0}]
  BY <1>1, EmptySeq DEF Open, SinkTypes
<1>3. PICK g : g = [files[l] EXCEPT ![0] = <<>>]
  OBVIOUS
<1>4. g \in [Index -> Seq(Nat)] /\ g[0] = <<>> /\ \A i \in Index \ {0} : g[i] = files[l][i]
  BY <1>1, <1>2, <1>3
<1>5. /\ files'[l] = g /\ stream'[l] = Opened /\ exists'[l] = exists[l] \cup {0}
      /\ \A k \in Logs \ {l} : files'[k] = files[k] /\ exists'[k] = exists[k] /\ stream'[k] = stream[k]
  BY <1>1, <1>2, <1>3 DEF SinkTypes
<1>6. stream'[l].open /\ stream'[l].buffer = <<>>
  BY <1>5, OpenedIs
<1>7. Gap(l)' = max_files + 1
  BY DEF Gap, In
<1>8. ASSUME NEW j \in Index, j \notin exists'[l] \/ j = max_files + 1 PROVE j \notin exists'[l] /\ g[j] = <<>>
  <2>1. j # 0 /\ j \notin exists[l] /\ j \notin exists'[l]
    BY <1>5, <1>8, IndexIs
  <2> QED
    BY <1>1, <1>4, <2>1 DEF Filed
<1>9. Filed(g, exists'[l], max_files + 1)
  BY <1>1, <1>4, <1>5, <1>8, IndexIs DEF Filed
<1>10. Stocked(l)'
  BY <1>5, <1>6, <1>7, <1>9 DEF Stocked
<1> QED
  BY <1>4, <1>5, <1>6, <1>10 DEF Emptied

LEMMA RetryFailsMoves ==
  ASSUME SinkInv, Stored, RetryFails
  PROVE  Stored' /\ \A k \in Logs : Log!Step(k)
<1>1. PICK l : l = at.log
  OBVIOUS
<1>2. /\ In("retry") /\ faults' = faults + 1 /\ at' = Free /\ line' = [line EXCEPT ![l] = line[l] + 1]
      /\ Open(l, TRUE) /\ current_size_' = [current_size_ EXCEPT ![l] = 0]
  BY <1>1 DEF RetryFails, Fault, Thrown
<1>3. SinkInv'
  BY SinkItKeeps DEF SinkIt
<1>4. /\ l \in Logs /\ stream[l].buffer = <<>> /\ files[l] \in [Index -> Seq(Nat)] /\ SinkTypes
      /\ line[l] \in Nat
  BY <1>1, <1>2, Rotated
<1>5. ~(In("rotate") \/ In("retry"))' /\ In("no_sink")'
  BY <1>2 DEF Free, In
<1>6. /\ Stocked(l)' /\ stream'[l].buffer = <<>>
      /\ files'[l] \in [Index -> Seq(Nat)] /\ files'[l][0] = <<>>
      /\ \A i \in Index \ {0} : files'[l][i] = files[l][i]
      /\ \A k \in Logs \ {l} : files'[k] = files[k] /\ exists'[k] = exists[k] /\ stream'[k] = stream[k]
  <2>1. In("rotate") \/ In("retry")
    BY <1>2, Zenon
  <2>2. Stocked(l)' /\ Emptied(l)
    BY <1>1, <1>2, <1>5, <2>1, Truncated, Zenon
  <2> QED
    BY <2>2 DEF Emptied
<1>7. line'[l] = line[l] + 1 /\ \A k \in Logs \ {l} : Untouched(k)
  BY <1>2, <1>4, <1>6 DEF SinkTypes, Untouched
<1>8. Log!Step(l)
  <2>1. PICK k, k1, b, b1 : Log1(l, k, k1, b, b1)
    BY <1>3, <1>4, Log1Exists
  <2>2. PICK p \in Seq(Nat) : Laid(files[l]) = p \o files[l][0] /\ Laid(files'[l]) = p \o files'[l][0]
    BY <1>4, <1>6, NewestDiffers
  <2>3. PICK y : y = files[l][0]
    OBVIOUS
  <2>4. k = p \o y /\ k1 = p \o <<>> /\ b1 = b /\ y \in Seq(Nat) /\ <<>> \in Seq(Nat)
    BY <1>4, <1>6, <2>1, <2>2, <2>3, EmptySeq, IndexIs DEF Log1
  <2>5. k1 = p /\ <<>> \o p = p
    BY <2>2, <2>4, ConcatEmptySeq
  <2>6. Fails(l, k, k1, b, b1, <<>>, y)
    BY <1>2, <1>7, <2>1, <2>4, <2>5 DEF Fails
  <2> QED
    BY <2>6, ToFail
<1> QED
  BY <1>1, <1>2, <1>3, <1>4, <1>5, <1>6, <1>7, <1>8, FailMoves

LEMMA ReopenMoves ==
  ASSUME SinkInv, Stored, Reopen
  PROVE  Stored' /\ \A k \in Logs : Log!Step(k)
<1>1. PICK l : l = at.log
  OBVIOUS
<1>2. /\ In("rotate") /\ at.i = 0 /\ UNCHANGED <<line, faults>> /\ Goes("write", 0)
      /\ Open(l, TRUE) /\ current_size_' = [current_size_ EXCEPT ![l] = 1]
  BY <1>1 DEF Reopen
<1>3. SinkInv'
  BY SinkItKeeps DEF SinkIt
<1>4. /\ l \in Logs /\ stream[l].buffer = <<>> /\ files[l] \in [Index -> Seq(Nat)] /\ SinkTypes
      /\ Filed(files[l], exists[l], Gap(l)) /\ Gap(l) = 0 /\ line[l] \in Nat
      /\ faults = 0 => Full(files[l], Gap(l))
  BY <1>1, <1>2, Rotated
<1>5. at'.in = "write" /\ at'.log = l
  BY <1>1, <1>2, <1>4 DEF Goes, SinkTypes
<1>6. ~(In("rotate") \/ In("retry"))' /\ Gap(l)' = max_files + 1 /\ ~Turns(l)' /\ Coming(l)' = 1
  BY <1>5 DEF In, Gap, Turns, Coming
<1>7. /\ Stocked(l)' /\ stream'[l].buffer = <<>> /\ stream'[l].open
      /\ files'[l] \in [Index -> Seq(Nat)] /\ files'[l][0] = <<>>
      /\ \A i \in Index \ {0} : files'[l][i] = files[l][i]
      /\ \A k \in Logs \ {l} : files'[k] = files[k] /\ exists'[k] = exists[k] /\ stream'[k] = stream[k]
  <2>1. In("rotate") \/ In("retry")
    BY <1>2, Zenon
  <2>2. Stocked(l)' /\ Emptied(l)
    BY <1>1, <1>2, <1>6, <2>1, Truncated, Zenon
  <2> QED
    BY <2>2 DEF Emptied
<1>8. current_size_'[l] = 1 /\ \A k \in Logs \ {l} : Untouched(k)
  BY <1>2, <1>4, <1>7 DEF SinkTypes, Untouched
<1>9. files'[l] = files[l]
  <2>1. files[l][0] = <<>>
    BY <1>4, IndexIs DEF Filed
  <2>2. PICK f, g : f = files[l] /\ g = files'[l]
    OBVIOUS
  <2>3. f \in [Index -> Seq(Nat)] /\ g \in [Index -> Seq(Nat)] /\ \A i \in Index : g[i] = f[i]
    BY <1>4, <1>7, <2>1, <2>2
  <2> QED
    BY <2>2, <2>3
<1>10. Counts
  BY <1>2 DEF Stored, Counts
<1>11. Log!Step(l)
  <2>1. PICK k, k1, b, b1 : Log1(l, k, k1, b, b1)
    BY <1>3, <1>4, Log1Exists
  <2>2. k1 = k /\ b = <<>> /\ b1 = <<>> /\ k \in Seq(Nat) /\ <<>> \in Seq(Nat)
    BY <1>4, <1>7, <1>9, <2>1, EmptySeq DEF Log1
  <2>3. k \o <<>> = k /\ <<>> \o <<>> = <<>>
    BY <2>2, ConcatEmptySeq
  <2>4. Persists(l, k, k1, b, b1, <<>>)
    BY <1>2, <2>1, <2>2, <2>3 DEF Persists
  <2> QED
    BY <2>4, ToPersist
<1>12. ASSUME faults' = 0 PROVE Fresh(l)'
  <2>1. Held(l)' = 0
    BY <1>7, IndexIs DEF Held
  <2>2. Full(files'[l], Gap(l)')
    <3>1. \A i \in 1 .. max_files : \A j \in 1 .. i - 1 : j # 0
      BY IndexIs
    <3>2. Full(files[l], 0)
      BY <1>2, <1>4, <1>12
    <3> QED
      BY <1>6, <1>9, <3>1, <3>2 DEF Full
  <2>3. current_size_'[l] <= max_size /\ current_size_'[l] = Held(l)' + Coming(l)'
    BY <1>6, <1>8, <2>1, IndexIs
  <2> QED
    BY <1>6, <2>2, <2>3 DEF Fresh
<1> QED
  BY <1>1, <1>3, <1>4, <1>5, <1>6, <1>7, <1>8, <1>10, <1>11, <1>12, OneLogMoves

\* The line is lost; the files and the stream are as they were.
LEMMA LostMoves ==
  ASSUME SinkInv, Stored, ~In("no_sink"), Fault, Thrown, UNCHANGED <<files, exists, stream, current_size_>>
  PROVE  Stored' /\ \A k \in Logs : Log!Step(k)
<1>1. PICK l \in Logs : l = at.log
  BY DEF SinkInv, SinkTypes
<1>2. SinkInv' /\ SinkTypes /\ faults' = faults + 1 /\ Counts
  BY LostKeeps DEF Fault, SinkInv, Stored, Counts
<1>3. line' = [line EXCEPT ![l] = line[l] + 1] /\ In("no_sink")' /\ Gap(l)' = max_files + 1
  BY <1>1 DEF Thrown, Free, In, Gap
<1>4. line'[l] = line[l] + 1 /\ \A k \in Logs \ {l} : Untouched(k)
  BY <1>2, <1>3 DEF SinkTypes, Untouched
<1>5. Log!Step(l)
  BY <1>2, <1>4, StillStands
<1>6. Stocked(l)'
  <2>1. Filed(files[l], exists[l], Gap(l)) /\ (stream[l].open => 0 \in exists[l])
    BY FiledIs
  <2>2. Filed(files[l], exists[l], max_files + 1)
    BY <2>1, IndexIs DEF Filed
  <2> QED
    BY <1>3, <2>1, <2>2 DEF Stocked
<1> QED
  BY <1>1, <1>2, <1>3, <1>4, <1>5, <1>6, FailMoves

LEMMA WriteMoves ==
  ASSUME SinkInv, Stored, Write
  PROVE  Stored' /\ \A k \in Logs : Log!Step(k)
<1>1. PICK l \in Logs : l = at.log
  BY DEF SinkInv, SinkTypes, Write, In
<1>2. PICK b : b = Append(stream[l].buffer, line[l] + 1)
  OBVIOUS
<1>3. /\ SinkInv' /\ SinkTypes /\ Counts /\ faults' = faults /\ stream[l].open
      /\ UNCHANGED <<exists, current_size_, faults>>
  BY <1>1, WriteKeeps DEF Write, SinkInv, NeverWritesToNull, Stored, Counts
<1>4. /\ files[l] \in [Index -> Seq(Nat)] /\ files[l][0] \in Seq(Nat) /\ line[l] \in Nat
      /\ stream[l] \in [open : BOOLEAN, buffer : Seq(Nat)] /\ stream[l].buffer \in Seq(Nat) /\ <<>> \in Seq(Nat)
      /\ Len(files[l][0]) \in Nat /\ Len(stream[l].buffer) \in Nat /\ 0 \in Index
  BY <1>3, SinkFacts, EmptySeq
<1>5. b \in Seq(Nat) /\ Len(b) = Len(stream[l].buffer) + 1
  <2>1. line[l] + 1 \in Nat
    BY <1>4
  <2> QED
    BY <1>2, <1>4, <2>1, AppendProperties
<1>6. line'[l] = line[l] + 1 /\ (\A k \in Logs \ {l} : line'[k] = line[k]) /\ at'.in = "no_sink"
  BY <1>1, <1>3 DEF Write, SinkTypes, Free
<1>7. /\ Gap(l) = max_files + 1 /\ Gap(l)' = max_files + 1 /\ ~Turns(l) /\ ~Turns(l)' /\ Coming(l) = 1
      /\ Coming(l)' = 0 /\ ~In("retry")' /\ In("no_sink")'
  BY <1>1, <1>6 DEF Write, Gap, Turns, Coming, In
<1>8. Filed(files[l], exists[l], Gap(l)) /\ 0 \in exists[l] /\ (faults = 0 => Fresh(l))
  BY <1>3, FiledIs
<1>9. PICK k, k1, c, c1 : Log1(l, k, k1, c, c1)
  BY <1>3, Log1Exists
<1>10. \/ /\ stream' = [stream EXCEPT ![l].buffer = b] /\ UNCHANGED files
       \/ /\ stream' = [stream EXCEPT ![l].buffer = <<>>]
          /\ files' = [files EXCEPT ![l] = [files[l] EXCEPT ![0] = files[l][0] \o b]]
  <2>1. line'[at.log] = line[l] + 1 /\ b = Append(stream[at.log].buffer, line'[at.log])
    BY <1>1, <1>2, <1>6
  <2> QED
    BY <1>1, <1>3, <2>1 DEF Write, SinkTypes
<1>11. CASE stream' = [stream EXCEPT ![l].buffer = b] /\ UNCHANGED files
  <2>1. /\ stream'[l].buffer = b /\ stream'[l].open /\ files'[l] = files[l]
        /\ \A j \in Logs \ {l} : Untouched(j)
    BY <1>3, <1>4, <1>6, <1>11 DEF SinkTypes, Untouched
  <2>2. Stocked(l)'
    BY <1>3, <1>7, <1>8, <2>1 DEF Stocked
  <2>3. ASSUME faults' = 0 PROVE Fresh(l)'
    <3>1. Fresh(l)
      BY <1>3, <1>8, <2>3
    <3>2. Held(l)' = Held(l) + 1 /\ Held(l) \in Nat
      <4>1. Held(l)' = Len(files[l][0]) + (Len(stream[l].buffer) + 1)
        BY <1>5, <2>1 DEF Held
      <4> QED
        BY <1>4, <4>1, Sums DEF Held
    <3> QED
      BY <1>3, <1>7, <2>1, <3>1, <3>2 DEF Fresh
  <2>4. k1 = k /\ k \in Seq(Nat) /\ c = stream[l].buffer /\ c1 = b
    BY <1>9, <2>1 DEF Log1
  <2>5. k \o <<>> = k /\ <<>> \o b = b
    BY <1>5, <2>4, ConcatEmptySeq
  <2>6. Writes(l, k, k1, c, c1, <<>>)
    BY <1>2, <1>3, <1>4, <1>6, <1>9, <2>4, <2>5 DEF Writes
  <2>7. Log!Step(l)
    BY <2>6, ToWrite
  <2> QED
    BY <1>1, <1>3, <1>7, <2>1, <2>2, <2>3, <2>7, OneLogMoves
<1>12. CASE stream' = [stream EXCEPT ![l].buffer = <<>>]
            /\ files' = [files EXCEPT ![l] = [files[l] EXCEPT ![0] = files[l][0] \o b]]
  <2>1. PICK g : g = [files[l] EXCEPT ![0] = files[l][0] \o b]
    OBVIOUS
  <2>2. /\ stream'[l].buffer = <<>> /\ stream'[l].open /\ files'[l] = g
        /\ \A j \in Logs \ {l} : Untouched(j)
    BY <1>3, <1>4, <1>6, <1>12, <2>1 DEF SinkTypes, Untouched
  <2>3. files[l][0] \o b \in Seq(Nat) /\ Len(files[l][0] \o b) = Len(files[l][0]) + Len(b)
    BY <1>4, <1>5, ConcatProperties
  <2>4. g \in [Index -> Seq(Nat)] /\ g[0] = files[l][0] \o b /\ \A i \in Index \ {0} : g[i] = files[l][i]
    BY <1>4, <2>1, <2>3
  <2>5. Stocked(l)'
    <3>1. ASSUME NEW i \in Index, i \notin exists[l] \/ i = max_files + 1 PROVE i \notin exists[l] /\ g[i] = <<>>
      BY <1>7, <1>8, <2>4, <3>1 DEF Filed
    <3>2. Filed(g, exists[l], max_files + 1)
      BY <1>7, <1>8, <2>4, <3>1 DEF Filed
    <3> QED
      BY <1>3, <1>7, <1>8, <2>2, <3>2 DEF Stocked
  <2>6. ASSUME faults' = 0 PROVE Fresh(l)'
    <3>1. Fresh(l)
      BY <1>3, <1>8, <2>6
    <3>2. Held(l)' = Held(l) + 1 /\ Held(l) \in Nat
      <4>1. Len(g[0]) = Len(files[l][0]) + (Len(stream[l].buffer) + 1)
        BY <1>5, <2>3, <2>4
      <4>2. Len(g[0]) = Held(l) + 1 /\ Held(l) \in Nat
        BY <1>4, <4>1, Sums DEF Held
      <4>3. Held(l)' = Len(g[0]) + Len(<<>>)
        BY <2>2 DEF Held
      <4> QED
        BY <4>2, <4>3, IndexIs
    <3>3. Full(g, max_files + 1)
      <4>1. \A i \in 1 .. max_files : g[i] = files[l][i]
        BY <2>4, IndexIs
      <4>2. \A i \in 1 .. max_files : \A j \in 1 .. i - 1 : g[j] = files[l][j]
        BY <4>1, IndexIs
      <4>3. Full(files[l], max_files + 1)
        BY <1>7, <3>1 DEF Fresh
      <4> QED
        BY <4>1, <4>2, <4>3 DEF Full
    <3> QED
      BY <1>3, <1>7, <2>2, <3>1, <3>2, <3>3 DEF Fresh
  <2>7. Log!Step(l)
    <3>1. PICK p \in Seq(Nat) : Laid(files[l]) = p \o files[l][0] /\ Laid(g) = p \o g[0]
      BY <1>4, <2>4, NewestDiffers
    <3>2. k = p \o files[l][0] /\ k1 = p \o (files[l][0] \o b) /\ c = stream[l].buffer /\ c1 = <<>>
      BY <1>9, <2>2, <2>4, <3>1 DEF Log1
    <3>3. (p \o files[l][0]) \o b = p \o (files[l][0] \o b)
      BY <1>4, <1>5, <3>1, Associative
    <3>4. k1 = k \o b /\ b \o c1 = b
      BY <1>5, <3>2, <3>3, ConcatEmptySeq
    <3>5. Writes(l, k, k1, c, c1, b)
      BY <1>2, <1>3, <1>4, <1>5, <1>6, <1>9, <3>2, <3>4 DEF Writes
    <3> QED
      BY <3>5, ToWrite
  <2> QED
    BY <1>1, <1>3, <1>7, <2>2, <2>5, <2>6, <2>7, OneLogMoves
<1> QED
  BY <1>10, <1>11, <1>12

LEMMA SinkItMoves == ASSUME SinkInv, Stored, SinkIt PROVE Stored' /\ \A k \in Logs : Log!Step(k)
<1>1. CASE OpenFails \/ WriteFails
  BY <1>1, LostMoves DEF OpenFails, WriteFails, In
<1> QED
  BY <1>1, ShiftMoves, RenameFailsMoves, RetriedMoves, RetryFailsMoves, ReopenMoves, WriteMoves DEF SinkIt

-----------------------------------------------------------------------------
(* A log that is open, or at a line, is one of the registry's or is closed by its end. *)

Used(l) == stream[l].open \/ (~In("no_sink") /\ at.log = l)
Owned == \A l \in Logs : Used(l) => run.up /\ (Known(todo, l) \/ Ending(todo))

LEMMA OwnedGoesOn ==
  ASSUME Owned, run'.up, \A k \in Logs : Used(k)' => Used(k) \/ Known(todo, k)',
         \A k \in Logs : Known(todo, k) \/ Ending(todo) => Known(todo, k)' \/ Ending(todo)'
  PROVE  Owned'
BY DEF Owned

LEMMA SameUsed == ASSUME UNCHANGED sink PROVE \A k \in Logs : Used(k)' => Used(k)
BY DEF sink, Used, In

LEMMA BeginUsed ==
  ASSUME SinkInv, NEW l \in Logs, Begin(l)
  PROVE  \A k \in Logs : Used(k)' => Used(k) \/ k = l
<1>1. at'.log = l /\ \A k \in Logs : k # l => stream'[k] = stream[k]
  BY DEF Begin, SinkInv, SinkTypes
<1> QED
  BY <1>1 DEF Used

LEMMA ConstructUsed ==
  ASSUME SinkInv, NEW l \in Logs, Construct(l)
  PROVE  \A k \in Logs : Used(k)' => Used(k) \/ k = l
<1>1. at' = at /\ \A k \in Logs : k # l => stream'[k] = stream[k]
  BY DEF Construct, Open, SinkInv, SinkTypes
<1> QED
  BY <1>1 DEF Used, In

LEMMA FlushUsed ==
  ASSUME SinkInv, NEW l \in Logs, Flush(l)
  PROVE  \A k \in Logs : Used(k)' => Used(k)
<1>1. at' = at
  BY DEF Flush
<1>2. ASSUME NEW k \in Logs PROVE stream'[k].open = stream[k].open
  <2>1. stream[k] \in [open : BOOLEAN, buffer : Seq(Nat)]
    BY DEF SinkInv, SinkTypes
  <2>2. stream'[k] = stream[k] \/ stream'[k] = [stream[k] EXCEPT !.buffer = <<>>]
    BY DEF Flush, Flushed
  <2> QED
    BY <2>1, <2>2
<1> QED
  BY <1>1, <1>2 DEF Used, In

LEMMA SinkItUsed ==
  ASSUME SinkInv, SinkIt
  PROVE  \A k \in Logs : Used(k)' => Used(k)
<1>1. PICK l \in Logs : l = at.log /\ ~In("no_sink")
  BY DEF SinkInv, SinkTypes, In, SinkIt, Shift, RenameFails, Retried, RetryFails, Reopen, OpenFails, Write, WriteFails
<1>2. /\ stream \in [Logs -> [open : BOOLEAN, buffer : Seq(Nat)]]
      /\ at \in [in : {"no_sink", "rotate", "retry", "write"}, log : Logs \cup {"none"}, i : Index]
  BY DEF SinkInv, SinkTypes
<1>3. at'.log = l \/ In("no_sink")'
  <2>1. ASSUME NEW place, NEW i, Goes(place, i) PROVE at'.log = l
    BY <1>1, <1>2, <2>1 DEF Goes
  <2>2. CASE Shift \/ RenameFails \/ Retried \/ Reopen
    BY <2>1, <2>2 DEF Shift, RenameFails, Retried, Reopen
  <2>3. CASE RetryFails \/ OpenFails \/ Write \/ WriteFails
    <3>1. at' = Free
      BY <2>3 DEF Thrown, RetryFails, OpenFails, Write, WriteFails
    <3> QED
      BY <3>1 DEF Free, In
  <2> QED
    BY <2>2, <2>3 DEF SinkIt
<1>4. \A k \in Logs : k # l => stream'[k] = stream[k]
  BY <1>1, <1>2 DEF Open, SinkIt, Shift, RenameFails, Retried, RetryFails, Reopen, OpenFails, Write, WriteFails
<1> QED
  BY <1>1, <1>3, <1>4 DEF Used, In

Steps == \A k \in Logs : Log!Step(k)

\* Nothing happens to the sinks, and a call is done, or others come before the rest.
LEMMA RegistryMoves ==
  ASSUME LogInv, Stored, Owned, UNCHANGED sink, run' = run, run.up,
         \A k \in Logs : Known(todo, k) \/ Ending(todo) => Known(todo, k)' \/ Ending(todo)'
  PROVE  Stored' /\ Owned' /\ Steps
<1>1. Stored' /\ Steps
  BY StandingLogs DEF LogInv, Steps
<1>2. Owned'
  BY SameUsed, OwnedGoesOn
<1> QED
  BY <1>1, <1>2

LEMMA SinkMoves == ASSUME LogInv, Stored, Owned, Sink PROVE Stored' /\ Owned' /\ Steps
<1>1. /\ run.up /\ In("no_sink") /\ todo # <<>> /\ todo[1].call = "sink" /\ Model = todo[1].model
      /\ SinkInv /\ Types /\ InOrder(todo) /\ CallInOrder(todo, 1)
  BY CallsIs DEF Sink
<1> DEFINE u == Setup(Model) \o Tail(todo)
<1>2. /\ todo' = u /\ UNCHANGED <<registry, flusher, run>>
      /\ IF Model \in loggers_ THEN ConstructAgain(Model) ELSE Construct(Model)
  BY DEF Sink
<1>3. PICK m \in Models : m = Model
  BY <1>1 DEF CallInOrder
<1>4. m \in Logs
  BY <1>1, Names
<1>5. u # <<>> /\ u[1].call = "register" /\ u[1].model = m
  BY <1>1, <1>3, SetupInOrder
<1>6. ~Ending(todo)
  BY <1>1, NotEnding DEF EndCalls, StopCalls
<1> HIDE DEF u
<1>7. /\ Known(todo, m)'
      /\ \A k \in Logs : Known(todo, k) \/ Ending(todo) => Known(todo, k)' \/ Ending(todo)'
  BY <1>1, <1>2, <1>5, <1>6 DEF Known, registry
<1>8. CASE m \in loggers_
  <2>1. ConstructAgain(m)
    BY <1>2, <1>3, <1>8
  <2>2. Stored' /\ Steps
    BY <1>1, <1>4, <2>1, AgainMoves DEF Steps
  <2>3. \A k \in Logs : Used(k)' => Used(k)
    BY <2>1 DEF ConstructAgain, Used, In
  <2> QED
    BY <1>1, <1>2, <1>7, <2>2, <2>3, OwnedGoesOn
<1>9. CASE m \notin loggers_
  <2>1. Construct(m)
    BY <1>2, <1>3, <1>9
  <2>2. ~stream[m].open
    BY <1>1, <1>4, <1>6, <1>9 DEF Owned, Used, Known
  <2>3. Stored' /\ Steps
    BY <1>1, <1>4, <2>1, <2>2, ConstructMoves DEF Steps
  <2>4. \A k \in Logs : Used(k)' => Used(k) \/ k = m
    BY <1>1, <1>4, <2>1, ConstructUsed
  <2> QED
    BY <1>1, <1>2, <1>7, <2>3, <2>4, OwnedGoesOn
<1> QED
  BY <1>8, <1>9

\* The step goes on at the end of the program.
LEMMA EndKnown == ASSUME todo' = EndOfMain PROVE Ending(todo)'
BY LastIs

LEMMA SinkFailsMoves == ASSUME LogInv, Stored, Owned, SinkFails PROVE Stored' /\ Owned' /\ Steps
<1>1. /\ run.up /\ In("no_sink") /\ SinkInv
  BY CallsIs DEF SinkFails
<1>2. todo' = EndOfMain /\ UNCHANGED <<files, exists, stream, current_size_, line, at, run>> /\ faults' = faults + 1
  BY DEF SinkFails, Ends, EndOfMain, Fault
<1>3. SinkInv'
  BY SinkFailsKeeps DEF LogInv
<1>4. Counts /\ faults' # 0
  BY <1>2 DEF Stored, Counts
<1>5. Steps
  BY <1>1, <1>2, <1>3, <1>4, StillStands DEF Steps
<1>6. Stored'
  BY <1>2, <1>4 DEF Stored, Stocked, Gap, In, Counts
<1>7. \A k \in Logs : Used(k)' => Used(k)
  BY <1>2 DEF Used, In
<1>8. Owned'
  BY <1>1, <1>2, <1>7, EndKnown, OwnedGoesOn
<1> QED
  BY <1>5, <1>6, <1>8

LEMMA RegisterMoves == ASSUME LogInv, Stored, Owned, Register PROVE Stored' /\ Owned' /\ Steps
<1>1. run.up /\ todo # <<>> /\ todo[1].call = "register" /\ Model = todo[1].model /\ InOrder(todo)
  BY CallsIs DEF Register
<1>2. UNCHANGED <<sink, flusher, run>>
  BY DEF Register
<1>3. ~Ending(todo)
  BY <1>1, NotEnding DEF EndCalls, StopCalls
<1>4. \A k \in Logs : Known(todo, k) => k \in loggers_ \/ k = Model
  BY <1>1 DEF Known
<1>5. CASE Model \in loggers_
  <2>1. todo' = EndOfMain
    BY <1>5 DEF Register, Ends, EndOfMain
  <2> QED
    BY <1>1, <1>2, <2>1, EndKnown, RegistryMoves
<1>6. CASE Model \notin loggers_
  <2>1. loggers_' = loggers_ \cup {Model}
    BY <1>6 DEF Register
  <2>2. \A k \in Logs : Known(todo, k) \/ Ending(todo) => Known(todo, k)' \/ Ending(todo)'
    BY <1>3, <1>4, <2>1 DEF Known
  <2> QED
    BY <1>1, <1>2, <2>2, RegistryMoves
<1> QED
  BY <1>5, <1>6

LEMMA DefaultMoves == ASSUME LogInv, Stored, Owned, set_default_logger PROVE Stored' /\ Owned' /\ Steps
<1>1. /\ run.up /\ todo # <<>> /\ todo[1].call = "set_default" /\ Model = todo[1].model /\ InOrder(todo)
      /\ CallInOrder(todo, 1) /\ Types
  BY CallsIs DEF set_default_logger
<1>2. UNCHANGED <<sink, flusher, run>> /\ loggers_' = (loggers_ \ {default_logger_}) \cup {Model}
  BY DEF set_default_logger
<1>3. ~Ending(todo) /\ Model = "tlms"
  BY <1>1, NotEnding DEF EndCalls, StopCalls, CallInOrder
<1>4. default_logger_ \in {"console", "tlms", "none"}
  BY <1>1 DEF Types
<1>5. \A k \in Logs : k \in loggers_ => k \in loggers_'
  BY <1>1, <1>2, <1>3, <1>4, Names
<1>6. \A k \in Logs : Known(todo, k) \/ Ending(todo) => Known(todo, k)' \/ Ending(todo)'
  BY <1>1, <1>3, <1>5 DEF Known
<1> QED
  BY <1>1, <1>2, <1>6, RegistryMoves

LEMMA LineMoves == ASSUME LogInv, Stored, Owned, LogLine PROVE Stored' /\ Owned' /\ Steps
<1>1. /\ run.up /\ todo # <<>> /\ todo[1].call = "log" /\ Model = todo[1].model /\ InOrder(todo)
      /\ CallInOrder(todo, 1) /\ SinkInv /\ Types /\ Usable
  BY CallsIs DEF LogLine
<1>2. PICK m \in Models : m = Model
  BY <1>1 DEF CallInOrder
<1>3. /\ Begin(m) /\ UNCHANGED <<registry, flusher, run>> /\ m \in loggers_ /\ m \in Logs
  BY <1>1, <1>2, Names DEF LogLine
<1>4. Ready(m)
  BY <1>1, <1>3 DEF Usable, Known
<1>5. Stored' /\ Steps
  BY <1>1, <1>3, <1>4, BeginMoves DEF Steps
<1>6. ~Ending(todo)
  BY <1>1, NotEnding DEF EndCalls, StopCalls
<1>7. \A k \in Logs : Used(k)' => Used(k) \/ k = m
  BY <1>1, <1>3, BeginUsed
<1>8. /\ Known(todo, m)'
      /\ \A k \in Logs : Known(todo, k) \/ Ending(todo) => Known(todo, k)' \/ Ending(todo)'
  BY <1>1, <1>3, <1>6 DEF Known, registry
<1>9. Owned'
  BY <1>1, <1>3, <1>7, <1>8, OwnedGoesOn
<1> QED
  BY <1>5, <1>9

LEMMA LogDefaultMoves == ASSUME LogInv, Stored, Owned, LogDefault PROVE Stored' /\ Owned' /\ Steps
<1>1. /\ run.up /\ todo # <<>> /\ todo[1].call = "default" /\ InOrder(todo) /\ Registered
      /\ SinkInv /\ Types /\ Usable
  BY CallsIs DEF LogDefault
<1>2. UNCHANGED <<registry, flusher, run>>
  BY DEF LogDefault
<1>3. ~Ending(todo)
  BY <1>1, NotEnding DEF EndCalls, StopCalls
<1>4. default_logger_ \in {"console", "tlms"} /\ (default_logger_ = "tlms" => "tlms" \in loggers_)
  BY <1>1, <1>3 DEF Types, Registered
<1>5. \A k \in Logs : Known(todo, k) \/ Ending(todo) => Known(todo, k)' \/ Ending(todo)'
  BY <1>1, <1>2, <1>3 DEF Known, registry
<1>6. CASE default_logger_ = "console"
  BY <1>1, <1>2, <1>5, <1>6, RegistryMoves DEF LogDefault
<1>7. CASE default_logger_ = "tlms"
  <2>1. Begin("tlms") /\ "tlms" \in Logs
    BY <1>1, <1>7, Names DEF LogDefault
  <2>2. Ready("tlms") /\ Known(todo, "tlms")'
    BY <1>1, <1>2, <1>4, <1>7, <2>1 DEF Usable, Known, registry
  <2>3. Stored' /\ Steps
    BY <1>1, <2>1, <2>2, BeginMoves DEF Steps
  <2>4. \A k \in Logs : Used(k)' => Used(k) \/ k = "tlms"
    BY <1>1, <2>1, BeginUsed
  <2>5. Owned'
    BY <1>1, <1>2, <1>5, <2>2, <2>4, OwnedGoesOn
  <2> QED
    BY <2>3, <2>5
<1> QED
  BY <1>4, <1>6, <1>7

LEMMA RotationMoves == ASSUME LogInv, Stored, Owned, Rotation PROVE Stored' /\ Owned' /\ Steps
<1>1. run.up /\ SinkInv /\ SinkIt /\ UNCHANGED <<registry, flusher, todo, run>>
  BY DEF Rotation, Up, LogInv
<1>2. Stored' /\ Steps
  BY <1>1, SinkItMoves DEF Steps
<1>3. \A k \in Logs : Known(todo, k) \/ Ending(todo) => Known(todo, k)' \/ Ending(todo)'
  BY <1>1 DEF Known, registry
<1>4. Owned'
  BY <1>1, <1>3, SinkItUsed, OwnedGoesOn
<1> QED
  BY <1>2, <1>4

\* A call that is not the last one is done, others may come in its place.
LEMMA CallGoes ==
  ASSUME LogInv, Stored, Owned, run.up, todo # <<>>, todo[1].call \notin {"register", "destroy"},
         NEW s \in Seq(Call), s # <<>> => s[Len(s)].call # "destroy", todo' = s \o Tail(todo),
         UNCHANGED <<sink, loggers_, run>>
  PROVE  Stored' /\ Owned' /\ Steps
<1>1. Ending(todo)' <=> Ending(todo)
  BY PushEnds DEF LogInv
<1>2. \A k \in Logs : Known(todo, k) \/ Ending(todo) => Known(todo, k)' \/ Ending(todo)'
  BY <1>1 DEF Known
<1> QED
  BY <1>2, RegistryMoves

LEMMA StopsGoes ==
  ASSUME LogInv, Stored, Owned, run.up, todo # <<>>, todo[1].call \in {"flush_every", "stop_flusher"},
         todo' = Stops(periodic_flusher_) \o Tail(todo), UNCHANGED <<sink, loggers_, run>>
  PROVE  Stored' /\ Owned' /\ Steps
<1>1. PICK s : s = Stops(periodic_flusher_)
  OBVIOUS
<1>2. periodic_flusher_ \in 0 .. 2
  BY DEF LogInv, Types
<1>3. s \in Seq(Call) /\ (s # <<>> => s[Len(s)].call # "destroy")
  BY <1>1, <1>2, StopsIs
<1> QED
  BY <1>1, <1>3, CallGoes

LEMMA DoneGoes ==
  ASSUME LogInv, Stored, Owned, run.up, todo # <<>>, todo[1].call \in StopCalls,
         todo' = Tail(todo), UNCHANGED <<sink, loggers_, run>>
  PROVE  Stored' /\ Owned' /\ Steps
<1>1. <<>> \in Seq(Call) /\ Tail(todo) \in Seq(Call)
  BY CallFacts, EmptySeq DEF LogInv
<1>2. todo' = <<>> \o Tail(todo)
  BY <1>1, ConcatEmptySeq
<1> QED
  BY <1>1, <1>2, CallGoes DEF StopCalls

LEMMA CallsMove ==
  ASSUME LogInv, Stored, Owned, flush_every \/ StopFlusher \/ Deactivate \/ Join
  PROVE  Stored' /\ Owned' /\ Steps
<1>1. CASE flush_every
  <2>1. run.up /\ todo # <<>> /\ todo[1].call = "flush_every"
    BY <1>1, CallsIs DEF flush_every
  <2>2. todo' = Stops(periodic_flusher_) \o Tail(todo) /\ UNCHANGED <<sink, loggers_, run>>
    BY <1>1 DEF flush_every, registry
  <2> QED
    BY <2>1, <2>2, StopsGoes
<1>2. CASE StopFlusher
  <2>1. run.up /\ todo # <<>> /\ todo[1].call = "stop_flusher"
    BY <1>2, CallsIs DEF StopFlusher
  <2>2. todo' = Stops(periodic_flusher_) \o Tail(todo) /\ UNCHANGED <<sink, loggers_, run>>
    BY <1>2 DEF StopFlusher
  <2> QED
    BY <2>1, <2>2, StopsGoes
<1>3. CASE Deactivate
  <2>1. run.up /\ todo # <<>> /\ todo[1].call = "deactivate"
    BY <1>3, CallsIs DEF Deactivate
  <2>2. todo' = Tail(todo) /\ UNCHANGED <<sink, loggers_, run>>
    BY <1>3 DEF Deactivate, Done, registry
  <2> QED
    BY <2>1, <2>2, DoneGoes DEF StopCalls
<1>4. CASE Join
  <2>1. run.up /\ todo # <<>> /\ todo[1].call = "join"
    BY <1>4, CallsIs DEF Join
  <2>2. todo' = Tail(todo) /\ UNCHANGED <<sink, loggers_, run>>
    BY <1>4 DEF Join, Done, registry
  <2> QED
    BY <2>1, <2>2, DoneGoes DEF StopCalls
<1> QED
  BY <1>1, <1>2, <1>3, <1>4

LEMMA DestroyMoves == ASSUME LogInv, Stored, Owned, Destroy PROVE Stored' /\ Owned' /\ Steps
<1>1. SinkInv /\ In("no_sink") /\ CloseAll
  BY CallsIs DEF Destroy
<1>2. Stored' /\ Steps
  BY <1>1, CloseAllMoves DEF Steps
<1>3. \A k \in Logs : ~Used(k)'
  BY <1>1, OpenedIs DEF CloseAll, Used, In
<1> QED
  BY <1>2, <1>3 DEF Owned

LEMMA CrashMoves == ASSUME LogInv, Stored, Owned, Crash PROVE Stored' /\ Owned' /\ Steps
<1>1. SinkInv /\ Die
  BY DEF Crash, LogInv
<1>2. Stored' /\ Steps
  BY <1>1, DieMoves DEF Steps
<1>3. \A k \in Logs : ~Used(k)'
  BY <1>1, OpenedIs DEF Die, Free, Used, In
<1> QED
  BY <1>2, <1>3 DEF Owned

LEMMA StartMoves == ASSUME LogInv, Stored, Owned, Start PROVE Stored' /\ Owned' /\ Steps
<1>1. SinkInv /\ UNCHANGED sink /\ ~run.up
  BY DEF Start, LogInv
<1>2. Stored' /\ Steps
  BY <1>1, StandingLogs DEF Steps
<1>3. \A k \in Logs : ~Used(k)'
  BY <1>1, SameUsed DEF Owned
<1> QED
  BY <1>2, <1>3 DEF Owned

LEMMA IdleMoves ==
  ASSUME LogInv, Stored, Owned, Simulate \/ (\E word \in Words : Parse(word)) \/ Trace \/ Finish
  PROVE  Stored' /\ Owned' /\ Steps
<1>1. run.up /\ todo = <<>> /\ UNCHANGED <<sink, registry, flusher, run>>
  BY DEF Simulate, Parse, Trace, Finish, Simulated, Up
<1>2. \A k \in Logs : Known(todo, k) \/ Ending(todo) => Known(todo, k)'
  BY <1>1 DEF Known, Ending, registry
<1> QED
  BY <1>1, <1>2, RegistryMoves

LEMMA WorkerMoves ==
  ASSUME LogInv, Stored, Owned, NEW w \in Workers, Worker(w)
  PROVE  Stored' /\ Owned' /\ Steps
<1>1. /\ run.up /\ SinkInv /\ Types /\ UNCHANGED <<registry, todo, run>>
  BY DEF Worker, WorkerEnds, WorkerCalls, FlushAll, FlushOne, FlushAllEnds, Up, LogInv
<1>2. \A k \in Logs : Known(todo, k) \/ Ending(todo) => Known(todo, k)' \/ Ending(todo)'
  BY <1>1 DEF Known, registry
<1>3. CASE UNCHANGED sink
  BY <1>1, <1>2, <1>3, RegistryMoves
<1>4. CASE FlushOne(w)
  <2>1. PICK l \in worker[w].left : IF l = "console" THEN UNCHANGED sink ELSE Flush(l)
    BY <1>4 DEF FlushOne
  <2>2. CASE l = "console"
    BY <1>3, <2>1, <2>2
  <2>3. CASE l # "console"
    <3>1. l \in Logs /\ Flush(l)
      <4>1. worker[w] \in WorkerState
        BY <1>1 DEF Types
      <4>2. worker[w].left \subseteq Logs \cup {"console"}
        BY <4>1 DEF WorkerState
      <4> QED
        BY <2>1, <2>3, <4>2
    <3>2. Stored' /\ Steps
      BY <1>1, <3>1, FlushMoves DEF Steps
    <3>3. \A k \in Logs : Used(k)' => Used(k)
      BY <1>1, <3>1, FlushUsed
    <3>4. Owned'
      BY <1>1, <1>2, <3>3, OwnedGoesOn
    <3> QED
      BY <3>2, <3>4
  <2> QED
    BY <2>2, <2>3
<1>5. CASE ~FlushOne(w)
  <2>1. UNCHANGED sink
    BY <1>5 DEF Worker, WorkerEnds, WorkerCalls, FlushAll, FlushAllEnds
  <2> QED
    BY <1>3, <2>1
<1> QED
  BY <1>4, <1>5

LEMMA NextMoves == ASSUME LogInv, Stored, Owned, Next PROVE Stored' /\ Owned' /\ Steps
<1>1. CASE Simulation
  BY <1>1, SinkMoves, SinkFailsMoves, RegisterMoves, DefaultMoves, LineMoves, LogDefaultMoves, RotationMoves,
     CallsMove, DestroyMoves
  DEF Simulation
<1>2. CASE Simulate \/ (\E word \in Words : Parse(word)) \/ Trace \/ Finish
  BY <1>2, IdleMoves
<1>3. CASE Crash \/ Start
  BY <1>3, CrashMoves, StartMoves
<1>4. CASE \E w \in Workers : Worker(w)
  BY <1>4, WorkerMoves
<1> QED
  BY <1>1, <1>2, <1>3, <1>4 DEF Next

LEMMA InitMoves == Init => Stored /\ Owned /\ Log!Init
<1> SUFFICES ASSUME Init PROVE Stored /\ Owned /\ Log!Init
  OBVIOUS
<1>1. InitSink /\ SinkInv
  BY InitLog DEF Init, LogInv
<1>2. /\ faults = 0 /\ at = Free /\ line = [l \in Logs |-> 0] /\ In("no_sink") /\ ~In("retry")
      /\ \A l \in Logs : /\ files[l] = [i \in Index |-> <<>>] /\ exists[l] = {} /\ stream[l] = Closed
                         /\ current_size_[l] = 0
  BY <1>1 DEF InitSink, Free, In
<1>3. ASSUME NEW l \in Logs PROVE Stocked(l) /\ Fresh(l) /\ ~Used(l) /\ Laid(files[l]) = <<>> /\ stream[l].buffer = <<>>
  <2>1. /\ Gap(l) = max_files + 1 /\ ~Turns(l) /\ ~stream[l].open /\ stream[l].buffer = <<>> /\ <<>> \in Seq(Nat)
    BY <1>2, OpenedIs, EmptySeq DEF Gap, Turns, In
  <2>2. files[l] \in [Index -> Seq(Nat)] /\ \A i \in Index : files[l][i] = <<>>
    BY <1>2, <2>1
  <2>3. Stocked(l)
    <3>1. exists[l] = {} /\ Gap(l) = max_files + 1
      BY <1>2, <2>1
    <3>2. max_files + 1 \in Nat
      BY IndexIs
    <3>3. ASSUME NEW i \in Index PROVE i \notin {} /\ files[l][i] = <<>>
      BY <2>2
    <3>4. Filed(files[l], {}, max_files + 1)
      BY <2>2, <3>2, <3>3 DEF Filed
    <3> QED
      BY <2>1, <3>1, <3>4 DEF Stocked
  <2>4. Fresh(l)
    BY <1>2, <2>1, <2>2, IndexIs DEF Fresh, Full
  <2>5. Laid(files[l]) = <<>>
    BY <2>2, EmptyFiles
  <2>6. ~Used(l)
    BY <1>2, <2>1 DEF Used
  <2> QED
    BY <2>1, <2>3, <2>4, <2>5, <2>6
<1>4. Stored /\ Owned
  BY <1>2, <1>3 DEF Stored, Owned
<1>5. Log!Init
  BY <1>2, <1>3 DEF Log!Init
<1> QED
  BY <1>4, <1>5

\* The rotating files of a log and the buffer of its stream are one log that keeps
\* its lines in order, loses the newest in a crash, and gives up the oldest ones
\* only; as long as nothing fails max_files * max_size of them are left then,
\* whoever logs, flushes or ends (sink_it_, rotate_, flush_all, ~registry).
THEOREM LinesAreKept == Spec => ImplementsLog
<1>1. LogInv /\ Stored /\ Owned /\ [Next]_vars => Stored' /\ Owned' /\ [Log!Next]_(Log!vars)
  <2> SUFFICES ASSUME LogInv, Stored, Owned, [Next]_vars PROVE Stored' /\ Owned' /\ [Log!Next]_(Log!vars)
    OBVIOUS
  <2>1. CASE Next
    BY <2>1, NextMoves DEF Steps, Log!Next
  <2>2. CASE UNCHANGED vars
    <3>1. UNCHANGED sink /\ UNCHANGED <<loggers_, todo, run>>
      BY <2>2 DEF vars, registry
    <3>2. Stored'
      BY <3>1, StandingLogs DEF LogInv
    <3>3. Owned'
      BY <3>1 DEF Owned, Used, In, Known, sink
    <3>4. UNCHANGED Log!vars
      BY <3>1 DEF sink, Log!vars, Laid, Oldest
    <3> QED
      BY <3>2, <3>3, <3>4
  <2> QED
    BY <2>1, <2>2
<1> QED
  BY <1>1, InitMoves, LogInvariant, PTL DEF Spec, ImplementsLog, Log!Spec

-----------------------------------------------------------------------------
(* The order of the lines. *)

\* The numbers of the lines of s ascend, and none is above n.
Ascends(s, n) == \A i \in 1 .. Len(s) : s[i] <= n /\ \A j \in 1 .. Len(s) : j < i => s[j] < s[i]

\* x and then y ascend up to n.
Follows(x, y, n) ==
  /\ x \in Seq(Nat) /\ y \in Seq(Nat) /\ n \in Nat
  /\ Ascends(x, n) /\ Ascends(y, n) /\ \A i \in 1 .. Len(x), j \in 1 .. Len(y) : x[i] < y[j]

LEMMA FollowsIs ==
  \A x, y, n : x \in Seq(Nat) /\ y \in Seq(Nat) /\ n \in Nat => (Follows(x, y, n) <=> Ascends(x \o y, n))
<1> SUFFICES ASSUME NEW x \in Seq(Nat), NEW y \in Seq(Nat), NEW n \in Nat
             PROVE  Follows(x, y, n) <=> Ascends(x \o y, n)
  OBVIOUS
<1> DEFINE s == x \o y
<1>1. /\ s \in Seq(Nat) /\ Len(s) = Len(x) + Len(y) /\ Len(x) \in Nat /\ Len(y) \in Nat
      /\ \A i \in 1 .. Len(x) : s[i] = x[i] /\ x[i] \in Nat /\ i \in 1 .. Len(s)
      /\ \A i \in 1 .. Len(y) : s[Len(x) + i] = y[i] /\ y[i] \in Nat /\ Len(x) + i \in 1 .. Len(s)
      /\ \A i \in 1 .. Len(s) : s[i] \in Nat
  OBVIOUS
<1> HIDE DEF s
<1>2. ASSUME Ascends(s, n) PROVE Follows(x, y, n)
  <2>1. Ascends(x, n)
    BY <1>1, <1>2 DEF Ascends
  <2>2. Ascends(y, n)
    <3> SUFFICES ASSUME NEW i \in 1 .. Len(y) PROVE y[i] <= n /\ \A j \in 1 .. Len(y) : j < i => y[j] < y[i]
      BY DEF Ascends
    <3>1. y[i] <= n
      BY <1>1, <1>2 DEF Ascends
    <3>2. ASSUME NEW j \in 1 .. Len(y), j < i PROVE y[j] < y[i]
      <4>1. Len(x) + j < Len(x) + i /\ Len(x) + j \in 1 .. Len(s) /\ Len(x) + i \in 1 .. Len(s)
        BY <1>1, <3>2
      <4>2. s[Len(x) + j] < s[Len(x) + i]
        BY <1>2, <4>1 DEF Ascends
      <4> QED
        BY <1>1, <4>2
    <3> QED
      BY <3>1, <3>2
  <2>3. ASSUME NEW i \in 1 .. Len(x), NEW j \in 1 .. Len(y) PROVE x[i] < y[j]
    <3>1. i < Len(x) + j /\ Len(x) + j \in 1 .. Len(s) /\ i \in 1 .. Len(s)
      BY <1>1
    <3>2. s[i] < s[Len(x) + j]
      BY <1>2, <3>1 DEF Ascends
    <3> QED
      BY <1>1, <3>2
  <2> QED
    BY <2>1, <2>2, <2>3 DEF Follows
<1>3. ASSUME Follows(x, y, n) PROVE Ascends(s, n)
  <2>1. ASSUME NEW i \in 1 .. Len(s) PROVE i \in 1 .. Len(x) \/ \E k \in 1 .. Len(y) : i = Len(x) + k
    <3>1. CASE i <= Len(x)
      BY <1>1, <3>1
    <3>2. CASE i > Len(x)
      <4>1. i - Len(x) \in 1 .. Len(y) /\ i = Len(x) + (i - Len(x))
        BY <1>1, <3>2
      <4> QED
        BY <4>1
    <3> QED
      BY <1>1, <3>1, <3>2
  <2> SUFFICES ASSUME NEW i \in 1 .. Len(s) PROVE s[i] <= n /\ \A j \in 1 .. Len(s) : j < i => s[j] < s[i]
    BY DEF Ascends
  <2>2. s[i] <= n
    BY <1>1, <1>3, <2>1 DEF Follows, Ascends
  <2>3. ASSUME NEW j \in 1 .. Len(s), j < i PROVE s[j] < s[i]
    <3>1. CASE i \in 1 .. Len(x)
      <4>1. j \in 1 .. Len(x)
        BY <1>1, <2>3, <3>1
      <4> QED
        BY <1>1, <1>3, <2>3, <3>1, <4>1 DEF Follows, Ascends
    <3>2. CASE i \notin 1 .. Len(x)
      <4>1. PICK k \in 1 .. Len(y) : i = Len(x) + k
        BY <2>1, <3>2
      <4>2. CASE j \in 1 .. Len(x)
        BY <1>1, <1>3, <4>1, <4>2 DEF Follows
      <4>3. CASE j \notin 1 .. Len(x)
        <5>1. PICK h \in 1 .. Len(y) : j = Len(x) + h
          BY <2>1, <4>3
        <5>2. h < k
          BY <1>1, <2>3, <4>1, <5>1
        <5> QED
          BY <1>1, <1>3, <4>1, <5>1, <5>2 DEF Follows, Ascends
      <4> QED
        BY <4>2, <4>3
    <3> QED
      BY <3>1, <3>2
  <2> QED
    BY <2>2, <2>3
<1> QED
  BY <1>2, <1>3 DEF s

\* What is left of the beginning when some of it is lost at both ends.
LEMMA RestFollows ==
  \A x, y, n, a, b : Follows(x, y, n) /\ a \in Nat /\ b \in 0 .. Len(x) => Follows(SubSeq(x, a + 1, b), y, n)
<1> SUFFICES ASSUME NEW x, NEW y, NEW n, NEW a, NEW b, Follows(x, y, n), a \in Nat, b \in 0 .. Len(x)
             PROVE  Follows(SubSeq(x, a + 1, b), y, n)
  OBVIOUS
<1> DEFINE z == SubSeq(x, a + 1, b)
<1>1. x \in Seq(Nat) /\ Len(x) \in Nat /\ \A i \in 1 .. Len(x) : x[i] \in Nat
  BY DEF Follows
<1>2. /\ z \in Seq(Nat) /\ Len(z) \in Nat
      /\ \A i \in 1 .. Len(z) : a + i \in 1 .. Len(x) /\ z[i] = x[a + i]
  BY <1>1
<1> HIDE DEF z
<1>3. Ascends(z, n)
  <2> SUFFICES ASSUME NEW i \in 1 .. Len(z) PROVE z[i] <= n /\ \A j \in 1 .. Len(z) : j < i => z[j] < z[i]
    BY DEF Ascends
  <2>1. z[i] <= n
    BY <1>2 DEF Follows, Ascends
  <2>2. ASSUME NEW j \in 1 .. Len(z), j < i PROVE z[j] < z[i]
    <3>1. a + j < a + i /\ a + j \in 1 .. Len(x) /\ a + i \in 1 .. Len(x)
      BY <1>2, <2>2
    <3>2. x[a + j] < x[a + i]
      BY <3>1 DEF Follows, Ascends
    <3> QED
      BY <1>2, <3>2
  <2> QED
    BY <2>1, <2>2
<1>4. \A i \in 1 .. Len(z), j \in 1 .. Len(y) : z[i] < y[j]
  BY <1>2 DEF Follows
<1> QED
  BY <1>2, <1>3, <1>4 DEF Follows, z

LEMMA AscendsOn ==
  \A s, n, m : s \in Seq(Nat) /\ n \in Nat /\ m \in Nat /\ n <= m /\ Ascends(s, n) => Ascends(s, m)
BY DEF Ascends

LEMMA AscendsAppend ==
  \A s, n : s \in Seq(Nat) /\ n \in Nat /\ Ascends(s, n) => Ascends(Append(s, n + 1), n + 1)
<1> SUFFICES ASSUME NEW s \in Seq(Nat), NEW n \in Nat, Ascends(s, n) PROVE Ascends(Append(s, n + 1), n + 1)
  OBVIOUS
<1> DEFINE t == Append(s, n + 1)
<1>1. /\ Len(s) \in Nat /\ Len(t) = Len(s) + 1 /\ t[Len(s) + 1] = n + 1
      /\ \A i \in 1 .. Len(s) : t[i] = s[i] /\ s[i] \in Nat
  OBVIOUS
<1> HIDE DEF t
<1>2. ASSUME NEW i \in 1 .. Len(t) PROVE t[i] <= n + 1 /\ \A j \in 1 .. Len(t) : j < i => t[j] < t[i]
  <2>1. CASE i = Len(s) + 1
    BY <1>1, <2>1 DEF Ascends
  <2>2. CASE i \in 1 .. Len(s)
    BY <1>1, <2>2 DEF Ascends
  <2> QED
    BY <1>1, <2>1, <2>2
<1> QED
  BY <1>2 DEF Ascends, t

InOrderOnDisk == \A l \in Logs : Follows(Laid(files[l]), stream[l].buffer, line[l])

\* One log, from one state of the abstract log to the next.
LEMMA StepFollows ==
  ASSUME SinkInv, SinkInv', NEW l \in Logs, Log!Step(l), Follows(Laid(files[l]), stream[l].buffer, line[l])
  PROVE  Follows(Laid(files'[l]), stream'[l].buffer, line'[l])
<1>1. PICK x, y, n, x1, y1, n1 :
        /\ x = Laid(files[l]) /\ y = stream[l].buffer /\ n = line[l]
        /\ x1 = Laid(files'[l]) /\ y1 = stream'[l].buffer /\ n1 = line'[l]
  OBVIOUS
<1>2. /\ x \in Seq(Nat) /\ y \in Seq(Nat) /\ n \in Nat /\ x1 \in Seq(Nat) /\ y1 \in Seq(Nat) /\ n1 \in Nat
      /\ Len(x) \in Nat
  <2>1. /\ files[l] \in [Index -> Seq(Nat)] /\ stream[l].buffer \in Seq(Nat) /\ line[l] \in Nat
        /\ files'[l] \in [Index -> Seq(Nat)] /\ stream'[l].buffer \in Seq(Nat) /\ line'[l] \in Nat
    BY DEF SinkInv, SinkTypes
  <2> QED
    BY <1>1, <2>1, LaidIsSeq
<1>3. Follows(x, y, n)
  BY <1>1
<1>4. Ascends(x \o y, n)
  BY <1>2, <1>3, FollowsIs
<1>5. CASE Log!Write(l)
  <2>1. n1 = n + 1 /\ x1 \o y1 = Append(x \o y, n1)
    BY <1>1, <1>5 DEF Log!Write, Log!Lines, Log!Lines1
  <2>2. x \o y \in Seq(Nat)
    BY <1>2
  <2>3. Ascends(x1 \o y1, n1)
    BY <1>2, <1>4, <2>1, <2>2, AscendsAppend
  <2> QED
    BY <1>1, <1>2, <2>3, FollowsIs
<1>6. CASE Log!Persist(l)
  <2>1. n1 = n /\ x1 \o y1 = x \o y
    BY <1>1, <1>6 DEF Log!Persist, Log!Lines, Log!Lines1
  <2> QED
    BY <1>1, <1>2, <1>4, <2>1, FollowsIs
<1>7. CASE Log!Expire(l)
  <2>1. PICK k \in 1 .. Len(x) : x1 = SubSeq(x, k + 1, Len(x))
    BY <1>1, <1>7 DEF Log!Expire
  <2>2. n1 = n /\ y1 = y
    BY <1>1, <1>7 DEF Log!Expire
  <2>3. Len(x) \in 0 .. Len(x) /\ k \in Nat
    BY <1>2
  <2>4. Follows(x1, y, n)
    BY <1>3, <2>1, <2>3, RestFollows
  <2> QED
    BY <1>1, <2>2, <2>4
<1>8. CASE Log!Crash(l)
  <2>1. n1 = n /\ y1 = <<>> /\ x1 = x
    BY <1>1, <1>8 DEF Log!Crash
  <2>2. Follows(x, <<>>, n)
    BY <1>2, <1>3, EmptySeq DEF Follows, Ascends
  <2> QED
    BY <1>1, <2>1, <2>2
<1>9. CASE Log!Fail(l)
  <2>1. PICK i, j \in 0 .. Len(x) : x1 = SubSeq(x, i + 1, j)
    BY <1>1, <1>9 DEF Log!Fail
  <2>2. n1 \in {n, n + 1} /\ y1 = y
    BY <1>1, <1>9 DEF Log!Fail
  <2>3. Follows(x1, y, n)
    <3>1. i \in Nat /\ j \in 0 .. Len(x)
      BY <1>2
    <3> QED
      BY <1>3, <2>1, <3>1, RestFollows
  <2>4. Follows(x1, y, n1)
    <3>1. n <= n1
      BY <1>2, <2>2
    <3>2. Ascends(x1, n1) /\ Ascends(y, n1)
      BY <1>2, <2>3, <3>1, AscendsOn DEF Follows
    <3> QED
      BY <1>2, <2>3, <3>2 DEF Follows
  <2> QED
    BY <1>1, <2>2, <2>4
<1> QED
  BY <1>5, <1>6, <1>7, <1>8, <1>9 DEF Log!Step

\* What is in the files of a log, the oldest first, and then in its buffer is a
\* selection of the lines written to it, each at most once and in the order in
\* which they were written: no rotation, flush, failure or crash brings a line
\* back or two lines out of order (rotate_, sink_it_, flush_all).
THEOREM LinesStayInOrder == Spec => []InOrderOnDisk
<1>1. Init => InOrderOnDisk
  <2> SUFFICES ASSUME Init, NEW l \in Logs PROVE Follows(Laid(files[l]), stream[l].buffer, line[l])
    BY DEF InOrderOnDisk
  <2>1. Log!Init
    BY InitMoves
  <2>2. Laid(files[l]) = <<>> /\ stream[l].buffer = <<>> /\ line[l] = 0
    BY <2>1 DEF Log!Init
  <2>3. Follows(<<>>, <<>>, 0)
    BY EmptySeq DEF Follows, Ascends
  <2> QED
    BY <2>2, <2>3
<1>2. LogInv /\ LogInv' /\ InOrderOnDisk /\ [Log!Next]_(Log!vars) => InOrderOnDisk'
  <2> SUFFICES ASSUME LogInv, LogInv', InOrderOnDisk, [Log!Next]_(Log!vars), NEW l \in Logs
               PROVE  Follows(Laid(files'[l]), stream'[l].buffer, line'[l])
    BY DEF InOrderOnDisk
  <2>1. SinkInv /\ SinkInv' /\ Follows(Laid(files[l]), stream[l].buffer, line[l])
    BY DEF LogInv, InOrderOnDisk
  <2>2. CASE Log!Next
    BY <2>1, <2>2, StepFollows DEF Log!Next
  <2>3. CASE UNCHANGED Log!vars
    <3>1. /\ [k \in Logs |-> Laid(files[k])] = [k \in Logs |-> Laid(files'[k])]
          /\ [k \in Logs |-> stream[k].buffer] = [k \in Logs |-> stream'[k].buffer] /\ line = line'
      BY <2>3 DEF Log!vars, Laid, Oldest
    <3>2. Laid(files'[l]) = Laid(files[l]) /\ stream'[l].buffer = stream[l].buffer
      BY <3>1
    <3> QED
      BY <2>1, <3>1, <3>2
  <2> QED
    BY <2>2, <2>3
<1> QED
  BY <1>1, <1>2, LogInvariant, LinesAreKept, PTL DEF Spec, ImplementsLog, Log!Spec

-----------------------------------------------------------------------------
(* The descriptors. *)

Listed(s) == s \in Seq(ToSet(s))

LEMMA ListedFacts == \A s : Listed(s) => Len(s) \in Nat /\ DOMAIN s = 1 .. Len(s) /\ \A i \in 1 .. Len(s) : s[i] \in ToSet(s)
BY LenProperties DEF Listed, ToSet

LEMMA FamilyListed ==
  \A mask, base, shift, regs, codes :
    Len(codes) \in Nat => Listed(Family(mask, base, shift, regs, codes))
<1> SUFFICES ASSUME NEW mask, NEW base, NEW shift, NEW regs, NEW codes, Len(codes) \in Nat
             PROVE  Listed(Family(mask, base, shift, regs, codes))
  OBVIOUS
<1> DEFINE e(i) == [rep |-> codes[i][1], mask |-> mask, regs |-> regs, matcher |-> base \cup Bits(codes[i][2], shift)]
           s == [i \in 1 .. Len(codes) |-> e(i)]
<1>1. s = Family(mask, base, shift, regs, codes)
  BY DEF Family
<1> HIDE DEF e
<1>2. \A i \in 1 .. Len(codes) : s[i] \in ToSet(s)
  BY DEF ToSet
<1>3. s \in Seq(ToSet(s))
  BY <1>2, IsASeq
<1> QED
  BY <1>1, <1>3 DEF Listed

LEMMA ConcatListed ==
  \A s, t : Listed(s) /\ Listed(t) => Listed(s \o t) /\ ToSet(s \o t) = ToSet(s) \cup ToSet(t)
<1> SUFFICES ASSUME NEW s, NEW t, Listed(s), Listed(t)
             PROVE  Listed(s \o t) /\ ToSet(s \o t) = ToSet(s) \cup ToSet(t)
  OBVIOUS
<1> DEFINE S == ToSet(s) \cup ToSet(t)
<1>1. s \in Seq(S) /\ t \in Seq(S)
  <2>1. s \in Seq(ToSet(s)) /\ t \in Seq(ToSet(t))
    BY DEF Listed
  <2> QED
    BY <2>1, SeqMonotonic
<1>2. Range(s \o t) = Range(s) \cup Range(t)
  BY <1>1, RangeConcatenation
<1>3. ToSet(s \o t) = S
  BY <1>2 DEF Range, ToSet
<1>4. s \o t \in Seq(S)
  BY <1>1, ConcatProperties
<1> QED
  BY <1>3, <1>4 DEF Listed

\* The instructions of s with an operand that is cut out of their code.
Cut(s) ==
  {d.rep : d \in {d \in ToSet(s) : \E i \in 1 .. Len(d.regs) : Shown(d.regs[i]) \cap d.mask # {}}}
Whole(s) == Listed(s) /\ Cut(s) = {}
Apart(mask, regs) == \A i \in 1 .. Len(regs) : Shown(regs[i]) \cap mask = {}

LEMMA CutConcat == \A s, t : Listed(s) /\ Listed(t) => Listed(s \o t) /\ Cut(s \o t) = Cut(s) \cup Cut(t)
<1> SUFFICES ASSUME NEW s, NEW t, Listed(s), Listed(t)
             PROVE  Listed(s \o t) /\ Cut(s \o t) = Cut(s) \cup Cut(t)
  OBVIOUS
<1>1. Listed(s \o t) /\ ToSet(s \o t) = ToSet(s) \cup ToSet(t)
  BY ConcatListed
<1> DEFINE F(S) == {d.rep : d \in {d \in S : \E i \in 1 .. Len(d.regs) : Shown(d.regs[i]) \cap d.mask # {}}}
<1>2. \A S, T : F(S \cup T) = F(S) \cup F(T)
  OBVIOUS
<1>3. Cut(s \o t) = F(ToSet(s \o t)) /\ Cut(s) = F(ToSet(s)) /\ Cut(t) = F(ToSet(t))
  BY DEF Cut
<1> HIDE DEF F
<1> QED
  BY <1>1, <1>2, <1>3

LEMMA WholeConcat == \A s, t : Whole(s) /\ Whole(t) => Whole(s \o t)
BY CutConcat DEF Whole

LEMMA FamilyMembers ==
  \A mask, base, shift, regs, codes, d :
    Len(codes) \in Nat /\ d \in ToSet(Family(mask, base, shift, regs, codes)) =>
      d.mask = mask /\ d.regs = regs /\ \E i \in 1 .. Len(codes) : d.rep = codes[i][1]
<1> SUFFICES ASSUME NEW mask, NEW base, NEW shift, NEW regs, NEW codes, Len(codes) \in Nat,
                    NEW d \in ToSet(Family(mask, base, shift, regs, codes))
             PROVE  d.mask = mask /\ d.regs = regs /\ \E i \in 1 .. Len(codes) : d.rep = codes[i][1]
  OBVIOUS
<1>1. PICK i \in 1 .. Len(codes) : d = Family(mask, base, shift, regs, codes)[i]
  BY DEF Family, ToSet
<1>2. d = [rep |-> codes[i][1], mask |-> mask, regs |-> regs, matcher |-> base \cup Bits(codes[i][2], shift)]
  BY <1>1 DEF Family
<1> QED
  BY <1>2

LEMMA WholeFamily ==
  \A mask, base, shift, regs, codes :
    Len(codes) \in Nat /\ Apart(mask, regs) => Whole(Family(mask, base, shift, regs, codes))
<1> SUFFICES ASSUME NEW mask, NEW base, NEW shift, NEW regs, NEW codes, Len(codes) \in Nat, Apart(mask, regs)
             PROVE  Whole(Family(mask, base, shift, regs, codes))
  OBVIOUS
<1>1. Listed(Family(mask, base, shift, regs, codes))
  BY FamilyListed
<1>2. ASSUME NEW d \in ToSet(Family(mask, base, shift, regs, codes)) PROVE d.mask = mask /\ d.regs = regs
  BY FamilyMembers
<1>3. Cut(Family(mask, base, shift, regs, codes)) = {}
  BY <1>2 DEF Cut, Apart
<1> QED
  BY <1>1, <1>3 DEF Whole

LEMMA WholeOp == \A regs, codes : Len(codes) \in Nat /\ Apart(MASK_6BITS, regs) => Whole(Op(regs, codes))
BY WholeFamily DEF Op

LEMMA Places ==
  /\ Shown("reg_d") = 21 .. 24 /\ Shown("reg_a") = 16 .. 19 /\ Shown("reg_b") = 11 .. 14
  /\ Shown("imm_i") = 0 .. 15 /\ Shown("imm_k") = 0 .. 15 /\ Shown("imm_k2") = 21 .. 24 \cup 0 .. 9
  /\ Shown("imm_l") = 0 .. 5 /\ Shown("imm_n") = 0 .. 25 /\ Shown("imm_i2") = {}
BY DEF Shown, imm_l

LEMMA ApartOne == \A mask, a : Shown(a) \cap mask = {} => Apart(mask, <<a>>)
BY DEF Apart
LEMMA ApartTwo == \A mask, a, b : Shown(a) \cap mask = {} /\ Shown(b) \cap mask = {} => Apart(mask, <<a, b>>)
BY DEF Apart
LEMMA ApartThree ==
  \A mask, a, b, c :
    Shown(a) \cap mask = {} /\ Shown(b) \cap mask = {} /\ Shown(c) \cap mask = {} => Apart(mask, <<a, b, c>>)
BY DEF Apart
LEMMA ApartNone == \A mask : Apart(mask, <<>>)
BY DEF Apart

LEMMA ApartOps ==
  /\ Apart(MASK_6BITS, <<>>) /\ Apart(MASK_6BITS, <<"imm_n">>) /\ Apart(MASK_6BITS, <<"reg_b">>)
  /\ Apart(MASK_6BITS, <<"reg_d", "imm_k">>) /\ Apart(MASK_6BITS, <<"reg_d", "reg_a", "imm_k">>)
  /\ Apart(MASK_6BITS, <<"reg_a", "reg_b", "imm_k2">>) /\ Apart(MASK_6BITS, <<"reg_d", "imm_i", "reg_a">>)
  /\ Apart(MASK_6BITS, <<"imm_i2", "reg_a", "reg_b">>) /\ Apart(MASK_6BITS, DAI)
<1>1. \A r \in {"reg_d", "reg_a", "reg_b", "imm_i", "imm_k", "imm_k2", "imm_n", "imm_i2"} :
        Shown(r) \cap MASK_6BITS = {}
  BY Places DEF MASK_6BITS
<1> QED
  BY <1>1, ApartNone, ApartOne, ApartTwo, ApartThree DEF DAI

LEMMA OrbisWhole == Whole(Orbis)
<1>1. Whole(Family(MASK_8BITS, {}, 24, <<"imm_k">>, <<<<"l.nop", \h15>>>>))
  <2>1. Apart(MASK_8BITS, <<"imm_k">>)
    BY Places, ApartOne DEF MASK_8BITS
  <2> QED
    BY <2>1, WholeFamily
<1>2. Whole(Op(<<"reg_d", "reg_a", "imm_k">>, <<<<"l.mfspr", \h2d>>>>))
  BY WholeOp, ApartOps
<1>3. Whole(Op(<<"reg_a", "reg_b", "imm_k2">>, <<<<"l.mtspr", \h30>>>>))
  BY WholeOp, ApartOps
<1>4. Whole(Op(<<"reg_d", "imm_k">>, <<<<"l.movhi", 6>>>>))
  BY WholeOp, ApartOps
<1> QED
  BY <1>1, <1>2, <1>3, <1>4, WholeConcat DEF Orbis

LEMMA ControlWhole == Whole(Control)
<1>1. Whole(Op(<<"imm_n">>, <<<<"l.j", 0>>>>))
  BY WholeOp, ApartOps
<1>2. Whole(Op(<<"reg_b">>, <<<<"l.jr", \h11>>>>))
  BY WholeOp, ApartOps
<1>3. Whole(Op(<<"imm_n">>, <<<<"l.jal", 1>>>>))
  BY WholeOp, ApartOps
<1>4. Whole(Op(<<"reg_b">>, <<<<"l.jalr", \h12>>>>))
  BY WholeOp, ApartOps
<1>5. Whole(Op(<<"imm_n">>, <<<<"l.bf", 4>>, <<"l.bnf", 3>>>>))
  BY WholeOp, ApartOps
<1> QED
  BY <1>1, <1>2, <1>3, <1>4, <1>5, WholeConcat DEF Control

LEMMA LoadStoreWhole == Whole(LoadStore)
<1>1. Whole(Op(<<>>, <<<<"l.lwa", \h1b>>>>))
  BY WholeOp, ApartOps
<1>2. Whole(Op(<<"reg_d", "imm_i", "reg_a">>, <<<<"l.lwz", \h21>>, <<"l.lws", \h22>>, <<"l.lhz", \h25>>,
            <<"l.lhs", \h26>>, <<"l.lbz", \h23>>, <<"l.lbs", \h24>>>>))
  BY WholeOp, ApartOps
<1>3. Whole(Op(<<>>, <<<<"l.swa", \h33>>>>))
  BY WholeOp, ApartOps
<1>4. Whole(Op(<<"imm_i2", "reg_a", "reg_b">>, <<<<"l.sw", \h35>>, <<"l.sh", \h37>>, <<"l.sb", \h36>>>>))
  BY WholeOp, ApartOps
<1> QED
  BY <1>1, <1>2, <1>3, <1>4, WholeConcat DEF LoadStore

LEMMA ExtendWhole == Whole(Extend)
<1>0. \A r \in {"reg_d", "reg_a", "reg_b"} : Shown(r) \cap ALU_MASK_LOGIC = {} /\ Shown(r) \cap ALU_MASK_ARITH = {}
  BY Places DEF ALU_MASK_LOGIC, ALU_MASK_ARITH, MASK_6BITS
<1>1. Whole(Family(ALU_MASK_LOGIC, ALU_MATCHER, 0, <<"reg_d", "reg_a">>, <<<<"l.extwz", \h4d>>,
            <<"l.extws", \h0d>>, <<"l.exthz", \h8c>>, <<"l.exths", \h0c>>, <<"l.extbz", \hcc>>,
            <<"l.extbs", \h4c>>>>))
  BY <1>0, WholeFamily, ApartTwo
<1> QED
  BY <1>1, WholeConcat DEF Extend

LEMMA AluWhole == Whole(Alu)
<1>0. \A r \in {"reg_d", "reg_a", "reg_b"} : Shown(r) \cap ALU_MASK_LOGIC = {} /\ Shown(r) \cap ALU_MASK_ARITH = {}
  BY Places DEF ALU_MASK_LOGIC, ALU_MASK_ARITH, MASK_6BITS
<1>1. Whole(Arith(DAB, <<<<"l.add", 0>>, <<"l.addc", 1>>, <<"l.sub", 2>>, <<"l.and", 3>>, <<"l.or", 4>>,
            <<"l.xor", 5>>, <<"l.cmov", 14>>, <<"l.ff1", 15>>, <<"l.cmov", 14>>>>))
  BY <1>0, WholeFamily, ApartThree DEF DAB, Arith
<1>2. Whole(Arith(<<>>, <<<<"l.ff1", 15>>>>))
  BY <1>0, WholeFamily, ApartNone DEF Arith
<1>3. Whole(Arith(DAB, <<<<"l.fl1", \h10f>>>>))
  BY <1>0, WholeFamily, ApartThree DEF DAB, Arith
<1>4. Whole(Family(ALU_MASK_LOGIC, ALU_MATCHER, 0, DAB, <<<<"l.sll", 8>>, <<"l.srl", \h108>>,
            <<"l.sra", \h208>>, <<"l.ror", \h308>>>>))
  BY <1>0, WholeFamily, ApartThree DEF DAB
<1>5. Whole(Arith(DAB, <<<<"l.mul", \h306>>, <<"l.mulu", \h30b>>, <<"l.muld", \h307>>, <<"l.muldu", \h30c>>,
            <<"l.div", \h309>>, <<"l.divu", \h30a>>>>))
  BY <1>0, WholeFamily, ApartThree DEF DAB, Arith
<1> QED
  BY <1>1, <1>2, <1>3, <1>4, <1>5, WholeConcat DEF Alu

LEMMA MacWhole == Whole(Mac)
<1>1. Whole(Family(MAC_MASK, MAC_MATCHER, 0, <<>>, <<<<"l.mac", 1>>, <<"l.macu", 3>>, <<"l.msb", 2>>,
            <<"l.msbu", 4>>>>))
  BY WholeFamily, ApartNone
<1>2. Whole(Family(MASK_11BITS, {}, 21, <<>>, <<<<"l.maci", \h13>>>>))
  BY WholeFamily, ApartNone
<1>3. Whole(Family(MASK_6BITS \cup 0 .. 16, {16}, 26, <<>>, <<<<"l.macrc", 6>>>>))
  BY WholeFamily, ApartNone
<1> QED
  BY <1>1, <1>2, <1>3, WholeConcat DEF Mac

LEMMA SystemWhole == Whole(System)
<1>1. Whole(Family(MASK_16BITS, {29}, 16, <<>>, <<<<"l.sys", 0>>, <<"l.trap", 1>>>>))
  BY WholeFamily, ApartNone
<1>2. Whole(Family(Bit, {29}, 23, <<>>, <<<<"l.msync", 4>>, <<"l.psync", 5>>, <<"l.csync", 6>>>>))
  BY WholeFamily, ApartNone
<1>3. Whole(Op(<<>>, <<<<"l.rfe", 9>>>>))
  BY WholeOp, ApartOps
<1> QED
  BY <1>1, <1>2, <1>3, WholeConcat DEF System

LEMMA ComparisonsWhole == Whole(Comparisons)
<1>1. ASSUME NEW base, NEW regs, NEW names, Apart(MASK_11BITS, regs) PROVE Whole(Compare(base, regs, names))
  BY <1>1, WholeFamily DEF Compare
<1>2. Apart(MASK_11BITS, <<"reg_a", "reg_b">>) /\ Apart(MASK_11BITS, <<"reg_a", "imm_i">>)
  BY Places, ApartTwo DEF MASK_11BITS
<1> QED
  BY <1>1, <1>2, WholeConcat DEF Comparisons

\* The distance of these shifts is shown with two bits of the code.
LEMMA AluImmCut == Listed(AluImm) /\ Cut(AluImm) = {"l.srli", "l.srai", "l.rori"}
<1> DEFINE codes == <<<<"l.srli", 1>>, <<"l.srai", 2>>, <<"l.rori", 3>>>>
           shifts == Family(SHIFTER_MASK, SHIFTER_MATCHER, 6, DAI, codes)
<1>1. Whole(Op(DAI, <<<<"l.addi", \h27>>, <<"l.addic", \h28>>>>))
  BY WholeOp, ApartOps
<1>2. Whole(Op(<<"reg_d", "reg_a", "imm_k">>, <<<<"l.andi", \h29>>, <<"l.ori", \h2a>>>>))
  BY WholeOp, ApartOps
<1>3. Whole(Op(DAI, <<<<"l.xori", \h2b>>, <<"l.muli", \h2c>>>>))
  BY WholeOp, ApartOps
<1>4. Whole(Family(SHIFTER_MASK, SHIFTER_MATCHER, 6, <<"reg_d", "reg_a", "imm_l">>, <<<<"l.slli", 0>>>>))
  <2>1. Apart(SHIFTER_MASK, <<"reg_d", "reg_a", "imm_l">>)
    BY Places, ApartThree DEF SHIFTER_MASK, MASK_6BITS
  <2> QED
    BY <2>1, WholeFamily
<1>5. Listed(shifts) /\ Cut(shifts) = {"l.srli", "l.srai", "l.rori"}
  <2>1. Len(codes) = 3 /\ codes[1][1] = "l.srli" /\ codes[2][1] = "l.srai" /\ codes[3][1] = "l.rori"
    OBVIOUS
  <2>2. Listed(shifts)
    BY <2>1, FamilyListed
  <2>3. \E i \in 1 .. Len(DAI) : Shown(DAI[i]) \cap SHIFTER_MASK # {}
    <3>1. 3 \in 1 .. Len(DAI) /\ DAI[3] = "imm_i" /\ 6 \in Shown("imm_i") /\ 6 \in SHIFTER_MASK
      BY Places DEF DAI, SHIFTER_MASK
    <3> QED
      BY <3>1
  <2>4. ASSUME NEW d \in ToSet(shifts)
        PROVE  d.mask = SHIFTER_MASK /\ d.regs = DAI /\ \E i \in 1 .. Len(codes) : d.rep = codes[i][1]
    BY <2>1, FamilyMembers
  <2>5. ASSUME NEW i \in 1 .. Len(codes) PROVE \E d \in ToSet(shifts) : d.rep = codes[i][1]
    <3>1. shifts[i] \in ToSet(shifts)
      BY <2>2, ListedFacts DEF Family
    <3>2. shifts[i].rep = codes[i][1]
      BY DEF Family
    <3> QED
      BY <3>1, <3>2
  <2> HIDE DEF shifts, codes
  <2>6. Cut(shifts) = {codes[i][1] : i \in 1 .. Len(codes)}
    <3>1. ASSUME NEW d \in ToSet(shifts) PROVE \E i \in 1 .. Len(d.regs) : Shown(d.regs[i]) \cap d.mask # {}
      BY <2>3, <2>4
    <3>2. Cut(shifts) = {d.rep : d \in ToSet(shifts)}
      BY <3>1 DEF Cut
    <3> QED
      BY <2>4, <2>5, <3>2
  <2>7. {codes[i][1] : i \in 1 .. Len(codes)} = {"l.srli", "l.srai", "l.rori"}
    <3>1. 1 .. Len(codes) = {1, 2, 3}
      BY <2>1
    <3> QED
      BY <2>1, <3>1
  <2> QED
    BY <2>2, <2>6, <2>7
<1> DEFINE others ==
      Op(DAI, <<<<"l.addi", \h27>>, <<"l.addic", \h28>>>>)
      \o Op(<<"reg_d", "reg_a", "imm_k">>, <<<<"l.andi", \h29>>, <<"l.ori", \h2a>>>>)
      \o Op(DAI, <<<<"l.xori", \h2b>>, <<"l.muli", \h2c>>>>)
      \o Family(SHIFTER_MASK, SHIFTER_MATCHER, 6, <<"reg_d", "reg_a", "imm_l">>, <<<<"l.slli", 0>>>>)
<1>6. AluImm = others \o shifts
  BY DEF AluImm
<1>7. Whole(others)
  BY <1>1, <1>2, <1>3, <1>4, WholeConcat
<1> HIDE DEF shifts, others
<1>8. Listed(others) /\ Cut(others) = {}
  BY <1>7 DEF Whole
<1>9. Cut(others \o shifts) = Cut(others) \cup Cut(shifts) /\ Listed(others \o shifts)
  BY <1>5, <1>8, CutConcat
<1> QED
  BY <1>5, <1>6, <1>8, <1>9

LEMMA DescriptorsCut == Listed(descriptors) /\ Cut(descriptors) = {"l.srli", "l.srai", "l.rori"}
<1>1. Whole(Orbis \o Control \o LoadStore \o Extend \o Alu) /\ Whole(Comparisons \o Mac \o System)
  BY OrbisWhole, ControlWhole, LoadStoreWhole, ExtendWhole, AluWhole, ComparisonsWhole, MacWhole,
     SystemWhole, WholeConcat
<1>2. Listed(Orbis \o Control \o LoadStore \o Extend \o Alu \o AluImm)
      /\ Cut(Orbis \o Control \o LoadStore \o Extend \o Alu \o AluImm) = {"l.srli", "l.srai", "l.rori"}
  BY <1>1, AluImmCut, CutConcat DEF Whole
<1>3. Listed(Comparisons) /\ Cut(Comparisons) = {} /\ Listed(Mac) /\ Cut(Mac) = {} /\ Listed(System) /\ Cut(System) = {}
  BY ComparisonsWhole, MacWhole, SystemWhole DEF Whole
<1> QED
  BY <1>2, <1>3, CutConcat DEF descriptors

\* What is shown of a word as an operand is not what told the instruction, but for
\* three shifts, in the whole list of descriptors (or1k_defs.hpp, to_string).
THEOREM OperandsAreApart == Spec => []OperandsOutsideCode
<1>1. OperandsOutsideCode
  BY DescriptorsCut DEF OperandsOutsideCode, ShowsItsCode, Cut
<1> QED
  BY <1>1, PTL

\* If one word matches the descriptors of two instructions, the list hides one of
\* them from a word that the two matchers make up: the words of CommonWords stand
\* for all 2^32 (parse of or1k_decoder.hpp).
THEOREM CommonWordsSuffice ==
  \A word \in SUBSET Bit : \A d, e \in ToSet(descriptors) :
    matches(d, word) /\ matches(e, word) /\ d.rep # e.rep => \E h \in Hidden : h[1] \in {d.rep, e.rep}
<1> SUFFICES ASSUME NEW word \in SUBSET Bit, NEW d \in ToSet(descriptors), NEW e \in ToSet(descriptors),
                    matches(d, word), matches(e, word), d.rep # e.rep
             PROVE  \E h \in Hidden : h[1] \in {d.rep, e.rep}
  OBVIOUS
<1> DEFINE w == d.matcher \cup e.matcher
<1>1. w \in CommonWords
  <2>1. DOMAIN descriptors = 1 .. Len(descriptors)
    BY DescriptorsCut, ListedFacts
  <2>2. PICK i, j \in 1 .. Len(descriptors) : d = descriptors[i] /\ e = descriptors[j]
    BY <2>1 DEF ToSet
  <2> QED
    BY <2>2 DEF CommonWords
<1>2. matches(d, w) /\ matches(e, w)
  BY DEF matches
<1> HIDE DEF w
<1>3. PICK f : f \in {d, e} /\ f.rep # parse(w).rep
  OBVIOUS
<1>4. <<f.rep, parse(w).rep>> \in Hidden
  BY <1>1, <1>2, <1>3 DEF Hidden
<1> QED
  BY <1>3, <1>4
=============================================================================
