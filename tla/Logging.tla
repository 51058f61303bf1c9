------------------------------- MODULE Logging -------------------------------
(***************************************************************************)
(* The logs of the models: each model sets up a rotating logger when it is *)
(* constructed (setup_logger), asks the registry of spdlog for it at every *)
(* line, and has all loggers flushed once a second by a thread of the      *)
(* registry.  The simulation is one thread; every call of flush_every      *)
(* starts a new worker and joins the old one.  A run of the program ends   *)
(* when sc_main returns, by an exception or by a crash, and the next one   *)
(* finds the files.                                                        *)
(***************************************************************************)
EXTENDS RotatingFileSink, Or1kDecoder

CONSTANTS
  Programs,      \* the sequences of models that a test bench may construct
  stop_on_invalid, \* a parameter of the instruction tracer
  Words,         \* words that a CPU may fetch
  MaxLines, MaxRuns \* bounds: lines, and runs of the program

Models == {"tlms", "N25QX", "or1k_data", "SDRAM", "or1k"}

ASSUME LoggingAssumption ==
  /\ Models \subseteq Logs /\ "console" \notin Logs /\ "none" \notin Logs
  /\ Programs \subseteq Seq(Models)

VARIABLES
  loggers_, default_logger_,
  periodic_flusher_, \* the current worker, 0 if there is none
  worker,        \* state of each worker, and what it has left to flush
  active_,
  todo,          \* what the simulation does next: calls, each of a model
  run            \* runs so far, whether this one is up, and the program

registry == <<loggers_, default_logger_>>
flusher == <<periodic_flusher_, worker, active_>>
vars == <<sink, registry, flusher, todo, run>>

\* One for each model, and the one that flush_every has just started.
Workers == 1 .. 2
NoWorker == [in |-> "none", left |-> {}]
Does(call, model) == [call |-> call, model |-> model, worker |-> 0]
Stops(w) ==
  IF w = 0 THEN <<>>
  ELSE <<[call |-> "deactivate", model |-> "none", worker |-> w],
         [call |-> "join", model |-> "none", worker |-> w]>>

(***************************************************************************)
(* setup_logger of the models, from the moment the sink is there.          *)
(***************************************************************************)
Setup(model) ==
  <<Does("register", model)>> \o
  (CASE model = "tlms" -> <<Does("set_default", model), Does("default", model), Does("flush_every", model)>>
     [] model = "N25QX" -> <<Does("default", model), Does("flush_every", model)>>
     [] model = "or1k_data" -> <<Does("log", model), Does("flush_every", model)>>
     [] model = "SDRAM" -> <<Does("flush_every", model), Does("log", model)>>
     [] model = "or1k" -> <<Does("flush_every", model)>>)

Init ==
  /\ InitSink
  /\ loggers_ = {} /\ default_logger_ = "none" /\ periodic_flusher_ = 0
  /\ worker = [w \in Workers |-> NoWorker] /\ active_ = [w \in Workers |-> FALSE]
  /\ todo = <<>> /\ run \in [number : {0}, up : {FALSE}, program : Programs]

\* The registry has a default logger for the console.
Start ==
  /\ ~run.up /\ run.number < MaxRuns
  /\ run' = [run EXCEPT !.number = @ + 1, !.up = TRUE]
  /\ loggers_' = {"console"} /\ default_logger_' = "console" /\ periodic_flusher_' = 0
  /\ worker' = [w \in Workers |-> NoWorker] /\ active_' = [w \in Workers |-> FALSE]
  /\ todo' = [k \in 1 .. Len(run.program) |-> Does("sink", run.program[k])]
  /\ UNCHANGED sink

(***************************************************************************)
(* The registry.  flush_all keeps logger_map_mutex_ while it goes through  *)
(* the loggers; the other operations hold it in one step.                  *)
(***************************************************************************)
MapIsFree == \A w \in Workers : worker[w].in # "flush_all"

Up == run.up
Calls(call) == Up /\ In("no_sink") /\ todo # <<>> /\ Head(todo).call = call
Model == Head(todo).model
Old == Head(todo).worker
Done == todo' = Tail(todo)
Ends == todo' = <<Does("stop_flusher", "none"), Does("destroy", "none")>>

Sink ==
  /\ Calls("sink") /\ todo' = Setup(Model) \o Tail(todo)
  /\ IF Model \in loggers_ THEN ConstructAgain(Model) ELSE Construct(Model)
  /\ UNCHANGED <<registry, flusher, run>>

SinkFails ==
  /\ Calls("sink") /\ Fault /\ Ends
  /\ UNCHANGED <<files, exists, stream, current_size_, line, at, registry, flusher, run>>

\* A name that is taken: the exception ends sc_main.
Register ==
  /\ Calls("register") /\ MapIsFree
  /\ IF Model \in loggers_
       THEN Ends /\ UNCHANGED registry
       ELSE Done /\ loggers_' = loggers_ \cup {Model} /\ UNCHANGED default_logger_
  /\ UNCHANGED <<sink, flusher, run>>

DefaultForgotten == \* mutant: the name of the new default logger is erased as well
  /\ Calls("set_default") /\ MapIsFree /\ Done
  /\ loggers_' = loggers_ \ {default_logger_, Model} /\ default_logger_' = Model
  /\ UNCHANGED <<sink, flusher, run>>

DefaultUnlocked == \* mutant: loggers_ is changed without the mutex
  /\ Calls("set_default") /\ Done
  /\ loggers_' = (loggers_ \ {default_logger_}) \cup {Model} /\ default_logger_' = Model
  /\ UNCHANGED <<sink, flusher, run>>

set_default_logger ==
  /\ Calls("set_default") /\ MapIsFree /\ Done
  /\ loggers_' = (loggers_ \ {default_logger_}) \cup {Model} /\ default_logger_' = Model
  /\ UNCHANGED <<sink, flusher, run>>

\* get(name)->info(...); the null pointer get may return is not dereferenced here.
LogLine ==
  /\ Calls("log") /\ MapIsFree /\ Model \in loggers_ /\ Done
  /\ Begin(Model)
  /\ UNCHANGED <<registry, flusher, run>>

\* The default logger is used without the mutex; the console has no file.
LogDefault ==
  /\ Calls("default") /\ Done
  /\ IF default_logger_ = "console" THEN UNCHANGED sink ELSE Begin(default_logger_)
  /\ UNCHANGED <<registry, flusher, run>>

Rotation == Up /\ SinkIt /\ UNCHANGED <<registry, flusher, todo, run>>

(***************************************************************************)
(* flush_every, and the destructor of a worker.                            *)
(***************************************************************************)
MutexIsFree(w) == worker[w].in \notin {"callback", "flush_all"}
Starts(w) ==
  /\ worker' = [worker EXCEPT ![w].in = "wait"] /\ active_' = [active_ EXCEPT ![w] = TRUE]
  /\ periodic_flusher_' = w

OldKept == \* mutant: the old worker is not destroyed
  /\ Calls("flush_every")
  /\ \E w \in Workers :
       /\ worker[w].in = "none" /\ \A v \in 1 .. w - 1 : worker[v].in # "none"
       /\ Starts(w)
  /\ Done
  /\ UNCHANGED <<sink, registry, run>>

\* The new worker runs before the old one is told to stop.
flush_every ==
  /\ Calls("flush_every")
  /\ \E w \in Workers :
       /\ worker[w].in = "none" /\ \A v \in 1 .. w - 1 : worker[v].in # "none"
       /\ Starts(w)
  /\ todo' = Stops(periodic_flusher_) \o Tail(todo)
  /\ UNCHANGED <<sink, registry, run>>

NotTold == \* mutant: the worker is not told to stop
  /\ Calls("deactivate") /\ MutexIsFree(Old) /\ Done
  /\ UNCHANGED <<sink, registry, flusher, run>>

Deactivate ==
  /\ Calls("deactivate") /\ MutexIsFree(Old) /\ Done
  /\ active_' = [active_ EXCEPT ![Old] = FALSE]
  /\ UNCHANGED <<sink, registry, periodic_flusher_, worker, run>>

Join ==
  /\ Calls("join") /\ worker[Old].in = "ended" /\ Done
  /\ worker' = [worker EXCEPT ![Old] = NoWorker]
  /\ UNCHANGED <<sink, registry, periodic_flusher_, active_, run>>

(***************************************************************************)
(* The thread of a worker.                                                 *)
(***************************************************************************)
Becomes(w, state) == worker' = [worker EXCEPT ![w].in = state]

\* Notified, or after the interval.
WorkerEnds(w) ==
  /\ Up /\ worker[w].in = "wait" /\ ~active_[w]
  /\ Becomes(w, "ended")
  /\ UNCHANGED <<sink, registry, periodic_flusher_, active_, todo, run>>

WorkerCalls(w) ==
  /\ Up /\ worker[w].in = "wait" /\ active_[w]
  /\ Becomes(w, "callback")
  /\ UNCHANGED <<sink, registry, periodic_flusher_, active_, todo, run>>

DefaultOnly(w) == \* mutant: only the default logger is flushed
  /\ Up /\ worker[w].in = "callback" /\ MapIsFree
  /\ worker' = [worker EXCEPT ![w] = [in |-> "flush_all", left |-> loggers_ \cap {default_logger_}]]
  /\ UNCHANGED <<sink, registry, periodic_flusher_, active_, todo, run>>

FlushAll(w) ==
  /\ Up /\ worker[w].in = "callback" /\ MapIsFree
  /\ worker' = [worker EXCEPT ![w] = [in |-> "flush_all", left |-> loggers_]]
  /\ UNCHANGED <<sink, registry, periodic_flusher_, active_, todo, run>>

FlushOne(w) ==
  /\ Up /\ worker[w].in = "flush_all"
  /\ \E l \in worker[w].left :
       /\ IF l = "console" THEN UNCHANGED sink ELSE Flush(l)
       /\ worker' = [worker EXCEPT ![w].left = @ \ {l}]
  /\ UNCHANGED <<registry, periodic_flusher_, active_, todo, run>>

FlushAllEnds(w) ==
  /\ Up /\ worker[w].in = "flush_all" /\ worker[w].left = {}
  /\ Becomes(w, "wait")
  /\ UNCHANGED <<sink, registry, periodic_flusher_, active_, todo, run>>

Worker(w) ==
  WorkerEnds(w) \/ WorkerCalls(w) \/ FlushAll(w) \/ FlushOne(w) \/ FlushAllEnds(w)

(***************************************************************************)
(* The simulation, its end, and the next run.                              *)
(***************************************************************************)
Simulated(model) ==
  /\ Up /\ In("no_sink") /\ todo = <<>>
  /\ model \in ToSet(run.program)
  /\ UNCHANGED <<sink, registry, flusher, run>>
Logs1(model) == FoldFunction(+, 0, line) < MaxLines /\ todo' = <<Does("log", model)>>

Simulate == \E model \in {"tlms", "N25QX", "SDRAM"} : Simulated(model) /\ Logs1(model)

\* The tracers, at a rising edge with an acknowledge on their bus; at any other
\* change of clk they do nothing.  The report of an invalid word ends sc_main.
Parse(word) ==
  /\ Simulated("or1k")
  /\ IF parse(word) = Invalid /\ stop_on_invalid THEN Ends ELSE Logs1("or1k")

Trace == Simulated("or1k_data") /\ Logs1("or1k_data")

Finish ==
  /\ Up /\ In("no_sink") /\ todo = <<>> /\ Ends
  /\ UNCHANGED <<sink, registry, flusher, run>>

\* ~registry destroys default_logger_, periodic_flusher_ and loggers_, in this order.
StopFlusher ==
  /\ Calls("stop_flusher")
  /\ default_logger_' = "none"
  /\ todo' = Stops(periodic_flusher_) \o Tail(todo)
  /\ UNCHANGED <<sink, loggers_, flusher, run>>

Destroy ==
  /\ Calls("destroy") /\ Done
  /\ CloseAll /\ loggers_' = {} /\ run' = [run EXCEPT !.up = FALSE]
  /\ UNCHANGED <<default_logger_, flusher>>

\* abort, or a signal.
Crash ==
  /\ Up /\ Die /\ todo' = <<>> /\ run' = [run EXCEPT !.up = FALSE]
  /\ loggers_' = {} /\ UNCHANGED <<default_logger_, flusher>>

Simulation ==
  \/ Sink \/ SinkFails \/ Register \/ set_default_logger \/ LogLine \/ LogDefault
  \/ Rotation \/ flush_every \/ Deactivate \/ Join \/ StopFlusher \/ Destroy

Next ==
  \/ Simulation \/ Simulate \/ (\E word \in Words : Parse(word)) \/ Trace \/ Finish \/ Crash \/ Start
  \/ \E w \in Workers : Worker(w)

Spec == Init /\ [][Next]_vars

\* The calls the simulation has begun go on, each worker wakes up after its
\* interval, and a mutex that is free again and again is got in the end: a worker
\* sleeps for a second between two flushes.
FairSpec ==
  /\ Spec
  /\ SF_vars(Simulation) /\ \A w \in Workers : SF_vars(Worker(w))

(***************************************************************************)
(* Properties.                                                             *)
(***************************************************************************)
\* A logger that a model asks for is registered: get never returns null.
GetFindsLogger ==
  Up /\ todo # <<>> /\ Head(todo).call = "log" => Model \in loggers_

\* flush_all goes through a map that does not change meanwhile: what it has still
\* to flush is registered, and alive.
FlushesLiveLoggers ==
  Up => \A w \in Workers : worker[w].in = "flush_all" => worker[w].left \subseteq loggers_

\* There is one active worker, two while flush_every replaces one by the other,
\* and none is left when the loggers are destroyed.
OneFlusher ==
  /\ \A w \in Workers :
       Up /\ worker[w].in # "none" =>
         w = periodic_flusher_ \/ \E k \in 1 .. Len(todo) : todo[k].worker = w
  /\ Up /\ todo # <<>> /\ Head(todo).call = "destroy" => \A w \in Workers : worker[w].in = "none"

\* Once the flusher runs, a line that is in a buffer is not left there: it gets
\* into the file, or the run is over.
EveryLineIsFlushed ==
  \A l \in Logs : stream[l].buffer # <<>> ~> stream[l].buffer = <<>>

\* A run that has begun to end does: the worker is joined, whatever it is at.
EveryRunEnds == todo # <<>> /\ todo[Len(todo)].call = "destroy" ~> ~Up

\* What a tracer prints: a word is one instruction whatever the order of the list
\* of descriptors, but for l.macrc and l.maci, which are never found: l.movhi and
\* l.j match their words first.
Traced == "or1k" \in loggers_
OneInstruction == Traced => Hidden = {<<"l.macrc", "l.movhi">>, <<"l.maci", "l.j">>}

\* What is shown of a word as an operand is not what told the instruction, but
\* for three shifts, which show two bits of their code with the distance.
OperandsOutsideCode == Traced => ShowsItsCode = {"l.srli", "l.srai", "l.rori"}
=============================================================================
