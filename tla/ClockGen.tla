------------------------------- MODULE ClockGen -------------------------------
(***************************************************************************)
(* models/clocking/clockgen.hpp: measure_edges counts the picoseconds of a *)
(* high phase of clk_i and raises locked, clk_gen toggles clk_o from then  *)
(* on.  The kernel runs what is runnable, updates the signals, and lets    *)
(* time go on when there is nothing left to run: a wait of no time is over *)
(* at the next update.                                                     *)
(***************************************************************************)
EXTENDS Integers

CONSTANTS
  DIV, MULT, \* the parameters of the template
  Clocks     \* the clocks at clk_i: phases, first level, time of the first edge

ASSUME ClockGenAssumption ==
  /\ DIV \in Nat \ {0} /\ MULT \in Nat \ {0}
  /\ Clocks \subseteq [hi : Nat \ {0}, lo : Nat \ {0}, first : BOOLEAN, edge : Nat]

VARIABLES
  clock,               \* the clock at clk_i
  clk_i, locked,       \* the signals, [now, next]
  clk_o,
  pos_duration, unitialized,
  at,                  \* what each process goes on with
  wake,                \* picoseconds until it does, -1 if it does not wait for time
  runnable,
  lead                 \* rising edges of clk_i times MULT less those of clk_o times
                       \* DIV since it is locked

vars == <<clock, clk_i, locked, clk_o, pos_duration, unitialized, at, wake, runnable, lead>>

Processes == {"clk_i", "measure_edges", "clk_gen"}
Signal(v) == [now |-> v, next |-> v]

Init ==
  /\ clock \in Clocks
  /\ clk_i = Signal(clock.first) /\ locked = Signal(FALSE) /\ clk_o = FALSE
  /\ pos_duration = 0 /\ unitialized = TRUE
  /\ at = [measure_edges |-> "look", clk_gen |-> "locked"]
  /\ wake = [p \in Processes |-> IF p = "clk_i" THEN clock.edge ELSE -1]
  /\ runnable = {"measure_edges"} /\ lead = 0

Runs(p) == p \in runnable /\ runnable' = runnable \ {p}
Wait(p, time) == wake' = [wake EXCEPT ![p] = time]
GoesTo(p, place) == at' = [at EXCEPT ![p] = place]

\* lead is not followed beyond what the property allows.
Within(n) ==
  IF n > MULT THEN MULT + 1 ELSE IF n < -(DIV + MULT) THEN -(DIV + MULT) - 1 ELSE n

\* The clock at clk_i.
Edge ==
  /\ Runs("clk_i")
  /\ clk_i' = [clk_i EXCEPT !.next = ~@]
  /\ Wait("clk_i", IF clk_i.now THEN clock.lo ELSE clock.hi)
  /\ lead' = IF locked.now /\ ~clk_i.now THEN Within(lead + MULT) ELSE lead
  /\ UNCHANGED <<clock, locked, clk_o, pos_duration, unitialized, at>>

Measure == Runs("measure_edges") /\ UNCHANGED <<clock, clk_i, clk_o, lead>>

FirstIsMissed == \* mutant: counting starts with the second sample
  /\ Measure /\ clk_i.now
  /\ at.measure_edges = "high" \/ (at.measure_edges = "look" /\ unitialized)
  /\ pos_duration' = IF at.measure_edges = "look" THEN pos_duration ELSE pos_duration + 1
  /\ GoesTo("measure_edges", "high") /\ Wait("measure_edges", 1)
  /\ UNCHANGED <<locked, unitialized>>

\* A picosecond of the high phase; it goes on at the same place.
CountHigh ==
  /\ Measure /\ clk_i.now
  /\ at.measure_edges = "high" \/ (at.measure_edges = "look" /\ unitialized)
  /\ pos_duration' = pos_duration + 1
  /\ GoesTo("measure_edges", "high") /\ Wait("measure_edges", 1)
  /\ UNCHANGED <<locked, unitialized>>

StillLow ==
  /\ Measure /\ ~clk_i.now /\ at.measure_edges = "look" /\ unitialized
  /\ Wait("measure_edges", 1)
  /\ UNCHANGED <<locked, pos_duration, unitialized, at>>

HighEnds ==
  /\ Measure /\ ~clk_i.now /\ at.measure_edges = "high"
  /\ unitialized' = FALSE
  /\ GoesTo("measure_edges", "look") /\ Wait("measure_edges", 1)
  /\ UNCHANGED <<locked, pos_duration>>

Lock ==
  /\ Measure /\ at.measure_edges = "look" /\ ~unitialized
  /\ locked' = [locked EXCEPT !.next = TRUE]
  /\ GoesTo("measure_edges", "done")
  /\ UNCHANGED <<pos_duration, unitialized, wake>>

DividesFirst == (DIV \div MULT) * pos_duration \* mutant: DIV/MULT*pos_duration
UpsideDown == (pos_duration \div DIV) * MULT   \* mutant: the two swapped

HalfPeriod == (pos_duration \div MULT) * DIV

\* clk_gen rises and falls in turn; locked is never taken back.
Toggle ==
  /\ Runs("clk_gen") /\ locked.now
  /\ clk_o' = (at.clk_gen # "high")
  /\ GoesTo("clk_gen", IF clk_o' THEN "high" ELSE "low") /\ Wait("clk_gen", HalfPeriod)
  /\ lead' = IF clk_o' THEN Within(lead - DIV) ELSE lead
  /\ UNCHANGED <<clock, clk_i, locked, pos_duration, unitialized>>

\* The kernel.
Settled ==
  /\ runnable = {} /\ \A p \in Processes : wake[p] # 0
  /\ clk_i.now = clk_i.next /\ locked.now = locked.next

Update ==
  /\ runnable = {} /\ ~Settled
  /\ clk_i' = Signal(clk_i.next) /\ locked' = Signal(locked.next)
  /\ runnable' = {p \in Processes : wake[p] = 0}
                   \cup (IF locked.now # locked.next THEN {"clk_gen"} ELSE {})
  /\ wake' = [p \in Processes |-> IF wake[p] = 0 THEN -1 ELSE wake[p]]
  /\ UNCHANGED <<clock, clk_o, pos_duration, unitialized, at, lead>>

Tick ==
  /\ Settled
  /\ runnable' = {p \in Processes : wake[p] = 1}
  /\ wake' = [p \in Processes |-> IF wake[p] > 1 THEN wake[p] - 1 ELSE -1]
  /\ UNCHANGED <<clock, clk_i, locked, clk_o, pos_duration, unitialized, at, lead>>

Next == Edge \/ CountHigh \/ StillLow \/ HighEnds \/ Lock \/ Toggle \/ Update \/ Tick

\* The kernel runs as long as the simulation does.
Spec == Init /\ [][Next]_vars
FairSpec == Spec /\ WF_vars(Next)

(***************************************************************************)
(* Properties.                                                             *)
(***************************************************************************)
Measured == IF clock.first THEN clock.edge + 1 ELSE clock.hi

TypeOK ==
  /\ clock \in Clocks /\ runnable \subseteq Processes
  /\ clk_i \in [now : BOOLEAN, next : BOOLEAN] /\ locked \in [now : BOOLEAN, next : BOOLEAN]
  /\ clk_o \in BOOLEAN /\ unitialized \in BOOLEAN /\ pos_duration \in 0 .. Measured
  /\ at \in [measure_edges : {"look", "high", "done"}, clk_gen : {"locked", "high", "low"}]
  /\ wake \in [Processes -> Nat \cup {-1}] /\ lead \in -(DIV + MULT) - 1 .. MULT + 1

\* What is measured is the first high phase, to the picosecond, when clk_i starts
\* low, and the rest of the phase and one sample more when it starts high.
MeasuresFirstHigh == locked.next => pos_duration = Measured

\* With a symmetric clk_i that starts low clk_o has MULT rising edges for DIV of
\* clk_i, for ever and not only over one window; if MULT does not divide the
\* high phase it is faster, and never slower.
EdgesInRatio ==
  clock.hi = clock.lo /\ ~clock.first =>
    lead <= MULT /\ (clock.hi % MULT = 0 => lead >= -(DIV + MULT))

\* Time goes on, unless what is measured is shorter than MULT: then both waits are
\* of no time, and the simulation stays where it is.
TimeGoesOn ==
  /\ Measured >= MULT => []<>Settled
  /\ Measured < MULT => <>[]~Settled
=============================================================================
