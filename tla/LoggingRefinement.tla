-------------------------- MODULE LoggingRefinement --------------------------
(***************************************************************************)
(* The files of each log, the oldest first, and the buffer of its stream   *)
(* are one log that lasts from one run of the program to the next.         *)
(***************************************************************************)
EXTENDS Logging

Oldest(f) == [i \in 1 .. max_files + 1 |-> f[max_files + 1 - i]]
Laid(f) == FlattenSeq(Oldest(f))

Log == INSTANCE PersistentLog WITH
  kept <- [l \in Logs |-> Laid(files[l])], pending <- [l \in Logs |-> stream[l].buffer],
  written <- line, Enough <- max_files * max_size

\* Each log keeps its lines in order, and gives up the oldest ones only, whoever
\* else logs, flushes or fails.
ImplementsLog == Log!Spec
=============================================================================
