---------------------------- MODULE PersistentLog ----------------------------
(***************************************************************************)
(* What rotating logs promise: the lines are kept in the order in which    *)
(* they were written, the oldest ones are given up only for newer ones, a  *)
(* crash takes the newest, and only a failing file operation makes a hole. *)
(***************************************************************************)
EXTENDS Integers, Sequences, SequencesExt

CONSTANTS
  Logs,
  Enough  \* lines that are not given up, unless something has failed

VARIABLES \* of each log
  kept,     \* lines in files, oldest first
  pending,  \* lines in the buffer of the stream
  written,  \* lines written so far; the n-th one is n
  faults    \* failing file operations and crashes, of all logs

vars == <<kept, pending, written, faults>>

Init ==
  /\ kept = [l \in Logs |-> <<>>] /\ pending = [l \in Logs |-> <<>>]
  /\ written = [l \in Logs |-> 0] /\ faults = 0

Lines(l) == kept[l] \o pending[l]
Lines1(l) == kept'[l] \o pending'[l]

\* A line goes into the buffer, which may then be written out.
Write(l) ==
  /\ written'[l] = written[l] + 1 /\ UNCHANGED faults
  /\ Lines1(l) = Append(Lines(l), written'[l]) /\ IsPrefix(kept[l], kept'[l])

\* From the buffer to the file.
Persist(l) ==
  /\ Lines1(l) = Lines(l) /\ IsPrefix(kept[l], kept'[l])
  /\ written'[l] = written[l] /\ UNCHANGED faults

Expire(l) ==
  /\ \E n \in 1 .. Len(kept[l]) : kept'[l] = SubSeq(kept[l], n + 1, Len(kept[l]))
  /\ faults = 0 => Len(kept'[l]) >= Enough
  /\ pending'[l] = pending[l] /\ written'[l] = written[l] /\ UNCHANGED faults

\* What was in the buffer is lost.
Crash(l) ==
  /\ pending'[l] = <<>> /\ faults' = faults + 1
  /\ kept'[l] = kept[l] /\ written'[l] = written[l]

\* The line is not written; the oldest lines or the newest, or both, may be lost.
\* For the other logs nothing has failed.
Fail(l) ==
  /\ faults' = faults + 1 /\ written'[l] \in {written[l], written[l] + 1}
  /\ \E i, j \in 0 .. Len(kept[l]) : kept'[l] = SubSeq(kept[l], i + 1, j)
  /\ pending'[l] = pending[l]

Step(l) == Write(l) \/ Persist(l) \/ Expire(l) \/ Crash(l) \/ Fail(l)

\* A call may flush all logs, and a crash is one of all of them.
Next == \A l \in Logs : Step(l)

Spec == Init /\ [][Next]_vars
=============================================================================
