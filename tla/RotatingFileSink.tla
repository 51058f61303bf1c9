-------------------------- MODULE RotatingFileSink --------------------------
(***************************************************************************)
(* The rotating file sinks of spdlog, one for each logger: sink_it_ and    *)
(* rotate_ of sinks/rotating_file_sink-inl.h on the stream of              *)
(* details/file_helper-inl.h.  All lines are of the same size, which is the *)
(* unit of max_size_.  The thread that logs holds the sink's mutex from    *)
(* Begin to the end, so that a rotation is many steps to the file system   *)
(* and one to the thread that flushes.                                     *)
(***************************************************************************)
EXTENDS Integers, Sequences, SequencesExt

CONSTANTS Logs, max_size, max_files, MaxFaults

ASSUME SinkAssumption ==
  /\ max_size \in Nat \ {0} /\ max_files \in Nat \ {0} /\ MaxFaults \in Nat

VARIABLES
  files,        \* files[l][i]: the i-th file of the log; i = 0 is the one written to
  exists,       \* the indices of the files there are
  stream,       \* fd_ and what is still in the buffer of the FILE
  current_size_,
  line,         \* lines logged so far; the n-th one is n
  at,           \* where the thread that logs is: [in, log, i]
  faults        \* failing calls and crashes so far

sink == <<files, exists, stream, current_size_, line, at, faults>>

Index == 0 .. max_files
Free == [in |-> "no_sink", log |-> "none", i |-> 0]
Closed == [open |-> FALSE, buffer |-> <<>>]
Opened == [open |-> TRUE, buffer |-> <<>>]

InitSink ==
  /\ files = [l \in Logs |-> [i \in Index |-> <<>>]] /\ exists = [l \in Logs |-> {}]
  /\ stream = [l \in Logs |-> Closed] /\ current_size_ = [l \in Logs |-> 0]
  /\ line = [l \in Logs |-> 0] /\ at = Free /\ faults = 0

In(place) == at.in = place
Goes(place, i) == at' = [at EXCEPT !.in = place, !.i = i]
Fault == faults < MaxFaults /\ faults' = faults + 1

\* fopen creates the file; "wb" empties it.
Open(l, truncate) ==
  /\ stream' = [stream EXCEPT ![l] = Opened]
  /\ exists' = [exists EXCEPT ![l] = @ \cup {0}]
  /\ files' = [files EXCEPT ![l][0] = IF truncate THEN <<>> ELSE @]

(***************************************************************************)
(* The constructor.                                                        *)
(***************************************************************************)
Construct(l) ==
  /\ Open(l, FALSE) /\ current_size_' = [current_size_ EXCEPT ![l] = Len(files[l][0])]
  /\ UNCHANGED <<line, at, faults>>

\* A second sink for the file, which is destroyed before it has got a line.
ConstructAgain(l) ==
  /\ exists' = [exists EXCEPT ![l] = @ \cup {0}]
  /\ UNCHANGED <<files, stream, current_size_, line, at, faults>>

(***************************************************************************)
(* sink_it_, with the sink's mutex held.                                   *)
(***************************************************************************)
AtTheLimit(size) == size > max_size + 1 \* mutant: one line too many

TooLong(size) == size > max_size

\* Closing the stream writes its buffer out.
Written(l) == [files EXCEPT ![l][0] = @ \o stream[l].buffer]

TooFewFiles(l) == \* mutant: the oldest file is not part of the rotation
  /\ In("no_sink")
  /\ current_size_' = [current_size_ EXCEPT ![l] = @ + 1]
  /\ at' = [in |-> IF TooLong(current_size_[l] + 1) THEN "rotate" ELSE "write",
            log |-> l, i |-> max_files - 1]
  /\ IF TooLong(current_size_[l] + 1)
       THEN files' = Written(l) /\ stream' = [stream EXCEPT ![l] = Closed]
       ELSE UNCHANGED <<files, stream>>
  /\ UNCHANGED <<exists, line, faults>>

Begin(l) ==
  /\ In("no_sink")
  /\ current_size_' = [current_size_ EXCEPT ![l] = @ + 1]
  /\ at' = [in |-> IF TooLong(current_size_[l] + 1) THEN "rotate" ELSE "write",
            log |-> l, i |-> max_files]
  /\ IF TooLong(current_size_[l] + 1)
       THEN files' = Written(l) /\ stream' = [stream EXCEPT ![l] = Closed]
       ELSE UNCHANGED <<files, stream>>
  /\ UNCHANGED <<exists, line, faults>>

Moved(l, i) == files' = [files EXCEPT ![l][i] = files[l][i - 1], ![l][i - 1] = <<>>]

\* Every file that there is takes the place of the next older one.
Shift ==
  /\ In("rotate") /\ at.i > 0
  /\ IF at.i - 1 \in exists[at.log]
       THEN /\ Moved(at.log, at.i)
            /\ exists' = [exists EXCEPT ![at.log] = (@ \ {at.i - 1}) \cup {at.i}]
       ELSE UNCHANGED <<files, exists>>
  /\ Goes("rotate", at.i - 1)
  /\ UNCHANGED <<stream, current_size_, line, faults>>

\* The target has been removed, but the file cannot be renamed.
RenameFails ==
  /\ In("rotate") /\ at.i > 0 /\ at.i - 1 \in exists[at.log] /\ Fault
  /\ files' = [files EXCEPT ![at.log][at.i] = <<>>]
  /\ exists' = [exists EXCEPT ![at.log] = @ \ {at.i}]
  /\ Goes("retry", at.i)
  /\ UNCHANGED <<stream, current_size_, line>>

Retried ==
  /\ In("retry")
  /\ Moved(at.log, at.i)
  /\ exists' = [exists EXCEPT ![at.log] = (@ \ {at.i - 1}) \cup {at.i}]
  /\ Goes("rotate", at.i - 1)
  /\ UNCHANGED <<stream, current_size_, line, faults>>

\* logger::sink_it_ catches what the sink throws: the line is not written.
Thrown == at' = Free /\ line' = [line EXCEPT ![at.log] = @ + 1]

\* The file is emptied anyway.
RetryFails ==
  /\ In("retry") /\ Fault /\ Thrown
  /\ Open(at.log, TRUE) /\ current_size_' = [current_size_ EXCEPT ![at.log] = 0]

Reopen ==
  /\ In("rotate") /\ at.i = 0
  /\ Open(at.log, TRUE) /\ current_size_' = [current_size_ EXCEPT ![at.log] = 1]
  /\ Goes("write", 0)
  /\ UNCHANGED <<line, faults>>

SizeCleared == \* mutant: a failing open clears current_size_
  /\ In("rotate") /\ at.i = 0 /\ Fault /\ Thrown
  /\ current_size_' = [current_size_ EXCEPT ![at.log] = 0]
  /\ UNCHANGED <<files, exists, stream>>

\* Five tries in vain, here or after RetryFails: fd_ stays null and current_size_
\* above max_size_.
OpenFails ==
  /\ (In("rotate") /\ at.i = 0) \/ In("retry")
  /\ Fault /\ Thrown
  /\ UNCHANGED <<files, exists, stream, current_size_>>

\* The stream may write its buffer out at any line.
Write ==
  /\ In("write")
  /\ line' = [line EXCEPT ![at.log] = @ + 1] /\ at' = Free
  /\ LET buffer == Append(stream[at.log].buffer, line'[at.log]) IN
       \/ stream' = [stream EXCEPT ![at.log].buffer = buffer] /\ UNCHANGED files
       \/ /\ stream' = [stream EXCEPT ![at.log].buffer = <<>>]
          /\ files' = [files EXCEPT ![at.log][0] = @ \o buffer]
  /\ UNCHANGED <<exists, current_size_, faults>>

WriteFails ==
  /\ In("write") /\ Fault /\ Thrown
  /\ UNCHANGED <<files, exists, stream, current_size_>>

SinkIt ==
  \/ Shift \/ RenameFails \/ Retried \/ RetryFails \/ Reopen \/ OpenFails
  \/ Write \/ WriteFails

(***************************************************************************)
(* flush, by whoever takes the sink's mutex; fflush(nullptr) flushes every *)
(* stream.                                                                 *)
(***************************************************************************)
Flushed(logs) ==
  /\ files' = [l \in Logs |-> IF l \in logs THEN Written(l)[l] ELSE files[l]]
  /\ stream' = [l \in Logs |-> IF l \in logs THEN [stream[l] EXCEPT !.buffer = <<>>] ELSE stream[l]]

Flush(l) ==
  /\ at.log # l
  /\ Flushed(IF stream[l].open THEN {l} ELSE Logs)
  /\ UNCHANGED <<exists, current_size_, line, at, faults>>

\* The destructors of the sinks.
CloseAll ==
  /\ files' = [l \in Logs |-> Written(l)[l]] /\ stream' = [l \in Logs |-> Closed]
  /\ UNCHANGED <<exists, current_size_, line, at, faults>>

\* The buffers are lost; a new run finds the files.
Die ==
  /\ Fault
  /\ stream' = [l \in Logs |-> Closed] /\ at' = Free
  /\ UNCHANGED <<files, exists, current_size_, line>>

(***************************************************************************)
(* Properties.                                                             *)
(***************************************************************************)
\* No file grows beyond max_size_, whatever fails, and the lines of an earlier
\* run are counted.
FilesAreBounded ==
  \A l \in Logs :
    /\ \A i \in 1 .. max_files : Len(files[l][i]) <= max_size
    /\ Len(Written(l)[l][0]) <= max_size

\* fwrite is never called with the null stream a failing open has left: while it
\* is null current_size_ is above max_size_, so that every line tries to open
\* the file again.
NeverWritesToNull == In("write") => stream[at.log].open
=============================================================================
