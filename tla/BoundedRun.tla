----------------------------- MODULE BoundedRun -----------------------------
(***************************************************************************)
(* run_bounded of src/engine.rs: run a program with both of its output     *)
(* streams drained by a thread each, and kill it at a deadline.  The child *)
(* is arbitrary: it writes, closes its streams, exits, lingers or leaves a *)
(* stream to a process of its own, in any order, or does nothing at all.   *)
(*                                                                         *)
(* Data is counted in chunks of a pipe buffer.  Time is a counter that     *)
(* advances only while the runner waits with an unexpired timer: the       *)
(* runner and its threads are scheduled promptly, the child is not.        *)
(***************************************************************************)
EXTENDS Naturals, FiniteSets

CONSTANTS
    PipeCapacity,       \* chunks a pipe holds before a writer blocks
    Payload,            \* chunks written to the child's standard input
    MAX_BOUNDED_STREAM, \* chunks read from a stream before its end is dropped
    MaxOutput,          \* bound on the chunks the child writes to a stream
    REAP_BUDGET,        \* how long a child that closed its streams may linger
    MaxTime             \* bound on the clock

Streams == {"stdout", "stderr"}

\* Every request the manager sends fits a pipe: the probe's three messages and
\* a search for a directory name.
ASSUME BoundedRunAssumption ==
    /\ PipeCapacity \in Nat \ {0} /\ Payload \in 0..PipeCapacity
    /\ MAX_BOUNDED_STREAM \in Nat /\ MaxOutput \in Nat
    /\ REAP_BUDGET \in Nat /\ MaxTime \in Nat

VARIABLES
    now,        \* the clock
    run,        \* the call: where it is, its timers, what it has received
    child,      \* the process: "none", "running", "succeeded", "failed", "killed"
    pipe,       \* per stream: chunks buffered and written, is the write end open
    reader      \* per stream: the state of its thread and what it has read

runVars == <<now, run, child, pipe, reader>>

NoRun == [pc |-> "idle", deadline |-> 0, reap_deadline |-> 0, drained |-> {}, result |-> "none"]
NewPipe == [buffered |-> 0, written |-> 0, open |-> TRUE]
NewReader == [state |-> "off", read |-> 0]

\* The call has returned and what it held is dropped.
NothingRuns ==
    /\ run' = NoRun /\ child' = "none"
    /\ pipe' = [s \in Streams |-> NewPipe] /\ reader' = [s \in Streams |-> NewReader]

BoundedStart ==
    /\ now = 0 /\ run = NoRun /\ child = "none"
    /\ pipe = [s \in Streams |-> NewPipe] /\ reader = [s \in Streams |-> NewReader]

Gone == child \in {"succeeded", "failed", "killed"}

-----------------------------------------------------------------------------
(* The runner.                                                             *)

\* Command::spawn: the program may not start.
Spawn(timeout) ==
    /\ run.pc = "idle"
    /\ \/ /\ run' = [NoRun EXCEPT !.pc = "stdin", !.deadline = now + timeout]
          /\ child' = "running"
       \/ /\ run' = [NoRun EXCEPT !.pc = "returned", !.result = "spawn"]
          /\ child' = "none"
    /\ UNCHANGED <<now, pipe, reader>>

\* The request is written and closed before either stream is read, which never
\* blocks for one that fits a pipe; then the two threads start.
WriteStdin ==
    /\ run.pc = "stdin"
    /\ run' = [run EXCEPT !.pc = "drain"]
    /\ reader' = [s \in Streams |-> [NewReader EXCEPT !.state = "reading"]]
    /\ UNCHANGED <<now, child, pipe>>

\* The thread of stream s has something to read, an end to see, or its cap.
ReaderHasInput(s) ==
    /\ reader[s].state = "reading"
    /\ pipe[s].buffered > 0 \/ ~pipe[s].open \/ reader[s].read = MAX_BOUNDED_STREAM

\* read_to_end on the first MAX_BOUNDED_STREAM chunks, then send.
Read(s) ==
    /\ ReaderHasInput(s)
    /\ IF pipe[s].buffered > 0 /\ reader[s].read < MAX_BOUNDED_STREAM
         THEN /\ pipe' = [pipe EXCEPT ![s].buffered = @ - 1]
              /\ reader' = [reader EXCEPT ![s].read = @ + 1]
         ELSE /\ reader' = [reader EXCEPT ![s].state = "sent"]
              /\ UNCHANGED pipe
    /\ UNCHANGED <<now, run, child>>

\* The loop that ends once one of the two streams is drained.
MutReceive(s) ==
    /\ run.pc = "drain" /\ reader[s].state = "sent" /\ now <= run.deadline
    /\ reader' = [reader EXCEPT ![s].state = "received"]
    /\ run' = [run EXCEPT !.drained = @ \cup {s}, !.pc = "reap",
                          !.reap_deadline = now + REAP_BUDGET]
    /\ UNCHANGED <<now, child, pipe>>

\* recv_timeout answers; after the second stream the child has to be reaped.
Receive(s) ==
    /\ run.pc = "drain" /\ reader[s].state = "sent" /\ now <= run.deadline
    /\ reader' = [reader EXCEPT ![s].state = "received"]
    /\ run' = LET got == run.drained \cup {s}
              IN  IF got = Streams
                    THEN [run EXCEPT !.drained = got, !.pc = "reap",
                                     !.reap_deadline = now + REAP_BUDGET]
                    ELSE [run EXCEPT !.drained = got]
    /\ UNCHANGED <<now, child, pipe>>

Kill == child' = IF child = "running" THEN "killed" ELSE child

\* A child that is killed takes its own ends of the pipes with it.
CloseOwn == pipe' = IF child = "running" THEN [s \in Streams |-> [pipe[s] EXCEPT !.open = FALSE]]
                    ELSE pipe

MutTimeOut ==
    /\ run.pc = "drain" /\ now >= run.deadline
    /\ run' = [run EXCEPT !.pc = "returned", !.result = "timed_out"]
    /\ UNCHANGED <<now, child, pipe, reader>>

\* Waiting for the child at the deadline without killing it.
MutWaitAtTimeOut ==
    /\ run.pc = "drain" /\ now >= run.deadline /\ Gone
    /\ run' = [run EXCEPT !.pc = "returned", !.result = "timed_out"]
    /\ UNCHANGED <<now, child, pipe, reader>>

TimeOut ==
    /\ run.pc = "drain" /\ now >= run.deadline
    /\ Kill /\ CloseOwn
    /\ run' = [run EXCEPT !.pc = "returned", !.result = "timed_out"]
    /\ UNCHANGED <<now, reader>>

\* try_wait until the child is gone, and no longer than the reap budget.
Reap ==
    /\ run.pc = "reap" /\ (Gone \/ now >= run.reap_deadline)
    /\ Kill /\ CloseOwn
    /\ run' = [run EXCEPT !.pc = "returned",
                          !.result = IF child = "succeeded" THEN "ok" ELSE "refused"]
    /\ UNCHANGED <<now, reader>>

\* Nothing the manager could do is left to do, and a timer is still running.
Waiting ==
    /\ \/ run.pc = "drain" /\ now < run.deadline
       \/ run.pc = "reap" /\ ~Gone /\ now < run.reap_deadline
    /\ \A s \in Streams : ~ReaderHasInput(s) /\ reader[s].state # "sent"

Tick ==
    /\ Waiting /\ now < MaxTime
    /\ now' = now + 1
    /\ UNCHANGED <<run, child, pipe, reader>>

-----------------------------------------------------------------------------
(* The child, which may do any of this or nothing.                         *)

ChildWrites(s) ==
    /\ child = "running" /\ pipe[s].open /\ pipe[s].written < MaxOutput
    /\ pipe[s].buffered < PipeCapacity
    /\ reader[s].state \in {"off", "reading"}
    /\ pipe' = [pipe EXCEPT ![s].buffered = @ + 1, ![s].written = @ + 1]
    /\ UNCHANGED <<now, run, child, reader>>

ChildCloses(s) ==
    /\ child = "running" /\ pipe[s].open
    /\ pipe' = [pipe EXCEPT ![s].open = FALSE]
    /\ UNCHANGED <<now, run, child, reader>>

\* A process the child started may inherit a stream and keep it open.
ChildExits ==
    /\ child = "running"
    /\ child' \in {"succeeded", "failed"}
    /\ \E kept \in SUBSET Streams :
         pipe' = [s \in Streams |-> [pipe[s] EXCEPT !.open = @ /\ s \in kept]]
    /\ UNCHANGED <<now, run, reader>>

Manager ==
    \/ WriteStdin \/ TimeOut \/ Reap
    \/ \E s \in Streams : Read(s) \/ Receive(s)

Child == ChildExits \/ \E s \in Streams : ChildWrites(s) \/ ChildCloses(s)

-----------------------------------------------------------------------------

\* A run that returns an answer returns all of it: everything the child wrote
\* to a stream, up to the cap.
AnswerIsWhole ==
    run.result \in {"ok", "refused"} =>
      \A s \in Streams : reader[s].read = pipe[s].written \/ reader[s].read = MAX_BOUNDED_STREAM

\* No call leaves its child behind: whatever happened, the process is gone when
\* the call has returned.
NoChildLeft == run.pc \in {"idle", "returned"} => child # "running"

=============================================================================
