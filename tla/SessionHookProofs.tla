------------------------- MODULE SessionHookProofs -------------------------
(***************************************************************************)
(* What a bounded run and the session-start hook over it guarantee, for    *)
(* every timeout, budget, pipe capacity and size limit, and whatever the   *)
(* children do.                                                            *)
(***************************************************************************)
EXTENDS SessionHook, TLAPS

RunType == [pc : {"idle", "stdin", "drain", "reap", "returned"}, deadline : Nat,
            reap_deadline : Nat, drained : SUBSET Streams,
            result : {"none", "spawn", "timed_out", "ok", "refused"}]
PipeType == [buffered : Nat, written : Nat, open : BOOLEAN]
ReaderType == [state : {"off", "reading", "sent", "received"}, read : 0..MAX_BOUNDED_STREAM]

Types ==
    /\ now \in Nat /\ run \in RunType
    /\ child \in {"none", "running", "succeeded", "failed", "killed"}
    /\ pipe \in [Streams -> PipeType] /\ reader \in [Streams -> ReaderType]

\* Every chunk of a stream is in the pipe or was read, until its thread stops;
\* a thread that stopped has read the stream to its end or to the cap.
Accounted(s) ==
    /\ reader[s].state \in {"off", "reading"} => pipe[s].written = reader[s].read + pipe[s].buffered
    /\ reader[s].state \in {"sent", "received"} =>
         reader[s].read = pipe[s].written \/ reader[s].read = MAX_BOUNDED_STREAM

\* An answer is only given once both streams were received.
Collected ==
    /\ \A s \in run.drained : reader[s].state = "received"
    /\ run.pc = "reap" \/ run.result \in {"ok", "refused"} => run.drained = Streams

\* No timer of a run goes beyond the hook's budget, but for the reaping.
Timers ==
    /\ now <= TOTAL_TIME_BUDGET + REAP_BUDGET
    /\ run.pc \in {"stdin", "drain"} => now <= run.deadline /\ run.deadline <= TOTAL_TIME_BUDGET
    /\ run.pc = "reap" =>
         now <= run.reap_deadline /\ run.reap_deadline <= TOTAL_TIME_BUDGET + REAP_BUDGET

\* The threads start afresh with every run.
Fresh == run.pc \in {"idle", "stdin"} => \A s \in Streams : reader[s] = NewReader

IInv == Types /\ (\A s \in Streams : Accounted(s)) /\ Collected /\ NoChildLeft /\ Timers /\ Fresh

-----------------------------------------------------------------------------

LEMMA Constants ==
    /\ PipeCapacity \in Nat /\ MAX_BOUNDED_STREAM \in Nat /\ MaxOutput \in Nat
    /\ REAP_BUDGET \in Nat /\ TOTAL_TIME_BUDGET \in Nat
    /\ \A stage \in {"probe", "launch", "where", "search"} : TimeoutOf[stage] \in Nat
BY BoundedRunAssumption, SessionHookAssumption DEF TimeoutOf

\* The share of a stage is no more than what is left of the budget.
LEMMA SliceFits ==
    ASSUME now \in Nat, NEW timeout \in Nat
    PROVE  /\ slice(timeout) \in Nat
           /\ slice(timeout) > 0 => now + slice(timeout) <= TOTAL_TIME_BUDGET
BY Constants DEF slice

LEMMA FreshTypes ==
    /\ NoRun \in RunType /\ NewPipe \in PipeType /\ NewReader \in ReaderType
    /\ NoRun.pc = "idle" /\ NoRun.drained = {} /\ NoRun.result = "none"
    /\ NewPipe.buffered = 0 /\ NewPipe.written = 0
    /\ NewReader.read = 0 /\ NewReader.state = "off"
BY Constants DEF NoRun, NewPipe, NewReader, RunType, PipeType, ReaderType

LEMMA InitIInv == Init => IInv
BY FreshTypes, Constants
DEF Init, BoundedStart, IInv, Types, Accounted, Collected, NoChildLeft, Timers, Fresh

-----------------------------------------------------------------------------
(* The runner's steps.                                                     *)

LEMMA SpawnStep ==
    ASSUME IInv, NEW timeout \in Nat, now + timeout <= TOTAL_TIME_BUDGET, Spawn(timeout)
    PROVE  IInv'
<1>1. UNCHANGED <<now, pipe, reader>> /\ run.pc = "idle"
  BY DEF Spawn
<1>2. /\ run' \in RunType /\ run'.drained = {} /\ run'.result \in {"none", "spawn"}
      /\ \/ run'.pc = "stdin" /\ run'.deadline = now + timeout /\ child' = "running"
         \/ run'.pc = "returned" /\ child' = "none"
  <2>1. now + timeout \in Nat
    BY DEF IInv, Types
  <2>2. CASE run' = [NoRun EXCEPT !.pc = "stdin", !.deadline = now + timeout] /\ child' = "running"
    BY <2>1, <2>2 DEF NoRun, RunType
  <2>3. CASE run' = [NoRun EXCEPT !.pc = "returned", !.result = "spawn"] /\ child' = "none"
    BY <2>3 DEF NoRun, RunType
  <2> QED BY <2>2, <2>3 DEF Spawn
<1> QED BY <1>1, <1>2, Constants
        DEF IInv, Types, Accounted, Collected, NoChildLeft, Timers, Fresh

LEMMA WriteStdinStep ==
    ASSUME IInv, WriteStdin
    PROVE  IInv'
<1> DEFINE started == [NewReader EXCEPT !.state = "reading"]
<1>1. started \in ReaderType /\ started.state = "reading" /\ started.read = 0
  BY FreshTypes DEF ReaderType
<1>2. reader' = [s \in Streams |-> started] /\ run' = [run EXCEPT !.pc = "drain"]
      /\ UNCHANGED <<now, child, pipe>> /\ run.pc = "stdin"
  BY DEF WriteStdin
<1>3. \A s \in Streams : pipe[s].written = 0 + pipe[s].buffered
  BY <1>2, FreshTypes DEF IInv, Fresh, Accounted, Types, PipeType
<1>4. run.drained = {}
  BY <1>2, FreshTypes DEF IInv, Collected, Fresh, Types, RunType
<1> HIDE DEF started
<1> QED BY <1>1, <1>2, <1>3, <1>4, Constants
        DEF IInv, Types, RunType, Accounted, Collected, NoChildLeft, Timers, Fresh

LEMMA ReadStep ==
    ASSUME IInv, NEW s \in Streams, Read(s)
    PROVE  IInv'
<1>1. reader[s].state = "reading" /\ UNCHANGED <<now, run, child>>
  BY DEF Read, ReaderHasInput
<1>2. run.pc \notin {"idle", "stdin"} /\ s \notin run.drained
  BY <1>1, FreshTypes DEF IInv, Fresh, Collected
<1>s. pipe[s] \in PipeType /\ reader[s] \in ReaderType
  BY DEF IInv, Types
<1>c. ASSUME \A t \in Streams \ {s} : reader'[t] = reader[t]
      PROVE  Collected' /\ NoChildLeft' /\ Timers' /\ Fresh'
  BY <1>1, <1>2, <1>c DEF IInv, Types, RunType, Collected, NoChildLeft, Timers, Fresh
<1>3. CASE pipe[s].buffered > 0 /\ reader[s].read < MAX_BOUNDED_STREAM
  <2>1. /\ pipe' = [pipe EXCEPT ![s].buffered = @ - 1]
        /\ reader' = [reader EXCEPT ![s].read = @ + 1]
    BY <1>3 DEF Read
  <2>2. \A t \in Streams \ {s} : reader'[t] = reader[t] /\ pipe'[t] = pipe[t]
    BY <2>1 DEF IInv, Types
  <2>3. /\ pipe'[s] \in PipeType /\ reader'[s] \in ReaderType
        /\ pipe'[s].written = pipe[s].written
        /\ pipe'[s].buffered = pipe[s].buffered - 1 /\ reader'[s].read = reader[s].read + 1
        /\ reader'[s].state = "reading"
    BY <1>1, <1>3, <2>1, <1>s, Constants DEF IInv, Types, PipeType, ReaderType
  <2>4. Types'
    BY <1>1, <2>1, <2>2, <2>3 DEF IInv, Types
  <2>5. \A t \in Streams : Accounted(t)'
    BY <1>1, <1>3, <1>s, <2>2, <2>3, Constants DEF IInv, Accounted, PipeType, ReaderType
  <2> QED BY <1>c, <2>2, <2>4, <2>5 DEF IInv
<1>4. CASE ~(pipe[s].buffered > 0 /\ reader[s].read < MAX_BOUNDED_STREAM)
  <2>1. reader' = [reader EXCEPT ![s].state = "sent"] /\ UNCHANGED pipe
    BY <1>4 DEF Read
  <2>2. \A t \in Streams \ {s} : reader'[t] = reader[t] /\ pipe'[t] = pipe[t]
    BY <2>1 DEF IInv, Types
  <2>3. /\ pipe'[s] \in PipeType /\ reader'[s] \in ReaderType
        /\ pipe'[s].written = pipe[s].written
        /\ reader'[s].read = reader[s].read /\ reader'[s].state = "sent"
    BY <1>1, <1>4, <2>1, <1>s, Constants DEF IInv, Types, PipeType, ReaderType
  <2>4. Types'
    BY <1>1, <2>1, <2>2, <2>3 DEF IInv, Types
  <2>5. \A t \in Streams : Accounted(t)'
    BY <1>1, <1>4, <1>s, <2>2, <2>3, Constants DEF IInv, Accounted, PipeType, ReaderType
  <2> QED BY <1>c, <2>2, <2>4, <2>5 DEF IInv
<1> QED BY <1>3, <1>4

LEMMA ReceiveStep ==
    ASSUME IInv, NEW s \in Streams, Receive(s)
    PROVE  IInv'
<1>1. /\ run.pc = "drain" /\ reader[s].state = "sent" /\ now <= run.deadline
      /\ reader' = [reader EXCEPT ![s].state = "received"]
      /\ UNCHANGED <<now, child, pipe>>
  BY DEF Receive
<1>r. run \in RunType /\ now + REAP_BUDGET \in Nat
  BY Constants DEF IInv, Types
<1>2. /\ run' \in RunType /\ run'.result = run.result /\ run'.deadline = run.deadline
      /\ run'.drained = run.drained \cup {s}
      /\ \/ run'.pc = "drain"
         \/ run'.pc = "reap" /\ run'.drained = Streams /\ run'.reap_deadline = now + REAP_BUDGET
  <2>1. CASE run.drained \cup {s} = Streams
    BY <1>1, <1>r, <2>1 DEF Receive, RunType
  <2>2. CASE run.drained \cup {s} # Streams
    BY <1>1, <1>r, <2>2 DEF Receive, RunType
  <2> QED BY <2>1, <2>2
<1>3. Types' /\ \A t \in Streams : Accounted(t)'
  BY <1>1, <1>2 DEF IInv, Types, ReaderType, Accounted
<1>4. Collected'
  BY <1>1, <1>2 DEF IInv, Collected, Types, ReaderType, RunType
<1> QED BY <1>1, <1>2, <1>3, <1>4, Constants DEF IInv, Types, RunType, NoChildLeft, Timers, Fresh

\* Killing what is left of the child, and closing its pipes.
LEMMA KillStep ==
    ASSUME IInv, Kill, CloseOwn
    PROVE  /\ child' \in {"none", "succeeded", "failed", "killed"}
           /\ pipe' \in [Streams -> PipeType]
           /\ \A s \in Streams : pipe'[s].written = pipe[s].written
                                 /\ pipe'[s].buffered = pipe[s].buffered
BY DEF Kill, CloseOwn, IInv, Types, PipeType

LEMMA TimeOutStep ==
    ASSUME IInv, TimeOut
    PROVE  IInv'
<1>1. /\ run.pc = "drain" /\ run' = [run EXCEPT !.pc = "returned", !.result = "timed_out"]
      /\ UNCHANGED <<now, reader>> /\ Kill /\ CloseOwn
  BY DEF TimeOut
<1> QED BY <1>1, KillStep DEF IInv, Types, RunType, Accounted, Collected, NoChildLeft, Timers, Fresh

LEMMA ReapStep ==
    ASSUME IInv, Reap
    PROVE  IInv'
<1>1. /\ run.pc = "reap" /\ UNCHANGED <<now, reader>> /\ Kill /\ CloseOwn
      /\ run' = [run EXCEPT !.pc = "returned",
                            !.result = IF child = "succeeded" THEN "ok" ELSE "refused"]
  BY DEF Reap
<1>2. run' \in RunType /\ run'.pc = "returned" /\ run'.drained = run.drained
  BY <1>1 DEF IInv, Types, RunType
<1> QED BY <1>1, <1>2, KillStep DEF IInv, Types, Accounted, Collected, NoChildLeft, Timers, Fresh

LEMMA TickStep ==
    ASSUME IInv, Tick
    PROVE  IInv'
BY Constants DEF Tick, Waiting, IInv, Types, RunType, Accounted, Collected, NoChildLeft, Timers, Fresh

-----------------------------------------------------------------------------
(* The child's steps.                                                      *)

LEMMA ChildStep ==
    ASSUME IInv, Child
    PROVE  IInv'
<1>1. child = "running" /\ UNCHANGED <<now, run, reader>> /\ run.pc \notin {"idle", "returned"}
  BY DEF Child, ChildExits, ChildWrites, ChildCloses, IInv, NoChildLeft
<1>2. CASE ChildExits
  <2>1. PICK kept \in SUBSET Streams :
          pipe' = [s \in Streams |-> [pipe[s] EXCEPT !.open = @ /\ s \in kept]]
    BY <1>2 DEF ChildExits
  <2>2. /\ pipe' \in [Streams -> PipeType]
        /\ \A s \in Streams : pipe'[s].written = pipe[s].written
                              /\ pipe'[s].buffered = pipe[s].buffered
    BY <2>1 DEF IInv, Types, PipeType
  <2> QED BY <1>1, <1>2, <2>2
          DEF ChildExits, IInv, Types, Accounted, Collected, NoChildLeft, Timers, Fresh
<1>3. ASSUME NEW s \in Streams, ChildWrites(s) PROVE IInv'
  BY <1>1, <1>3 DEF ChildWrites, IInv, Types, PipeType, ReaderType, Accounted, Collected,
                    NoChildLeft, Timers, Fresh
<1>4. ASSUME NEW s \in Streams, ChildCloses(s) PROVE IInv'
  BY <1>1, <1>4 DEF ChildCloses, IInv, Types, PipeType, Accounted, Collected,
                    NoChildLeft, Timers, Fresh
<1> QED BY <1>2, <1>3, <1>4 DEF Child

-----------------------------------------------------------------------------
(* The hook's steps: each starts a run, ends one or leaves it alone.       *)

LEMMA StageShapes ==
    ASSUME Stages
    PROVE  \/ UNCHANGED runVars
           \/ \E stage \in {"probe", "launch", "where", "search"} :
                slice(TimeoutOf[stage]) > 0 /\ Spawn(slice(TimeoutOf[stage]))
           \/ run.pc = "returned" /\ NothingRuns /\ UNCHANGED now
BY DEF Stages, ProbeMcp, LaunchProfile, ResolveProject, SearchMemories, Report, Skip, Call,
       Return, Conclude

LEMMA StageStep ==
    ASSUME IInv, Stages
    PROVE  IInv'
<1>1. CASE UNCHANGED runVars
  BY <1>1 DEF runVars, IInv, Types, Accounted, Collected, NoChildLeft, Timers, Fresh
<1>2. ASSUME NEW stage \in {"probe", "launch", "where", "search"},
             slice(TimeoutOf[stage]) > 0, Spawn(slice(TimeoutOf[stage]))
      PROVE  IInv'
  <2>1. slice(TimeoutOf[stage]) \in Nat /\ now + slice(TimeoutOf[stage]) <= TOTAL_TIME_BUDGET
    BY <1>2, SliceFits, Constants DEF IInv, Types
  <2> QED BY <1>2, <2>1, SpawnStep
<1>3. CASE NothingRuns /\ UNCHANGED now
  BY <1>3, FreshTypes DEF NothingRuns, IInv, Types, Accounted, Collected, NoChildLeft, Timers, Fresh
<1> QED BY <1>1, <1>2, <1>3, StageShapes

LEMMA StepIInv == IInv /\ [Next]_vars => IInv'
<1> SUFFICES ASSUME IInv, [Next]_vars PROVE IInv'
  OBVIOUS
<1>1. CASE UNCHANGED vars
  BY <1>1 DEF vars, IInv, Types, Accounted, Collected, NoChildLeft, Timers, Fresh
<1> QED BY <1>1, StageStep, WriteStdinStep, TimeOutStep, ReapStep, ReadStep, ReceiveStep,
           ChildStep, TickStep DEF Next, Manager

LEMMA Inductive == Spec => []IInv
BY InitIInv, StepIInv, PTL DEF Spec

-----------------------------------------------------------------------------

\* No bounded run returns while its child is still running, whatever the child
\* does and however the run ends.
THEOREM NoRunLeavesItsChild == Spec => []NoChildLeft
BY Inductive, PTL DEF IInv

\* What a bounded run hands back as an answer is everything the child wrote, up
\* to the cap, for every pipe capacity and every amount of output.
THEOREM AnswersAreWhole == Spec => []AnswerIsWhole
<1>1. IInv => AnswerIsWhole
  BY DEF IInv, Accounted, Collected, AnswerIsWhole
<1> QED BY <1>1, Inductive, PTL

\* The hook has reported before the harness would kill it, for every choice of
\* the stages' timeouts and as long as the wait for its input, the budget and
\* one reaping are together shorter than the harness's timeout.
THEOREM HookReportsInTime == Spec => []ReportsInTime
<1>1. IInv => ReportsInTime
  BY Constants, SessionHookAssumption DEF IInv, Timers, Types, ReportsInTime
<1> QED BY <1>1, Inductive, PTL

-----------------------------------------------------------------------------
(* What is said about the vault.                                           *)

HookType == [pc : {"probe", "launch", "where", "search", "report", "done"},
             tools_visible : BOOLEAN, launched : BOOLEAN, label : BOOLEAN,
             attempt : 1..4, last_error : BOOLEAN,
             memories : {"none", "skipped", "unavailable", "empty", "found"}]

HeardType == [1..4 -> Answers \cup {"unasked", "failed"}]

Silent == {"unasked", "shapeless", "no_hits", "too_long"}

\* While the search goes on, what was heard is what the hook remembers of it: the
\* attempts made so far, none of which left a memory, an error exactly when one
\* of them failed, and an answer of the first scope once the second is asked.
Remembers ==
    /\ hook.pc \in {"probe", "launch", "where"} =>
         hook.attempt = 1 /\ ~hook.last_error /\ hook.memories = "none"
    /\ hook.attempt = 1 /\ hook.pc \in {"probe", "launch", "where", "search"} =>
         \A a \in 1..4 : heard[a] = "unasked"
    /\ hook.pc = "search" =>
         /\ hook.memories = "none"
         /\ ~hook.last_error => \A a \in 1..4 : heard[a] \in Silent
         /\ ~hook.last_error /\ ~Scoped => \E a \in {1, 2} : heard[a] # "unasked"

AnsweredInv == hook \in HookType /\ heard \in HeardType /\ Remembers /\ EmptyIsAnswered

LEMMA FoundType ==
    ASSUME hook \in HookType,
           NEW memories \in {"none", "skipped", "unavailable", "empty", "found"}
    PROVE  /\ Found(memories) \in HookType /\ Found(memories).memories = memories
           /\ Found(memories).pc = "report"
BY DEF Found, HookType

\* The stages before the search, and the report after it.
LEMMA OtherStages ==
    ASSUME AnsweredInv, ProbeMcp \/ LaunchProfile \/ ResolveProject \/ Report
    PROVE  AnsweredInv'
<1>1. UNCHANGED heard
  BY DEF ProbeMcp, LaunchProfile, ResolveProject, Report, Skip, Call, Return
<1>2. CASE ProbeMcp
  BY <1>1, <1>2 DEF ProbeMcp, Skip, Call, Return, Conclude, HookType, AnsweredInv, Remembers,
                    EmptyIsAnswered, Scoped
<1>3. CASE LaunchProfile
  BY <1>1, <1>3 DEF LaunchProfile, Skip, Call, Return, Conclude, HookType, AnsweredInv, Remembers,
                    EmptyIsAnswered, Scoped
<1>4. CASE ResolveProject
  BY <1>1, <1>4 DEF ResolveProject, Skip, Call, Return, Conclude, HookType, AnsweredInv, Remembers,
                    EmptyIsAnswered, Scoped, Silent
<1>5. CASE Report
  BY <1>1, <1>5 DEF Report, Skip, HookType, AnsweredInv, Remembers, EmptyIsAnswered
<1> QED BY <1>2, <1>3, <1>4, <1>5

\* A verdict other than "empty" ends the search.
LEMMA VerdictStep ==
    ASSUME AnsweredInv, NEW m \in {"skipped", "unavailable", "found"}, hook' = Found(m),
           heard' \in HeardType
    PROVE  AnsweredInv'
BY FoundType DEF AnsweredInv, Remembers, EmptyIsAnswered

\* An attempt that failed is remembered to the end.
LEMMA FailedStep ==
    ASSUME AnsweredInv, hook.pc = "search", hook' = NextForm(TRUE), heard' \in HeardType
    PROVE  AnsweredInv'
<1>1. CASE hook.attempt = 4
  BY <1>1, VerdictStep DEF NextForm, AfterLoop
<1>2. CASE hook.attempt # 4
  <2>1. hook' = [hook EXCEPT !.attempt = hook.attempt + 1, !.last_error = TRUE]
    BY <1>2 DEF NextForm
  <2>2. hook.attempt \in 1..3 /\ hook \in HookType
    BY <1>2 DEF AnsweredInv, HookType
  <2>3. hook' \in HookType /\ hook'.attempt # 1 /\ hook'.last_error /\ hook'.pc = "search"
    <3>1. hook.attempt + 1 \in 1..4 /\ hook.attempt + 1 # 1
      BY <2>2
    <3> QED BY <2>1, <2>2, <3>1 DEF HookType
  <2>4. hook'.memories = "none"
    BY <2>1, <2>2 DEF AnsweredInv, Remembers, HookType
  <2> QED BY <2>3, <2>4 DEF AnsweredInv, Remembers, EmptyIsAnswered
<1> QED BY <1>1, <1>2

\* An answer that leaves nothing to show leads to the next scope, or to "empty"
\* when there was no error.
LEMMA SilentStep ==
    ASSUME AnsweredInv, hook.pc = "search", NEW answer \in Silent \ {"unasked"},
           hook' = NextScope, Hear(answer)
    PROVE  AnsweredInv'
<1>1. hook \in HookType /\ heard \in HeardType /\ hook.attempt \in 1..4
  BY DEF AnsweredInv, HookType
<1>2. heard' \in HeardType
  BY <1>1 DEF Hear, HeardType, Silent, Answers
<1>3. /\ heard'[hook.attempt] = answer
      /\ \A a \in 1..4 : a # hook.attempt => heard'[a] = heard[a]
  BY <1>1 DEF Hear, HeardType
<1>4. ~hook.last_error => \A a \in 1..4 : heard'[a] \in Silent
  BY <1>3 DEF AnsweredInv, Remembers
<1>5. CASE Scoped
  <2>1. /\ hook' \in HookType /\ hook'.attempt = 3 /\ hook'.pc = "search"
        /\ hook'.last_error = hook.last_error /\ hook'.memories = "none"
    BY <1>1, <1>5 DEF NextScope, HookType, AnsweredInv, Remembers
  <2>2. \E a \in {1, 2} : heard'[a] # "unasked"
    BY <1>3, <1>5 DEF Scoped, Silent
  <2> QED BY <1>2, <1>4, <2>1, <2>2 DEF AnsweredInv, Remembers, EmptyIsAnswered
<1>6. CASE ~Scoped /\ hook.last_error
  BY <1>2, <1>6, VerdictStep DEF NextScope, AfterLoop
<1>7. CASE ~Scoped /\ ~hook.last_error
  <2>1. hook' = Found("empty")
    BY <1>7 DEF NextScope, AfterLoop
  <2>2. hook' \in HookType /\ hook'.pc = "report"
    BY <1>1, <2>1, FoundType
  <2>3. \E a \in {3, 4} : heard'[a] # "unasked"
    BY <1>1, <1>3, <1>7 DEF Scoped, Silent
  <2>4. \E a \in {1, 2} : heard'[a] # "unasked"
    <3>1. PICK a \in {1, 2} : heard[a] # "unasked"
      BY <1>7 DEF AnsweredInv, Remembers
    <3> QED BY <1>3, <3>1 DEF Silent
  <2> QED BY <1>2, <1>4, <1>7, <2>2, <2>3, <2>4
          DEF AnsweredInv, Remembers, EmptyIsAnswered, Silent
<1> QED BY <1>5, <1>6, <1>7

LEMMA SearchStep ==
    ASSUME AnsweredInv, SearchMemories
    PROVE  AnsweredInv'
<1>1. hook \in HookType /\ heard \in HeardType /\ hook.pc = "search" /\ hook.attempt \in 1..4
  BY DEF AnsweredInv, HookType, SearchMemories
<1>2. ASSUME NEW what \in Answers \cup {"failed"}, Hear(what) PROVE heard' \in HeardType
  BY <1>1, <1>2 DEF Hear, HeardType
<1>3. \/ UNCHANGED <<hook, heard>>
      \/ \E m \in {"skipped", "unavailable"} : hook' = Found(m) /\ UNCHANGED heard
      \/ hook' = Found("unavailable") /\ Hear("failed")
      \/ hook' = NextForm(TRUE) /\ Hear("failed")
      \/ \E answer \in Answers :
           /\ Hear(answer)
           /\ hook' = CASE answer = "text" -> NextForm(TRUE)
                        [] render_hits(answer) -> Found("found")
                        [] OTHER -> NextScope
  BY DEF SearchMemories, Skip, Call, Conclude
<1>4. CASE UNCHANGED <<hook, heard>>
  BY <1>4 DEF AnsweredInv, Remembers, EmptyIsAnswered, Scoped
<1>5. CASE \E m \in {"skipped", "unavailable"} : hook' = Found(m) /\ UNCHANGED heard
  BY <1>1, <1>5, VerdictStep
<1>6. CASE hook' = Found("unavailable") /\ Hear("failed")
  BY <1>2, <1>6, VerdictStep
<1>7. CASE hook' = NextForm(TRUE) /\ Hear("failed")
  BY <1>1, <1>2, <1>7, FailedStep
<1>8. ASSUME NEW answer \in Answers, Hear(answer),
             hook' = CASE answer = "text" -> NextForm(TRUE)
                       [] render_hits(answer) -> Found("found")
                       [] OTHER -> NextScope
      PROVE  AnsweredInv'
  <2>1. heard' \in HeardType
    BY <1>2, <1>8
  <2>2. CASE answer = "text"
    <3>1. hook' = NextForm(TRUE)
      BY <1>8, <2>2 DEF render_hits
    <3> QED BY <1>1, <2>1, <3>1, FailedStep
  <2>3. CASE answer = "hits"
    <3>1. hook' = Found("found")
      BY <1>8, <2>3 DEF render_hits
    <3> QED BY <2>1, <3>1, VerdictStep
  <2>4. CASE answer \notin {"text", "hits"}
    <3>1. hook' = NextScope /\ answer \in Silent \ {"unasked"}
      BY <1>8, <2>4 DEF render_hits, Answers, Silent
    <3> QED BY <1>1, <1>8, <3>1, SilentStep
  <2> QED BY <2>2, <2>3, <2>4
<1> QED BY <1>3, <1>4, <1>5, <1>6, <1>7, <1>8

\* A vault is called empty only after the engine has answered the search of the
\* project and the search of everything with nothing to show, whatever the order
\* of refusals, timeouts, unreadable and shapeless answers: no failure of any of
\* the four attempts is forgotten.
THEOREM EmptyIsOnlySaidWhenAnswered == Spec => []EmptyIsAnswered
<1>1. Init => AnsweredInv
  BY DEF Init, NoFinding, HookType, HeardType, AnsweredInv, Remembers, EmptyIsAnswered
<1>2. AnsweredInv /\ [Next]_vars => AnsweredInv'
  <2> SUFFICES ASSUME AnsweredInv, [Next]_vars PROVE AnsweredInv'
    OBVIOUS
  <2>1. CASE UNCHANGED <<hook, heard>>
    BY <2>1 DEF AnsweredInv, Remembers, EmptyIsAnswered, Scoped
  <2> QED BY <2>1, OtherStages, SearchStep DEF Next, Stages, vars
<1> QED BY <1>1, <1>2, PTL DEF Spec, AnsweredInv

=============================================================================
