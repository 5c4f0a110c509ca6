---------------------------- MODULE SessionHook ----------------------------
(***************************************************************************)
(* The body of `kaleidoscope hook session-start` (src/hooks.rs over        *)
(* src/engine.rs): probe the registered MCP command, launch the profile,   *)
(* resolve the project, search its memories in up to four attempts and     *)
(* report.  Every stage is a bounded run (BoundedRun), and one deadline    *)
(* is shared by all of them.                                               *)
(*                                                                         *)
(* What the host is registered for and what a child says is a choice.      *)
(* The clock starts with the shared deadline, after the hook has waited at *)
(* most STDIN_TIMEOUT for its input.                                       *)
(***************************************************************************)
EXTENDS BoundedRun

CONSTANTS
    TOTAL_TIME_BUDGET, PROBE_TIMEOUT, LAUNCH_TIMEOUT, WHERE_TIMEOUT, SEARCH_TIMEOUT,
    STDIN_TIMEOUT,  \* how long the hook waits for its input before it starts
    HOOK_TIMEOUT    \* when the harness kills the hook

ASSUME SessionHookAssumption ==
    /\ {TOTAL_TIME_BUDGET, PROBE_TIMEOUT, LAUNCH_TIMEOUT, WHERE_TIMEOUT, SEARCH_TIMEOUT,
        STDIN_TIMEOUT, HOOK_TIMEOUT} \subseteq Nat
    /\ STDIN_TIMEOUT + TOTAL_TIME_BUDGET + REAP_BUDGET < HOOK_TIMEOUT

VARIABLES
    hook,       \* what the hook has found out so far
    heard       \* history: what became of each search attempt

vars == <<now, run, child, pipe, reader, hook, heard>>

NoFinding == [pc |-> "probe", tools_visible |-> FALSE, launched |-> FALSE, label |-> FALSE,
              attempt |-> 1, last_error |-> FALSE, memories |-> "none"]

Init ==
    /\ BoundedStart
    /\ hook = NoFinding
    /\ heard = [a \in 1..4 |-> "unasked"]

-----------------------------------------------------------------------------

MutSlice(stage) == stage

\* Deadline::slice: the stage's own timeout or what is left of the total,
\* whichever is smaller; nothing is left when it is 0.
slice(stage) ==
    LET remaining == IF now < TOTAL_TIME_BUDGET THEN TOTAL_TIME_BUDGET - now ELSE 0
    IN  IF stage < remaining THEN stage ELSE remaining

TimeoutOf == [probe |-> PROBE_TIMEOUT, launch |-> LAUNCH_TIMEOUT,
              where |-> WHERE_TIMEOUT, search |-> SEARCH_TIMEOUT]

Skip(finding) == hook' = finding /\ UNCHANGED <<runVars, heard>>

\* Start the run of a stage with its share of the time.
Call(stage) ==
    /\ hook.pc = stage /\ run.pc = "idle" /\ slice(TimeoutOf[stage]) > 0
    /\ Spawn(slice(TimeoutOf[stage]))
    /\ UNCHANGED <<hook, heard>>

\* The stage's run has returned with one of the results; record the finding.
Conclude(stage, results, finding) ==
    /\ hook.pc = stage /\ run.pc = "returned" /\ run.result \in results
    /\ hook' = finding
    /\ NothingRuns /\ UNCHANGED now

Return(stage, results, finding) == Conclude(stage, results, finding) /\ UNCHANGED heard

NoTime(stage) == hook.pc = stage /\ run.pc = "idle" /\ slice(TimeoutOf[stage]) = 0

-----------------------------------------------------------------------------

\* probe_mcp: no entry, an entry whose command cannot be run, no time, or a run
\* whose output is searched for the tools/list answer however the process ended.
ProbeMcp ==
    LET found(both) == [hook EXCEPT !.pc = "launch", !.tools_visible = both]
    IN  \/ hook.pc = "probe" /\ run.pc = "idle" /\ Skip(found(FALSE))
        \/ Call("probe")
        \/ Return("probe", {"spawn", "timed_out"}, found(FALSE))
        \/ \E both \in BOOLEAN : Return("probe", {"ok", "refused"}, found(both))

\* There may be no engine to ask, or no time.
LaunchProfile ==
    LET found(ok) == [hook EXCEPT !.pc = "where", !.launched = ok]
    IN  \/ hook.pc = "launch" /\ run.pc = "idle" /\ Skip(found(FALSE))
        \/ Call("launch")
        \/ Return("launch", {"ok"}, found(TRUE))
        \/ Return("launch", {"spawn", "timed_out", "refused"}, found(FALSE))

\* resolve_project: only when the profile launched; no label is no error.
ResolveProject ==
    LET found(label) == [hook EXCEPT !.pc = "search", !.label = label]
    IN  \/ /\ hook.pc = "where" /\ run.pc = "idle"
           /\ ~hook.launched \/ NoTime("where")
           /\ Skip(found(FALSE))
        \/ hook.launched /\ Call("where")
        \/ \E label \in BOOLEAN : Return("where", {"ok"}, found(label))
        \/ Return("where", {"spawn", "timed_out", "refused"}, found(FALSE))

-----------------------------------------------------------------------------
(* retrieve_memories: scoped then unscoped, each with --json then bare.    *)

Scoped == hook.attempt \in {1, 2}

\* What a successful search prints: text that does not parse, JSON without a list
\* selected_hits, an empty list, a list that starts with a hit too long for the
\* section, or one that starts with a hit that fits.
Answers == {"text", "shapeless", "no_hits", "too_long", "hits"}

\* Does render_hits leave an entry: it stops at the first hit that does not fit.
render_hits(answer) == answer = "hits"

Hear(what) == heard' = [heard EXCEPT ![hook.attempt] = what]

Found(memories) == [hook EXCEPT !.pc = "report", !.memories = memories]

MutAfterLoop(failed) == Found("empty")

\* After the last attempt, an error of any of them outweighs an empty answer.
AfterLoop(failed) == Found(IF failed THEN "unavailable" ELSE "empty")

\* The other form of the same scope, or the next scope, or the end.
NextForm(failed) ==
    IF hook.attempt = 4 THEN AfterLoop(failed)
    ELSE [hook EXCEPT !.attempt = @ + 1, !.last_error = failed]

NextScope ==
    IF Scoped THEN [hook EXCEPT !.attempt = 3] ELSE AfterLoop(hook.last_error)

\* Nothing is asked when the profile did not launch or retrieval is off.
SearchMemories ==
    /\ hook.pc = "search"
    /\ \/ /\ run.pc = "idle"
          /\ \/ hook.attempt = 1 /\ Skip(Found("skipped"))
             \/ hook.launched /\ ~hook.label /\ Skip(Found("unavailable"))
             \/ /\ hook.launched /\ hook.label /\ NoTime("search")
                /\ Skip(Found(IF hook.last_error THEN "unavailable" ELSE "skipped"))
             \/ hook.launched /\ hook.label /\ Call("search")
       \/ Conclude("search", {"spawn", "timed_out"}, Found("unavailable")) /\ Hear("failed")
       \/ Conclude("search", {"refused"}, NextForm(TRUE)) /\ Hear("failed")
       \/ \E answer \in Answers :
            /\ Hear(answer)
            /\ Conclude("search", {"ok"}, CASE answer = "text" -> NextForm(TRUE)
                                           [] render_hits(answer) -> Found("found")
                                           [] OTHER -> NextScope)

\* The line is printed and the process exits 0, whatever the stages found.
Report ==
    /\ hook.pc = "report"
    /\ Skip([hook EXCEPT !.pc = "done"])

Stages == ProbeMcp \/ LaunchProfile \/ ResolveProject \/ SearchMemories \/ Report

Next ==
    \/ Stages
    \/ ((Manager \/ Child \/ Tick) /\ UNCHANGED <<hook, heard>>)

Spec == Init /\ [][Next]_vars

\* The hook and its threads run and the clock advances; nothing is assumed of
\* any child.
FairSpec == Spec /\ WF_vars(Stages \/ ((Manager \/ Tick) /\ UNCHANGED <<hook, heard>>))

-----------------------------------------------------------------------------

\* However the children behave, the hook has reported before the harness would
\* kill it: the shared budget is overrun by at most one reap.
ReportsInTime == hook.pc # "done" => STDIN_TIMEOUT + now < HOOK_TIMEOUT

\* The hook always comes to its report, even when every child hangs.
AlwaysReports == <>(hook.pc = "done")

\* "The vault holds no memories" is only said when the engine has answered the
\* search of the project and the search of everything, each with JSON that leaves
\* nothing to show, and no attempt failed, was refused or did not parse.  (JSON
\* without a list of hits and a first hit too long to be shown count as nothing.)
EmptyIsAnswered ==
    hook.memories = "empty" =>
      /\ \A a \in 1..4 : heard[a] \in {"unasked", "shapeless", "no_hits", "too_long"}
      /\ (\E a \in {1, 2} : heard[a] # "unasked") /\ (\E a \in {3, 4} : heard[a] # "unasked")

=============================================================================
