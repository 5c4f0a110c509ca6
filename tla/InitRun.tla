------------------------------ MODULE InitRun ------------------------------
(***************************************************************************)
(* The commands that wire a machine (src/main.rs): init and teardown, and  *)
(* the single-step connect, disconnect and instructions commands.  init    *)
(* settles the vault (VaultInit), then applies up to four steps per host:  *)
(* the host's entry, the instructions, the skill and the hook; teardown    *)
(* removes them in reverse order.                                          *)
(*                                                                         *)
(* A slot is one file the manager can own.  With --scope user the entry    *)
(* and the hook live in the home directory and serve every project; the    *)
(* instructions and the skill always live in the project.  manager.json    *)
(* registers the projects, so that a teardown keeps the shared half while  *)
(* another project still needs it.  How one slot is written is HostApply   *)
(* and FileApply; here a step happens, does nothing or fails.              *)
(***************************************************************************)
EXTENDS VaultInit, Sequences

CONSTANTS
    Procs,      \* slots for concurrent manager processes
    Home,       \* the home directory
    HostSets,   \* the sets of --host options a command is given
    Scopes,     \* the --scope options given, a subset of {"user", "project"}
    Policies,   \* the vault policies given
    ExplicitRoots,  \* the --root options given; NoRoot for none
    SkipSets,   \* the sets of --no-... options given
    Singles,    \* steps that are also run by a command of their own
    Alone,      \* commands that are only started, and run, when no other runs
    UserMay,    \* what the user does by hand, a subset of AllUserActs
    Faults,     \* what can fail, a subset of AllFaults
    MaxCommands \* bound on the commands of a behaviour

AllUserActs == {"delete_files", "delete_vault", "drop_record"}
AllFaults == {"step", "preflight", "publish", "crash"}
Hosts == {"claude", "codex", "cursor", "opencode"}
StepNames == {"connect", "instructions", "skill", "hook"}

ASSUME InitRunAssumption ==
    /\ Home \notin Projects
    /\ HostSets \subseteq SUBSET Hosts /\ Scopes \subseteq {"user", "project"}
    /\ Policies \subseteq {"auto", "adopt", "create"}
    /\ ExplicitRoots \subseteq Roots \cup {NoRoot}
    /\ SkipSets \subseteq SUBSET StepNames
    /\ Singles \subseteq {"connect", "instructions", "skill"}
    /\ UserMay \subseteq AllUserActs /\ Faults \subseteq AllFaults
    /\ MaxCommands \in Nat

VARIABLES
    owned,      \* the slots that hold something of the manager's
    registered, \* installed_projects of manager.json
    proc,       \* what each process is doing
    commands,   \* commands started so far
    relying     \* history: the hosts an init told the user each project has

vars == <<workspaces, registry, active, owned, registered, proc, commands, relying>>

-----------------------------------------------------------------------------
(* Where the steps write.                                                  *)

\* Codex and OpenCode share AGENTS.md.
instruction_target_for(host) ==
    CASE host \in {"codex", "opencode"} -> "agents_md"
      [] host = "claude" -> "claude_md"
      [] host = "cursor" -> "cursor_rule"

skill_path(host) == IF host = "claude" THEN "claude_skill" ELSE "agents_skill"

Slot(step, host, scope, project) ==
    LET shared == IF scope = "user" THEN Home ELSE project
    IN  CASE step = "connect" -> <<shared, "connect", host>>
          [] step = "hook" -> <<shared, "hook", host>>
          [] step = "instructions" -> <<project, "instructions", instruction_target_for(host)>>
          [] step = "skill" -> <<project, "skill", skill_path(host)>>

\* Cursor has no skill directory, and only Claude Code has a hook.
StepsOf(host) ==
    {"connect", "instructions"} \cup (IF host # "cursor" THEN {"skill"} ELSE {})
                                \cup (IF host = "claude" THEN {"hook"} ELSE {})

\* A receipt beside any instruction file or skill of the project.
project_carries_instructions(project) ==
    \E s \in owned : s[1] = project /\ s[2] \in {"instructions", "skill"}

other_projects(project) == {q \in registered : q # project /\ project_carries_instructions(q)}

-----------------------------------------------------------------------------

\* A planned step: the slot, and whether the plan found it owned.
Planned(step, c, host) ==
    LET slot == Slot(step, host, c.scope, c.project) IN [slot |-> slot, seen |-> slot \in owned]

\* host_steps, and the plans of one host in run_teardown: all are made before
\* the first is applied.
HostPlans(c, host) ==
    LET steps == IF c.command = "init" THEN StepsOf(host) \ c.skips
                 ELSE StepsOf(host) \ (IF c.retain THEN {"connect", "hook"} ELSE {})
        plan(s) == IF s \in steps THEN <<Planned(s, c, host)>> ELSE <<>>
    IN  IF c.command = "init"
          THEN plan("connect") \o plan("instructions") \o plan("skill") \o plan("hook")
          ELSE plan("hook") \o plan("skill") \o plan("instructions") \o plan("connect")

Idle == [pc |-> "done", command |-> "none", profile |-> NoProfile, root |-> NoRoot,
         policy |-> "auto", project |-> Home, hosts |-> {}, left |-> {}, scope |-> "user",
         skips |-> {}, todo |-> <<>>, failed |-> FALSE, retain |-> FALSE, status |-> "none"]

Init ==
    /\ VaultStart
    /\ owned = {} /\ registered = {}
    /\ proc = [p \in Procs |-> Idle]
    /\ commands = 0
    /\ relying = [q \in Projects |-> {}]

Running(p) == proc[p].pc # "done"

CanStart(p, command) ==
    /\ ~Running(p) /\ commands < MaxCommands
    /\ \A o \in Procs : Running(o) => command \notin Alone /\ proc[o].command \notin Alone
    /\ commands' = commands + 1

Goto(p, pc) == proc' = [proc EXCEPT ![p].pc = pc]
End(p, status) == proc' = [proc EXCEPT ![p] = [Idle EXCEPT !.status = status]]

StartInit(p) ==
    /\ CanStart(p, "init")
    /\ \E f \in Profiles, r \in ExplicitRoots, y \in Policies, q \in Projects,
          hs \in HostSets, s \in Scopes, k \in SkipSets :
         proc' = [proc EXCEPT ![p] =
                    [Idle EXCEPT !.pc = "vault", !.command = "init", !.profile = f, !.root = r,
                                 !.policy = y, !.project = q, !.hosts = hs, !.left = hs,
                                 !.scope = s, !.skips = k]]
    /\ UNCHANGED <<vaultVars, owned, registered, relying>>

\* From here on the user no longer counts on the hosts being torn down.
StartTeardown(p) ==
    /\ CanStart(p, "teardown")
    /\ \E q \in Projects, hs \in HostSets \ {{}}, s \in Scopes :
         /\ proc' = [proc EXCEPT ![p] =
                       [Idle EXCEPT !.pc = "dependants", !.command = "teardown", !.project = q,
                                    !.hosts = hs, !.left = hs, !.scope = s]]
         /\ relying' = [relying EXCEPT ![q] = @ \ hs]
    /\ UNCHANGED <<vaultVars, owned, registered>>

\* connect, disconnect, instructions install and instructions remove: one plan,
\* applied alone.  None of them looks at the other projects or registers one; what
\* the other projects were told they have, they still count on.
StartSingle(p) ==
    /\ \E install \in BOOLEAN, step \in Singles, q \in Projects, hs \in HostSets, s \in Scopes :
         \E h \in hs :
         LET c == [Idle EXCEPT !.pc = "apply", !.project = q, !.hosts = {h}, !.scope = s,
                               !.command = IF install THEN "install" ELSE "remove"]
         IN  /\ step \in StepsOf(h)
             /\ CanStart(p, c.command)
             /\ proc' = [proc EXCEPT ![p] = [c EXCEPT !.todo = <<Planned(step, c, h)>>]]
             /\ relying' = IF install THEN relying ELSE [relying EXCEPT ![q] = @ \ {h}]
    /\ UNCHANGED <<vaultVars, owned, registered>>

-----------------------------------------------------------------------------
(* Manager::init.                                                          *)

SettleVault(p) ==
    LET c == proc[p]
        reuse == reuse_existing_profile(c.profile, c.root)
        plan == decide(c.policy, c.profile, c.root, c.project)
    IN  /\ c.pc = "vault"
        /\ CASE reuse = "reuse" -> Goto(p, "publish")
             [] reuse = "mismatch" -> End(p, "refused")
             [] reuse = "none" /\ plan.act = "refuse" -> End(p, "refused")
             [] OTHER -> proc' = [proc EXCEPT ![p].pc = plan.act, ![p].root = plan.root]
        /\ UNCHANGED <<vaultVars, owned, registered, commands, relying>>

MutCreate(p) ==
    /\ proc[p].pc = "create"
    /\ Goto(p, "init_profile")
    /\ UNCHANGED <<vaultVars, owned, registered, commands, relying>>

\* Manager::create looks at the root again before it calls the engine.
Create(p) ==
    /\ proc[p].pc = "create"
    /\ IF probe(proc[p].root) THEN End(p, "would_fork") ELSE Goto(p, "init_profile")
    /\ UNCHANGED <<vaultVars, owned, registered, commands, relying>>

CallEngine(p) ==
    /\ \/ /\ proc[p].pc = "init_profile" /\ init_profile(proc[p].profile, proc[p].root)
          /\ Goto(p, "set_active")
       \/ /\ proc[p].pc = "adopt" /\ profile_import(proc[p].profile, proc[p].root)
          /\ Goto(p, "publish")
       \/ /\ proc[p].pc \in {"init_profile", "adopt"}
          /\ \/ registry[proc[p].profile] # NoRoot
             \/ proc[p].pc = "adopt" /\ workspaces[proc[p].root] # 1
          /\ End(p, "refused")
          /\ UNCHANGED <<workspaces, registry>>
    /\ UNCHANGED <<active, owned, registered, commands, relying>>

\* set_active_profile; when it fails the profile exists and the user is told
\* how to recover.  publish then asks the engine for the launch descriptor,
\* which create already has.
SetActive(p) ==
    /\ proc[p].pc \in {"set_active", "publish"}
    /\ \/ /\ active' = proc[p].profile
          /\ IF proc[p].pc = "publish" /\ profile_show(proc[p].profile) = NoRoot
               THEN End(p, "refused") ELSE Goto(p, "preflight")
       \/ /\ "publish" \in Faults
          /\ End(p, "recovery")
          /\ UNCHANGED active
    /\ UNCHANGED <<workspaces, registry, owned, registered, commands, relying>>

-----------------------------------------------------------------------------
(* The steps.                                                              *)

Preflight(p) ==
    /\ proc[p].pc = "preflight"
    /\ \/ Goto(p, "hosts")
       \/ /\ "preflight" \in Faults
          /\ proc' = [proc EXCEPT ![p].pc = "finish", ![p].failed = TRUE]
    /\ UNCHANGED <<vaultVars, owned, registered, commands, relying>>

MutReadDependants(p) ==
    /\ proc[p].pc = "dependants"
    /\ proc' = [proc EXCEPT ![p].pc = "hosts"]
    /\ UNCHANGED <<vaultVars, owned, registered, commands, relying>>

\* The shared half is kept while another registered project carries
\* instructions.
ReadDependants(p) ==
    /\ proc[p].pc = "dependants"
    /\ proc' = [proc EXCEPT ![p].pc = "hosts",
                            ![p].retain = /\ proc[p].scope = "user"
                                          /\ other_projects(proc[p].project) # {}]
    /\ UNCHANGED <<vaultVars, owned, registered, commands, relying>>

NextHost(p) ==
    /\ proc[p].pc = "hosts"
    /\ \/ \E h \in proc[p].left :
            proc' = [proc EXCEPT ![p].pc = "apply", ![p].left = @ \ {h},
                                 ![p].todo = HostPlans(proc[p], h)]
       \/ /\ proc[p].left = {}
          /\ Goto(p, "finish")
    /\ UNCHANGED <<vaultVars, owned, registered, commands, relying>>

Installs(p) == proc[p].command \in {"init", "install"}

\* A teardown that does not count its failed steps.
MutStepFails(p) ==
    IF proc[p].command = "init"
      THEN proc' = [proc EXCEPT ![p].pc = "finish", ![p].failed = TRUE, ![p].todo = <<>>]
      ELSE proc' = [proc EXCEPT ![p].todo = Tail(@)]

\* A failed step ends an init; a teardown goes on with the next one.
StepFails(p) ==
    IF proc[p].command = "init"
      THEN proc' = [proc EXCEPT ![p].pc = "finish", ![p].failed = TRUE, ![p].todo = <<>>]
      ELSE proc' = [proc EXCEPT ![p].failed = TRUE, ![p].todo = Tail(@)]

\* apply_step: a plan with nothing to do is not applied, a file changed since
\* the plan is refused, and reading, confirming or writing can fail.
ApplyStep(p) ==
    LET step == Head(proc[p].todo)
        noop == step.seen = Installs(p)
        done == proc' = [proc EXCEPT ![p].todo = Tail(@)]
    IN  /\ proc[p].pc = "apply" /\ proc[p].todo # <<>>
        /\ \/ noop /\ done /\ UNCHANGED owned
           \/ /\ ~noop /\ (step.slot \in owned) = step.seen
              /\ owned' = IF Installs(p) THEN owned \cup {step.slot} ELSE owned \ {step.slot}
              /\ done
           \/ /\ \/ ~noop /\ (step.slot \in owned) # step.seen
                 \/ "step" \in Faults
              /\ StepFails(p)
              /\ UNCHANGED owned
        /\ UNCHANGED <<vaultVars, registered, commands, relying>>

StepsDone(p) ==
    /\ proc[p].pc = "apply" /\ proc[p].todo = <<>>
    /\ IF proc[p].command \in {"install", "remove"}
         THEN End(p, IF proc[p].failed THEN "issues" ELSE "applied")
         ELSE Goto(p, "hosts")
    /\ UNCHANGED <<vaultVars, owned, registered, commands, relying>>

\* The end of run_init: a project that now carries instructions is registered
\* when nothing failed.  The saves of manager.json that this and the reading of
\* the dependants shrug off do not fail here.
FinishInit(p) ==
    LET c == proc[p]
        register == /\ ~c.failed /\ c.hosts # {}
                    /\ ~({"instructions", "skill"} \subseteq c.skips)
                    /\ project_carries_instructions(c.project)
    IN  /\ c.pc = "finish" /\ c.command = "init"
        /\ registered' = IF register THEN registered \cup {c.project} ELSE registered
        /\ relying' = IF c.failed \/ c.scope # "user" \/ "connect" \in c.skips THEN relying
                      ELSE [relying EXCEPT ![c.project] = @ \cup c.hosts]
        /\ End(p, IF c.failed THEN "issues" ELSE "initialized")
        /\ UNCHANGED <<vaultVars, owned, commands>>

\* The end of run_teardown: forget_project, only when nothing failed.
FinishTeardown(p) ==
    LET c == proc[p]
    IN  /\ c.pc = "finish" /\ c.command = "teardown"
        /\ registered' = IF c.failed THEN registered ELSE other_projects(c.project)
        /\ End(p, CASE c.failed -> "issues"
                    [] ~c.failed /\ c.retain -> "partially_removed"
                    [] OTHER -> "removed")
        /\ UNCHANGED <<vaultVars, owned, commands, relying>>

Crash(p) ==
    /\ "crash" \in Faults /\ Running(p)
    /\ proc' = [proc EXCEPT ![p] = Idle]
    /\ UNCHANGED <<vaultVars, owned, registered, commands, relying>>

-----------------------------------------------------------------------------
(* Commands of one step, and what the user does by hand.                   *)

\* profile remove: the engine forgets the profile, then manager.json does.
ProfileRemove(f) ==
    /\ commands < MaxCommands /\ commands' = commands + 1
    /\ "profile_remove" \in Alone => \A p \in Procs : ~Running(p)
    /\ profile_show(f) # NoRoot
    /\ registry' = [registry EXCEPT ![f] = NoRoot]
    /\ \/ active' = IF active = f THEN NoProfile ELSE active
       \/ "publish" \in Faults /\ UNCHANGED active
    /\ UNCHANGED <<workspaces, owned, registered, proc, relying>>

ProfileUse(f) ==
    /\ commands < MaxCommands /\ commands' = commands + 1
    /\ profile_show(f) # NoRoot
    /\ active' = f
    /\ UNCHANGED <<workspaces, registry, owned, registered, proc, relying>>

\* The user deletes a project's files while no command is at work there.
DeleteFiles(q) ==
    /\ "delete_files" \in UserMay
    /\ \E s \in owned : s[1] = q
    /\ \A p \in Procs : Running(p) => proc[p].project # q
    /\ owned' = {s \in owned : s[1] # q}
    /\ relying' = [relying EXCEPT ![q] = {}]
    /\ UNCHANGED <<vaultVars, registered, proc, commands>>

DeleteVault(r) ==
    /\ "delete_vault" \in UserMay /\ probe(r)
    /\ workspaces' = [workspaces EXCEPT ![r] = 0]
    /\ UNCHANGED <<registry, active, owned, registered, proc, commands, relying>>

\* The remedy for a registry the engine refuses to read.
DropRecord(f) ==
    /\ "drop_record" \in UserMay /\ registry[f] # NoRoot /\ ~Readable
    /\ registry' = [registry EXCEPT ![f] = NoRoot]
    /\ UNCHANGED <<workspaces, active, owned, registered, proc, commands, relying>>

Run(p) ==
    \/ SettleVault(p) \/ Create(p) \/ CallEngine(p) \/ SetActive(p) \/ Preflight(p)
    \/ ReadDependants(p) \/ NextHost(p) \/ ApplyStep(p) \/ StepsDone(p)
    \/ FinishInit(p) \/ FinishTeardown(p)

Next ==
    \/ \E p \in Procs : StartInit(p) \/ StartTeardown(p) \/ StartSingle(p) \/ Run(p) \/ Crash(p)
    \/ \E f \in Profiles : ProfileRemove(f) \/ ProfileUse(f) \/ DropRecord(f)
    \/ \E q \in Projects : DeleteFiles(q)
    \/ \E r \in Roots : DeleteVault(r)

Spec == Init /\ [][Next]_vars

-----------------------------------------------------------------------------

\* init-profile is never called on a root that is a vault: no vault is ever
\* forked, whatever policy was asked for, however an earlier init ended, and
\* whichever other init of that profile runs at the same time.  (Two profiles
\* given one --root can both find it free; nothing in the code prevents that.)
NeverForks == \A r \in Roots : workspaces[r] <= 1

SharedEntry(h) == <<Home, "connect", h>>

\* An init only tells a project of a shared entry that is there, and no init and
\* no teardown of another project takes it away while the project still carries
\* its instructions.  Only a disconnect does: it takes the entry out for every
\* project at once, whoever relies on it.
SharedEntryKept ==
    [][\A q \in Projects :
         /\ \A h \in relying'[q] \ relying[q] : SharedEntry(h) \in owned
         /\ \A h \in relying[q] :
              Slot("instructions", h, "user", q) \in owned /\ SharedEntry(h) \in owned \ owned'
                => \E p \in Procs : proc[p].command = "remove" /\ proc'[p] # proc[p]]_vars

\* "removed" means removed: a teardown that reports it has left nothing of the
\* manager's in the slots of the hosts it was given.
RemovedIsGone ==
    [][\A p \in Procs :
         proc[p].pc = "finish" /\ proc'[p].pc = "done" /\ proc'[p].status = "removed"
           => \A h \in proc[p].hosts : \A s \in StepsOf(h) :
                Slot(s, h, proc[p].scope, proc[p].project) \notin owned]_vars

=============================================================================
