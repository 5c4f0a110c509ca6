--------------------------- MODULE InitRunProofs ---------------------------
(***************************************************************************)
(* What init, teardown and the single commands guarantee for every set of  *)
(* processes, projects, profiles and roots, and every choice of options    *)
(* that the hypotheses named with each theorem allow.                      *)
(***************************************************************************)
EXTENDS InitRun, FiniteSetTheorems, SequenceTheorems, TLAPS

PCs == {"done", "vault", "create", "init_profile", "adopt", "set_active", "publish",
        "preflight", "dependants", "hosts", "apply", "finish"}
Names == {"none", "init", "teardown", "install", "remove"}
Statuses == {"none", "refused", "would_fork", "recovery", "issues", "applied", "initialized",
             "partially_removed", "removed"}
Files == Hosts \cup {"agents_md", "claude_md", "cursor_rule", "claude_skill", "agents_skill"}
Places == Projects \cup {Home}
Slots == Places \X StepNames \X Files
PlannedStep == [slot : Slots, seen : BOOLEAN]

ProcType ==
    [pc : PCs, command : Names, profile : Profiles \cup {NoProfile}, root : Roots \cup {NoRoot},
     policy : {"auto", "adopt", "create"}, project : Places, hosts : SUBSET Hosts,
     left : SUBSET Hosts, scope : {"user", "project"}, skips : SUBSET StepNames,
     todo : Seq(PlannedStep), failed : BOOLEAN, retain : BOOLEAN, status : Statuses]

Types ==
    /\ workspaces \in [Roots -> Nat]
    /\ registry \in [Profiles -> Roots \cup {NoRoot}]
    /\ owned \subseteq Slots /\ registered \subseteq Projects
    /\ proc \in [Procs -> ProcType]
    /\ relying \in [Projects -> SUBSET Hosts]

\* Where each command can be, and what it knows there.
Shape(p) ==
    /\ proc[p].pc # "done" => proc[p].project \in Projects
    /\ proc[p].pc \in {"vault", "create", "init_profile", "adopt", "set_active", "publish",
                       "preflight"} => proc[p].command = "init" /\ proc[p].profile \in Profiles
    /\ proc[p].pc = "vault" => proc[p].root \in ExplicitRoots
    /\ proc[p].pc \in {"create", "init_profile", "adopt"} => proc[p].root \in Roots
    /\ proc[p].pc \in {"create", "init_profile"} =>
         proc[p].root \in ExplicitRoots \cup {default_vault_root[proc[p].profile]}
    /\ proc[p].pc = "dependants" => proc[p].command = "teardown"
    /\ proc[p].pc = "apply" => proc[p].command \in {"init", "teardown", "install", "remove"}
    /\ proc[p].pc \in {"hosts", "finish"} => proc[p].command \in {"init", "teardown"}
    /\ proc[p].pc \notin {"hosts", "apply", "finish"} => proc[p].left = proc[p].hosts
    /\ proc[p].pc # "apply" => proc[p].todo = <<>>
    /\ proc[p].pc = "finish" /\ ~proc[p].failed => proc[p].left = {}

Shaped == Types /\ \A p \in Procs : Shape(p)

\* The elements of a sequence.
Elems(s) == {s[i] : i \in 1..Len(s)}

-----------------------------------------------------------------------------
(* Sequences and slots.                                                    *)

LEMMA ElemsOne == \A x : Elems(<<x>>) = {x} /\ Elems(<<>>) = {}
BY DEF Elems

LEMMA ElemsConcat ==
    ASSUME NEW S, NEW a \in Seq(S), NEW b \in Seq(S)
    PROVE  Elems(a \o b) = Elems(a) \cup Elems(b)
<1>1. /\ Len(a \o b) = Len(a) + Len(b) /\ Len(a) \in Nat /\ Len(b) \in Nat
      /\ \A i \in 1..Len(a) + Len(b) :
           (a \o b)[i] = IF i <= Len(a) THEN a[i] ELSE b[i - Len(a)]
  BY ConcatProperties, LenProperties
<1>2. Elems(a \o b) \subseteq Elems(a) \cup Elems(b)
  BY <1>1 DEF Elems
<1>3. ASSUME NEW i \in 1..Len(a) PROVE a[i] \in Elems(a \o b)
  <2>1. i \in 1..Len(a) + Len(b) /\ (a \o b)[i] = a[i]
    BY <1>1
  <2> QED BY <1>1, <2>1 DEF Elems
<1>4. ASSUME NEW i \in 1..Len(b) PROVE b[i] \in Elems(a \o b)
  <2>1. Len(a) + i \in 1..Len(a) + Len(b) /\ (a \o b)[Len(a) + i] = b[i]
    BY <1>1
  <2> QED BY <1>1, <2>1 DEF Elems
<1> QED BY <1>2, <1>3, <1>4 DEF Elems

LEMMA ElemsTail ==
    ASSUME NEW S, NEW s \in Seq(S), s # <<>>
    PROVE  /\ Head(s) \in S /\ Tail(s) \in Seq(S)
           /\ Elems(s) = {Head(s)} \cup Elems(Tail(s))
<1>1. /\ Head(s) \in S /\ Tail(s) \in Seq(S) /\ Head(s) = s[1]
      /\ Len(Tail(s)) = Len(s) - 1 /\ Len(s) \in Nat \ {0}
      /\ \A i \in 1..Len(s) - 1 : Tail(s)[i] = s[i + 1]
  BY HeadTailProperties, LenProperties, EmptySeq
<1>2. Elems(Tail(s)) \subseteq Elems(s) /\ Head(s) \in Elems(s)
  BY <1>1 DEF Elems
<1>3. ASSUME NEW i \in 1..Len(s) PROVE s[i] \in {Head(s)} \cup Elems(Tail(s))
  <2>1. CASE i = 1
    BY <1>1, <2>1
  <2>2. CASE i # 1
    <3>1. i - 1 \in 1..Len(Tail(s)) /\ Tail(s)[i - 1] = s[i]
      BY <1>1, <2>2
    <3> QED BY <3>1 DEF Elems
  <2> QED BY <2>1, <2>2
<1> QED BY <1>1, <1>2, <1>3 DEF Elems

\* Every slot is a file of the project or of the home directory.
LEMMA SlotType ==
    ASSUME NEW step \in StepNames, NEW host \in Hosts, NEW scope \in {"user", "project"},
           NEW project \in Projects
    PROVE  /\ Slot(step, host, scope, project) \in Slots
           /\ Slot(step, host, scope, project)[1] \in {Home, project}
           /\ Slot(step, host, scope, project)[2] = step
           /\ \/ scope = "project" \/ step \in {"instructions", "skill"}
              => Slot(step, host, scope, project)[1] = project
<1> DEFINE shared == IF scope = "user" THEN Home ELSE project
<1>1. instruction_target_for(host) \in Files /\ skill_path(host) \in Files /\ host \in Files
  BY DEF instruction_target_for, skill_path, Files, Hosts
<1>2. shared \in {Home, project} /\ shared \in Places /\ project \in Places
      /\ (scope = "project" => shared = project)
  BY DEF Places
<1>3. CASE step = "connect"
  BY <1>1, <1>2, <1>3 DEF Slot, Slots
<1>4. CASE step = "hook"
  BY <1>1, <1>2, <1>4 DEF Slot, Slots
<1>5. CASE step = "instructions"
  BY <1>1, <1>2, <1>5 DEF Slot, Slots
<1>6. CASE step = "skill"
  BY <1>1, <1>2, <1>6 DEF Slot, Slots
<1> QED BY <1>3, <1>4, <1>5, <1>6 DEF StepNames

\* The steps host_steps and run_teardown plan for one host.
StepsFor(c, host) ==
    IF c.command = "init" THEN StepsOf(host) \ c.skips
    ELSE StepsOf(host) \ (IF c.retain THEN {"connect", "hook"} ELSE {})

LEMMA PlannedType ==
    ASSUME NEW step \in StepNames, NEW host \in Hosts, NEW c \in ProcType, c.project \in Projects
    PROVE  /\ Planned(step, c, host) \in PlannedStep
           /\ Planned(step, c, host).slot = Slot(step, host, c.scope, c.project)
           /\ Planned(step, c, host).seen <=> Slot(step, host, c.scope, c.project) \in owned
<1>1. c.scope \in {"user", "project"}
  BY DEF ProcType
<1>2. Slot(step, host, c.scope, c.project) \in Slots
  BY <1>1, SlotType
<1>3. (Slot(step, host, c.scope, c.project) \in owned) \in BOOLEAN
  OBVIOUS
<1> QED BY <1>2, <1>3 DEF Planned, PlannedStep

\* The plans of a host are those of its steps, in whatever order.
LEMMA PlansOfHost ==
    ASSUME NEW c \in ProcType, c.project \in Projects, NEW host \in Hosts
    PROVE  /\ HostPlans(c, host) \in Seq(PlannedStep)
           /\ Elems(HostPlans(c, host)) = {Planned(s, c, host) : s \in StepsFor(c, host)}
<1> DEFINE plan(s) == IF s \in StepsFor(c, host) THEN <<Planned(s, c, host)>> ELSE <<>>
<1>1. ASSUME NEW s \in StepNames
      PROVE  /\ plan(s) \in Seq(PlannedStep)
             /\ Elems(plan(s)) = IF s \in StepsFor(c, host) THEN {Planned(s, c, host)} ELSE {}
  <2>1. Planned(s, c, host) \in PlannedStep
    BY PlannedType
  <2>2. <<Planned(s, c, host)>> \in Seq(PlannedStep) /\ <<>> \in Seq(PlannedStep)
    BY <2>1
  <2> QED BY <2>2, ElemsOne
<1>2. StepsFor(c, host) \subseteq {"connect", "instructions", "skill", "hook"}
  BY DEF StepsFor, StepsOf
<1>3. HostPlans(c, host) = IF c.command = "init"
        THEN plan("connect") \o plan("instructions") \o plan("skill") \o plan("hook")
        ELSE plan("hook") \o plan("skill") \o plan("instructions") \o plan("connect")
  BY DEF HostPlans, StepsFor
<1>4. ASSUME NEW w \in StepNames, NEW x \in StepNames, NEW y \in StepNames, NEW z \in StepNames
      PROVE  /\ plan(w) \o plan(x) \o plan(y) \o plan(z) \in Seq(PlannedStep)
             /\ Elems(plan(w) \o plan(x) \o plan(y) \o plan(z)) =
                  Elems(plan(w)) \cup Elems(plan(x)) \cup Elems(plan(y)) \cup Elems(plan(z))
  <2> HIDE DEF plan
  <2>1. \A a, b \in Seq(PlannedStep) :
          a \o b \in Seq(PlannedStep) /\ Elems(a \o b) = Elems(a) \cup Elems(b)
    BY ElemsConcat, ConcatProperties
  <2>2. /\ plan(w) \o plan(x) \in Seq(PlannedStep)
        /\ Elems(plan(w) \o plan(x)) = Elems(plan(w)) \cup Elems(plan(x))
    BY <1>1, <2>1
  <2> DEFINE wx == plan(w) \o plan(x)
             wxy == wx \o plan(y)
  <2>3. wxy \in Seq(PlannedStep) /\ Elems(wxy) = Elems(wx) \cup Elems(plan(y))
    BY <1>1, <2>1, <2>2
  <2>4. wxy \o plan(z) \in Seq(PlannedStep) /\ Elems(wxy \o plan(z)) = Elems(wxy) \cup Elems(plan(z))
    <3> HIDE DEF wxy
    <3> QED BY <1>1, <2>1, <2>3
  <2> QED BY <2>2, <2>3, <2>4
<1> HIDE DEF plan
<1>5. {"connect", "instructions", "skill", "hook"} = StepNames
  BY DEF StepNames
<1>6. HostPlans(c, host) \in Seq(PlannedStep)
      /\ Elems(HostPlans(c, host)) = Elems(plan("connect")) \cup Elems(plan("instructions"))
                                       \cup Elems(plan("skill")) \cup Elems(plan("hook"))
  <2>1. CASE c.command = "init"
    <3>1. HostPlans(c, host) = plan("connect") \o plan("instructions") \o plan("skill") \o plan("hook")
      BY <1>3, <2>1
    <3> QED BY <1>4, <1>5, <3>1
  <2>2. CASE c.command # "init"
    <3>1. HostPlans(c, host) = plan("hook") \o plan("skill") \o plan("instructions") \o plan("connect")
      BY <1>3, <2>2
    <3> QED BY <1>4, <1>5, <3>1
  <2> QED BY <2>1, <2>2
<1>7. \A s \in StepNames :
        Elems(plan(s)) = IF s \in StepsFor(c, host) THEN {Planned(s, c, host)} ELSE {}
  BY <1>1 DEF plan
<1> QED BY <1>2, <1>5, <1>6, <1>7

-----------------------------------------------------------------------------
(* The building blocks of the actions.                                     *)

\* A step of p changes nothing of what the others are doing.
Moves(p) ==
    /\ proc' \in [Procs -> ProcType]
    /\ \A o \in Procs \ {p} : proc'[o] = proc[o]

\* It leaves alone what the command line said.
SameCommand(p) ==
    /\ proc'[p].command = proc[p].command /\ proc'[p].profile = proc[p].profile
    /\ proc'[p].project = proc[p].project /\ proc'[p].hosts = proc[p].hosts
    /\ proc'[p].scope = proc[p].scope /\ proc'[p].skips = proc[p].skips

LEMMA ProcStep ==
    ASSUME Types, NEW p \in Procs, NEW c \in ProcType, proc' = [proc EXCEPT ![p] = c]
    PROVE  Moves(p) /\ proc'[p] = c
BY DEF Types, Moves

LEMMA IdleType ==
    /\ Idle \in ProcType /\ Idle.pc = "done" /\ Idle.todo = <<>> /\ Idle.command = "none"
    /\ Idle.left = Idle.hosts /\ Idle.status = "none" /\ ~Idle.failed /\ ~Idle.retain
<1>1. <<>> \in Seq(PlannedStep)
  OBVIOUS
<1> QED BY <1>1 DEF Idle, ProcType, PCs, Names, Statuses, Places

LEMMA GotoMoves ==
    ASSUME Types, NEW p \in Procs, NEW pc \in PCs, Goto(p, pc)
    PROVE  /\ Moves(p) /\ SameCommand(p) /\ proc'[p].pc = pc
           /\ proc'[p].root = proc[p].root /\ proc'[p].left = proc[p].left
           /\ proc'[p].todo = proc[p].todo /\ proc'[p].failed = proc[p].failed
           /\ proc'[p].retain = proc[p].retain
<1> DEFINE moved == [proc[p] EXCEPT !.pc = pc]
<1>1. proc[p] \in ProcType /\ proc' = [proc EXCEPT ![p] = moved]
  BY DEF Goto, Types
<1>2. moved \in ProcType
  BY <1>1 DEF ProcType
<1>3. Moves(p) /\ proc'[p] = moved
  BY <1>1, <1>2, ProcStep
<1> QED BY <1>1, <1>3 DEF SameCommand, ProcType

LEMMA EndMoves ==
    ASSUME Types, NEW p \in Procs, NEW status \in Statuses, End(p, status)
    PROVE  /\ Moves(p) /\ proc'[p].pc = "done" /\ proc'[p].status = status
           /\ proc'[p].todo = <<>> /\ proc'[p].left = proc'[p].hosts /\ Shape(p)'
<1> DEFINE ended == [Idle EXCEPT !.status = status]
<1>1. ended \in ProcType /\ ended.pc = "done" /\ ended.status = status
      /\ ended.todo = <<>> /\ ended.left = ended.hosts
  BY IdleType DEF ProcType
<1>2. proc' = [proc EXCEPT ![p] = ended]
  BY DEF End
<1> HIDE DEF ended
<1>3. Moves(p) /\ proc'[p] = ended
  BY <1>1, <1>2, ProcStep
<1> QED BY <1>1, <1>3 DEF Shape

\* What every step has to show.
LEMMA Reshaped ==
    ASSUME Shaped, NEW p \in Procs, Moves(p), Shape(p)',
           workspaces' \in [Roots -> Nat], registry' \in [Profiles -> Roots \cup {NoRoot}],
           owned' \subseteq Slots, registered' \subseteq Projects,
           relying' \in [Projects -> SUBSET Hosts]
    PROVE  Shaped'
<1>1. Types'
  BY DEF Types, Moves
<1>2. \A o \in Procs : Shape(o)'
  BY DEF Shaped, Moves, Shape
<1> QED BY <1>1, <1>2 DEF Shaped

-----------------------------------------------------------------------------
(* What each action does, and that it leaves the state well formed.        *)

LEMMA StartInitDoes ==
    ASSUME Shaped, NEW p \in Procs, StartInit(p)
    PROVE  /\ Shaped' /\ Moves(p)
           /\ proc'[p].pc = "vault" /\ proc'[p].command = "init" /\ proc'[p].hosts \in HostSets
           /\ proc'[p].skips \in SkipSets /\ ~proc'[p].failed
<1>1. PICK f \in Profiles, r \in ExplicitRoots, y \in Policies, q \in Projects,
           hs \in HostSets, s \in Scopes, k \in SkipSets :
        proc' = [proc EXCEPT ![p] =
                   [Idle EXCEPT !.pc = "vault", !.command = "init", !.profile = f, !.root = r,
                                !.policy = y, !.project = q, !.hosts = hs, !.left = hs,
                                !.scope = s, !.skips = k]]
  BY DEF StartInit
<1> DEFINE started == [Idle EXCEPT !.pc = "vault", !.command = "init", !.profile = f, !.root = r,
                                   !.policy = y, !.project = q, !.hosts = hs, !.left = hs,
                                   !.scope = s, !.skips = k]
<1>2. /\ r \in Roots \cup {NoRoot} /\ y \in {"auto", "adopt", "create"} /\ hs \in SUBSET Hosts
      /\ s \in {"user", "project"} /\ k \in SUBSET StepNames /\ q \in Places
  BY InitRunAssumption DEF Places
<1>3. /\ started \in ProcType /\ started.pc = "vault" /\ started.command = "init"
      /\ started.profile = f /\ started.root = r /\ started.project = q
      /\ started.hosts = hs /\ started.left = hs /\ started.skips = k /\ started.todo = <<>>
      /\ ~started.failed
  BY <1>2, IdleType DEF ProcType, PCs, Names
<1> HIDE DEF started
<1>4. Moves(p) /\ proc'[p] = started
  BY <1>1, <1>3, ProcStep DEF started, Shaped
<1>5. Shape(p)'
  BY <1>3, <1>4 DEF Shape
<1>6. Shaped'
  BY <1>4, <1>5, Reshaped DEF StartInit, vaultVars, Shaped, Types
<1> QED BY <1>3, <1>4, <1>6

LEMMA StartTeardownDoes ==
    ASSUME Shaped, NEW p \in Procs, StartTeardown(p)
    PROVE  /\ Shaped' /\ Moves(p)
           /\ proc'[p].pc = "dependants" /\ proc'[p].command = "teardown"
           /\ proc'[p].hosts \in HostSets \ {{}}
           /\ relying' = [relying EXCEPT ![proc'[p].project] = @ \ proc'[p].hosts]
           /\ proc'[p].project \in Projects
<1>1. PICK q \in Projects, hs \in HostSets \ {{}}, s \in Scopes :
        /\ proc' = [proc EXCEPT ![p] =
                      [Idle EXCEPT !.pc = "dependants", !.command = "teardown", !.project = q,
                                   !.hosts = hs, !.left = hs, !.scope = s]]
        /\ relying' = [relying EXCEPT ![q] = @ \ hs]
  BY DEF StartTeardown
<1> DEFINE started == [Idle EXCEPT !.pc = "dependants", !.command = "teardown", !.project = q,
                                   !.hosts = hs, !.left = hs, !.scope = s]
<1>2. hs \in SUBSET Hosts /\ s \in {"user", "project"} /\ q \in Places
  BY InitRunAssumption DEF Places
<1>3. /\ started \in ProcType /\ started.pc = "dependants" /\ started.command = "teardown"
      /\ started.project = q /\ started.hosts = hs /\ started.left = hs /\ started.todo = <<>>
  BY <1>2, IdleType DEF ProcType, PCs, Names
<1> HIDE DEF started
<1>4. Moves(p) /\ proc'[p] = started
  BY <1>1, <1>3, ProcStep DEF started, Shaped
<1>5. Shape(p)'
  BY <1>3, <1>4 DEF Shape
<1>6. relying' \in [Projects -> SUBSET Hosts]
  BY <1>1 DEF Shaped, Types
<1>7. Shaped'
  BY <1>4, <1>5, <1>6, Reshaped DEF StartTeardown, vaultVars, Shaped, Types
<1> QED BY <1>1, <1>3, <1>4, <1>7

LEMMA StartSingleDoes ==
    ASSUME Shaped, NEW p \in Procs, StartSingle(p)
    PROVE  /\ Shaped' /\ Moves(p)
           /\ proc'[p].pc = "apply" /\ proc'[p].command \in {"install", "remove"}
           /\ CanStart(p, proc'[p].command)
           /\ \E step \in Singles, h \in Hosts, x \in Places :
                /\ \A e \in Elems(proc'[p].todo) : step = "connect" => e.slot = <<x, "connect", h>>
                /\ relying' = IF proc'[p].command = "install" THEN relying
                              ELSE [relying EXCEPT ![proc'[p].project] = @ \ {h}]
<1>1. PICK install \in BOOLEAN, step \in Singles, q \in Projects, hs \in HostSets, s \in Scopes :
        \E h \in hs :
        LET c == [Idle EXCEPT !.pc = "apply", !.project = q, !.hosts = {h}, !.scope = s,
                              !.command = IF install THEN "install" ELSE "remove"]
        IN  /\ step \in StepsOf(h)
            /\ CanStart(p, c.command)
            /\ proc' = [proc EXCEPT ![p] = [c EXCEPT !.todo = <<Planned(step, c, h)>>]]
            /\ relying' = IF install THEN relying ELSE [relying EXCEPT ![q] = @ \ {h}]
  BY DEF StartSingle
<1> DEFINE command == IF install THEN "install" ELSE "remove"
           c(h) == [Idle EXCEPT !.pc = "apply", !.project = q, !.hosts = {h}, !.scope = s,
                                !.command = command]
<1>2. PICK h \in hs :
        /\ step \in StepsOf(h)
        /\ CanStart(p, c(h).command)
        /\ proc' = [proc EXCEPT ![p] = [c(h) EXCEPT !.todo = <<Planned(step, c(h), h)>>]]
        /\ relying' = IF install THEN relying ELSE [relying EXCEPT ![q] = @ \ {h}]
  BY <1>1
<1> DEFINE d == c(h)
           started == [d EXCEPT !.todo = <<Planned(step, d, h)>>]
<1>3. /\ h \in Hosts /\ s \in {"user", "project"} /\ q \in Places /\ step \in StepNames
      /\ {h} \in SUBSET Hosts /\ command \in {"install", "remove"}
  BY InitRunAssumption DEF Places, StepNames
<1> HIDE DEF command
<1>4. /\ d \in ProcType /\ d.pc = "apply" /\ d.command = command /\ d.project = q
      /\ d.hosts = {h} /\ d.scope = s
  BY <1>3, IdleType DEF ProcType, PCs, Names
<1>5. proc' = [proc EXCEPT ![p] = started] /\ CanStart(p, d.command)
  BY <1>2
<1> HIDE DEF d
<1>6. /\ Planned(step, d, h) \in PlannedStep
      /\ Planned(step, d, h).slot = Slot(step, h, s, q)
  BY <1>3, <1>4, PlannedType
<1>7. /\ started \in ProcType /\ started.pc = "apply" /\ started.command = command
      /\ started.project = q /\ started.todo = <<Planned(step, d, h)>>
  <2>1. <<Planned(step, d, h)>> \in Seq(PlannedStep)
    BY <1>6
  <2> QED BY <1>4, <2>1 DEF ProcType
<1> HIDE DEF started
<1>8. Moves(p) /\ proc'[p] = started
  BY <1>5, <1>7, ProcStep DEF Shaped
<1>9. Shape(p)'
  BY <1>3, <1>7, <1>8 DEF Shape
<1>10. relying' \in [Projects -> SUBSET Hosts]
  BY <1>2 DEF Shaped, Types
<1>11. Shaped'
  BY <1>8, <1>9, <1>10, Reshaped DEF StartSingle, vaultVars, Shaped, Types
<1>12. \E x \in Places : \A e \in Elems(proc'[p].todo) :
         step = "connect" => e.slot = <<x, "connect", h>>
  <2>1. Elems(proc'[p].todo) = {Planned(step, d, h)}
    BY <1>7, <1>8, ElemsOne
  <2>2. (IF s = "user" THEN Home ELSE q) \in Places
    BY <1>3 DEF Places
  <2>3. step = "connect" => Slot(step, h, s, q) = <<IF s = "user" THEN Home ELSE q, "connect", h>>
    BY DEF Slot
  <2> QED BY <1>6, <2>1, <2>2, <2>3
<1>13. /\ relying' = IF proc'[p].command = "install" THEN relying
                     ELSE [relying EXCEPT ![proc'[p].project] = @ \ {h}]
       /\ CanStart(p, proc'[p].command)
  BY <1>2, <1>4, <1>5, <1>7, <1>8 DEF command
<1> QED BY <1>3, <1>7, <1>8, <1>11, <1>12, <1>13

\* The vaults discover offers are roots, and a count of one means there is one.
LEMMA Decides ==
    ASSUME Types, NEW policy, NEW profile \in Profiles, NEW root \in Roots \cup {NoRoot},
           NEW project \in Projects
    PROVE  LET plan == decide(policy, profile, root, project)
           IN  /\ plan.act \in {"create", "adopt", "refuse"}
               /\ plan.act = "create" =>
                    plan.root = IF root = NoRoot THEN default_vault_root[profile] ELSE root
               /\ plan.act \in {"create", "adopt"} => plan.root \in Roots
<1> DEFINE found == discover(profile, root, project)
           target == IF root = NoRoot THEN default_vault_root[profile] ELSE root
           one == CHOOSE r \in found : TRUE
<1>1. \A f \in Profiles : profile_show(f) \in Roots \cup {NoRoot}
  BY DEF profile_show, Types
<1>2. Offered(profile, root, project) \subseteq Roots \cup {NoRoot}
  BY <1>1, VaultAssumption DEF Offered, profile_list
<1>3. found \subseteq Roots
  BY <1>2 DEF discover
<1>4. Cardinality(found) = 1 => one \in Roots
  <2>1. Cardinality(found) = 1 => found # {}
    BY FS_EmptySet
  <2> QED BY <1>3, <2>1
<1>5. target \in Roots
  BY VaultAssumption
<1> HIDE DEF found, target, one
<1>6. decide(policy, profile, root, project) =
        CASE policy = "create" -> [act |-> "create", root |-> target]
          [] policy # "create" /\ Cardinality(found) = 1 ->
               [act |-> "adopt", root |-> one]
          [] policy = "auto" /\ found = {} -> [act |-> "create", root |-> target]
          [] OTHER -> [act |-> "refuse", root |-> NoRoot]
  BY DEF decide, found, target, one
<1>7. /\ decide(policy, profile, root, project).act \in {"create", "adopt", "refuse"}
      /\ decide(policy, profile, root, project).act = "create" =>
           decide(policy, profile, root, project).root = target
      /\ decide(policy, profile, root, project).act \in {"create", "adopt"} =>
           decide(policy, profile, root, project).root \in Roots
  <2>1. CASE policy = "create"
    BY <1>5, <1>6, <2>1
  <2>2. CASE policy # "create" /\ Cardinality(found) = 1
    <3>1. found # {}
      BY <2>2, FS_EmptySet
    <3>2. decide(policy, profile, root, project) = [act |-> "adopt", root |-> one]
      BY <1>6, <2>2, <3>1
    <3>3. one \in Roots
      BY <1>4, <2>2
    <3> QED BY <3>2, <3>3
  <2>3. CASE policy # "create" /\ Cardinality(found) # 1 /\ policy = "auto" /\ found = {}
    BY <1>5, <1>6, <2>3
  <2>4. CASE policy # "create" /\ Cardinality(found) # 1 /\ ~(policy = "auto" /\ found = {})
    BY <1>6, <2>4
  <2> QED BY <2>1, <2>2, <2>3, <2>4
<1> QED BY <1>7 DEF target

\* A step of a running command that only moves on.
LEMMA GotoDoes ==
    ASSUME Shaped, NEW p \in Procs, NEW pc \in PCs, Goto(p, pc), Shape(p)',
           workspaces' \in [Roots -> Nat], registry' \in [Profiles -> Roots \cup {NoRoot}],
           UNCHANGED <<owned, registered, relying>>
    PROVE  Shaped'
<1>1. Moves(p)
  BY GotoMoves DEF Shaped
<1> QED BY <1>1, Reshaped DEF Shaped, Types

LEMMA EndDoes ==
    ASSUME Shaped, NEW p \in Procs, NEW status \in Statuses, End(p, status),
           workspaces' \in [Roots -> Nat], registry' \in [Profiles -> Roots \cup {NoRoot}],
           UNCHANGED owned, registered' \subseteq Projects, relying' \in [Projects -> SUBSET Hosts]
    PROVE  Shaped' /\ Moves(p) /\ proc'[p].pc = "done" /\ proc'[p].status = status
<1>1. Moves(p) /\ Shape(p)' /\ proc'[p].pc = "done" /\ proc'[p].status = status
  BY EndMoves DEF Shaped
<1> QED BY <1>1, Reshaped DEF Shaped, Types

LEMMA SettleVaultDoes ==
    ASSUME Shaped, NEW p \in Procs, SettleVault(p)
    PROVE  /\ Shaped' /\ Moves(p)
           /\ \/ proc'[p].pc = "done" /\ proc'[p].status = "refused"
              \/ SameCommand(p) /\ proc'[p].pc \in {"publish", "create", "adopt"}
<1> DEFINE c == proc[p]
           reuse == reuse_existing_profile(c.profile, c.root)
           plan == decide(c.policy, c.profile, c.root, c.project)
<1>1. /\ c.pc = "vault" /\ c.command = "init" /\ c.profile \in Profiles /\ c.project \in Projects
      /\ c.root \in Roots \cup {NoRoot} /\ c.root \in ExplicitRoots /\ c.todo = <<>>
      /\ c.left = c.hosts /\ c \in ProcType
      /\ UNCHANGED <<workspaces, registry, owned, registered, relying>>
  BY DEF SettleVault, Shaped, Shape, Types, ProcType, vaultVars
<1>2. /\ workspaces' \in [Roots -> Nat] /\ registry' \in [Profiles -> Roots \cup {NoRoot}]
      /\ registered' \subseteq Projects /\ relying' \in [Projects -> SUBSET Hosts]
  BY <1>1 DEF Shaped, Types
<1>3. /\ plan.act \in {"create", "adopt", "refuse"}
      /\ plan.act = "create" =>
           plan.root = IF c.root = NoRoot THEN default_vault_root[c.profile] ELSE c.root
      /\ plan.act \in {"create", "adopt"} => plan.root \in Roots
  BY <1>1, Decides DEF Shaped
<1> HIDE DEF reuse, plan
<1>4. \/ Goto(p, "publish") \/ End(p, "refused")
      \/ plan.act # "refuse" /\ proc' = [proc EXCEPT ![p].pc = plan.act, ![p].root = plan.root]
  <2>1. (CASE reuse = "reuse" -> Goto(p, "publish")
           [] reuse = "mismatch" -> End(p, "refused")
           [] reuse = "none" /\ plan.act = "refuse" -> End(p, "refused")
           [] OTHER -> proc' = [proc EXCEPT ![p].pc = plan.act, ![p].root = plan.root])
    BY DEF SettleVault, reuse, plan
  <2>2. reuse \in {"none", "reuse", "mismatch"}
    BY DEF reuse, reuse_existing_profile
  <2>3. CASE reuse = "reuse"
    BY <2>1, <2>3
  <2>4. CASE reuse = "mismatch"
    BY <2>1, <2>4
  <2>5. CASE reuse = "none" /\ plan.act = "refuse"
    BY <2>1, <2>5
  <2>6. CASE reuse = "none" /\ plan.act # "refuse"
    BY <2>1, <2>6
  <2> QED BY <2>2, <2>3, <2>4, <2>5, <2>6
<1>5. CASE Goto(p, "publish")
  <2>1. /\ Moves(p) /\ SameCommand(p) /\ proc'[p].pc = "publish" /\ proc'[p].todo = <<>>
        /\ proc'[p].left = proc[p].left
    BY <1>1, <1>5, GotoMoves DEF Shaped, PCs
  <2>2. Shape(p)'
    BY <1>1, <2>1 DEF Shape, SameCommand
  <2> QED BY <1>1, <1>2, <1>5, <2>1, <2>2, GotoDoes DEF PCs
<1>6. CASE End(p, "refused")
  BY <1>1, <1>2, <1>6, EndDoes DEF Statuses
<1>7. CASE /\ plan.act # "refuse"
           /\ proc' = [proc EXCEPT ![p].pc = plan.act, ![p].root = plan.root]
  <2> DEFINE moved == [c EXCEPT !.pc = plan.act, !.root = plan.root]
  <2>1. plan.act \in {"create", "adopt"} /\ plan.act \in PCs /\ plan.root \in Roots
    BY <1>3, <1>7 DEF PCs
  <2>2. moved \in ProcType
    BY <1>1, <2>1 DEF ProcType
  <2>3. proc' = [proc EXCEPT ![p] = moved]
    BY <1>7 DEF Shaped, Types
  <2>4. Moves(p) /\ proc'[p] = moved
    BY <2>2, <2>3, ProcStep DEF Shaped
  <2>5. /\ SameCommand(p) /\ proc'[p].pc = plan.act /\ proc'[p].root = plan.root
        /\ proc'[p].todo = <<>> /\ proc'[p].left = proc[p].left
    BY <1>1, <2>1, <2>4 DEF SameCommand, ProcType
  <2>6. plan.act = "create" => plan.root \in ExplicitRoots \cup {default_vault_root[c.profile]}
    BY <1>1, <1>3
  <2>7. Shape(p)'
    BY <1>1, <2>1, <2>5, <2>6 DEF Shape, SameCommand
  <2>8. Shaped'
    BY <1>1, <1>2, <2>4, <2>7, Reshaped DEF Shaped, Types
  <2> QED BY <2>1, <2>4, <2>5, <2>8
<1> QED BY <1>4, <1>5, <1>6, <1>7

LEMMA CreateDoes ==
    ASSUME Shaped, NEW p \in Procs, Create(p)
    PROVE  /\ Shaped' /\ Moves(p)
           /\ \/ proc'[p].pc = "done" /\ proc'[p].status = "would_fork"
              \/ /\ SameCommand(p) /\ proc'[p].pc = "init_profile"
                 /\ proc'[p].root = proc[p].root /\ workspaces[proc[p].root] = 0
<1>1. /\ proc[p].pc = "create" /\ proc[p].root \in Roots
      /\ UNCHANGED <<workspaces, registry, owned, registered, relying>>
  BY DEF Create, Shaped, Shape, vaultVars
<1>2. /\ workspaces' \in [Roots -> Nat] /\ registry' \in [Profiles -> Roots \cup {NoRoot}]
      /\ registered' \subseteq Projects /\ relying' \in [Projects -> SUBSET Hosts]
  BY <1>1 DEF Shaped, Types
<1>3. CASE probe(proc[p].root)
  <2>1. End(p, "would_fork")
    BY <1>3 DEF Create
  <2> QED BY <1>1, <1>2, <2>1, EndDoes DEF Statuses
<1>4. CASE ~probe(proc[p].root)
  <2>1. Goto(p, "init_profile") /\ "init_profile" \in PCs
    BY <1>4 DEF Create, PCs
  <2>2. workspaces[proc[p].root] = 0
    BY <1>1, <1>4 DEF probe, Shaped, Types
  <2>3. /\ Moves(p) /\ SameCommand(p) /\ proc'[p].pc = "init_profile"
        /\ proc'[p].todo = proc[p].todo
        /\ proc'[p].left = proc[p].left /\ proc'[p].root = proc[p].root
    BY <2>1, GotoMoves DEF Shaped
  <2>4. Shape(p)'
    BY <1>1, <2>3 DEF Shape, SameCommand, Shaped
  <2> QED BY <1>1, <1>2, <2>1, <2>2, <2>3, <2>4, GotoDoes
<1> QED BY <1>3, <1>4

\* Only init-profile adds a workspace, to the root of a profile that was free.
LEMMA CallEngineDoes ==
    ASSUME Shaped, NEW p \in Procs, CallEngine(p)
    PROVE  /\ Shaped' /\ Moves(p)
           /\ \/ proc'[p].pc = "done" /\ proc'[p].status = "refused"
              \/ SameCommand(p) /\ proc'[p].pc \in {"set_active", "publish"}
           /\ \/ UNCHANGED <<workspaces, registry>>
              \/ /\ proc[p].pc = "init_profile" /\ registry[proc[p].profile] = NoRoot
                 /\ registry' = [registry EXCEPT ![proc[p].profile] = proc[p].root]
                 /\ workspaces' = [workspaces EXCEPT ![proc[p].root] = @ + 1]
              \/ /\ proc[p].pc = "adopt" /\ registry[proc[p].profile] = NoRoot
                 /\ registry' = [registry EXCEPT ![proc[p].profile] = proc[p].root]
                 /\ UNCHANGED workspaces
<1>1. /\ proc[p].pc \in {"init_profile", "adopt"} /\ proc[p].root \in Roots
      /\ proc[p].profile \in Profiles
      /\ UNCHANGED <<owned, registered, relying>>
  BY DEF CallEngine, Shaped, Shape
<1>2. registered' \subseteq Projects /\ relying' \in [Projects -> SUBSET Hosts]
  BY <1>1 DEF Shaped, Types
<1>3. ASSUME NEW pc \in {"set_active", "publish"}, Goto(p, pc),
             workspaces' \in [Roots -> Nat], registry' \in [Profiles -> Roots \cup {NoRoot}]
      PROVE  Shaped' /\ Moves(p) /\ SameCommand(p) /\ proc'[p].pc = pc
  <2>1. pc \in PCs
    BY DEF PCs
  <2>2. /\ Moves(p) /\ SameCommand(p) /\ proc'[p].pc = pc /\ proc'[p].todo = proc[p].todo
        /\ proc'[p].left = proc[p].left
    BY <1>3, <2>1, GotoMoves DEF Shaped
  <2>3. Shape(p)'
    BY <1>1, <2>2 DEF Shape, SameCommand, Shaped
  <2> QED BY <1>1, <1>3, <2>1, <2>2, <2>3, GotoDoes
<1>4. CASE proc[p].pc = "init_profile" /\ init_profile(proc[p].profile, proc[p].root)
           /\ Goto(p, "set_active")
  <2>1. /\ workspaces' \in [Roots -> Nat] /\ registry' \in [Profiles -> Roots \cup {NoRoot}]
        /\ registry[proc[p].profile] = NoRoot
        /\ registry' = [registry EXCEPT ![proc[p].profile] = proc[p].root]
        /\ workspaces' = [workspaces EXCEPT ![proc[p].root] = @ + 1]
    BY <1>1, <1>4 DEF init_profile, Shaped, Types
  <2>2. Shaped' /\ Moves(p) /\ SameCommand(p) /\ proc'[p].pc = "set_active"
    BY <1>3, <1>4, <2>1
  <2> QED BY <1>4, <2>1, <2>2
<1>5. CASE proc[p].pc = "adopt" /\ profile_import(proc[p].profile, proc[p].root)
           /\ Goto(p, "publish")
  <2>1. /\ workspaces' \in [Roots -> Nat] /\ registry' \in [Profiles -> Roots \cup {NoRoot}]
        /\ registry[proc[p].profile] = NoRoot
        /\ registry' = [registry EXCEPT ![proc[p].profile] = proc[p].root]
        /\ UNCHANGED workspaces
    BY <1>1, <1>5 DEF profile_import, Shaped, Types
  <2>2. Shaped' /\ Moves(p) /\ SameCommand(p) /\ proc'[p].pc = "publish"
    BY <1>3, <1>5, <2>1
  <2> QED BY <1>5, <2>1, <2>2
<1>6. CASE End(p, "refused") /\ UNCHANGED <<workspaces, registry>>
  <2>1. workspaces' \in [Roots -> Nat] /\ registry' \in [Profiles -> Roots \cup {NoRoot}]
    BY <1>6 DEF Shaped, Types
  <2> QED BY <1>1, <1>2, <1>6, <2>1, EndDoes DEF Statuses
<1> QED BY <1>4, <1>5, <1>6 DEF CallEngine

LEMMA SetActiveDoes ==
    ASSUME Shaped, NEW p \in Procs, SetActive(p) \/ Preflight(p)
    PROVE  /\ Shaped' /\ Moves(p)
           /\ \/ proc'[p].pc = "done" /\ proc'[p].status \in {"refused", "recovery"}
              \/ /\ SameCommand(p) /\ proc'[p].pc \in {"preflight", "hosts", "finish"}
                 /\ proc'[p].pc # "finish" => proc'[p].failed = proc[p].failed
                 /\ proc'[p].left = proc[p].left /\ proc'[p].retain = proc[p].retain
                 /\ proc'[p].pc = "finish" => proc'[p].failed
<1>1. /\ proc[p].pc \in {"set_active", "publish", "preflight"} /\ proc[p].command = "init"
      /\ UNCHANGED <<workspaces, registry, owned, registered, relying>> /\ proc[p] \in ProcType
  BY DEF SetActive, Preflight, Shaped, Shape, vaultVars, Types
<1>2. /\ workspaces' \in [Roots -> Nat] /\ registry' \in [Profiles -> Roots \cup {NoRoot}]
      /\ registered' \subseteq Projects /\ relying' \in [Projects -> SUBSET Hosts]
  BY <1>1 DEF Shaped, Types
<1>3. ASSUME NEW pc \in {"preflight", "hosts"}, Goto(p, pc)
      PROVE  /\ Shaped' /\ Moves(p) /\ SameCommand(p) /\ proc'[p].pc = pc
             /\ proc'[p].failed = proc[p].failed /\ proc'[p].left = proc[p].left
             /\ proc'[p].retain = proc[p].retain
  <2>1. pc \in PCs
    BY DEF PCs
  <2>2. /\ Moves(p) /\ SameCommand(p) /\ proc'[p].pc = pc /\ proc'[p].todo = proc[p].todo
        /\ proc'[p].left = proc[p].left /\ proc'[p].failed = proc[p].failed
        /\ proc'[p].retain = proc[p].retain
    BY <1>3, <2>1, GotoMoves DEF Shaped
  <2>3. Shape(p)'
    BY <1>1, <2>2 DEF Shape, SameCommand, Shaped
  <2> QED BY <1>1, <1>2, <1>3, <2>1, <2>2, <2>3, GotoDoes
<1>4. ASSUME NEW status \in {"refused", "recovery"}, End(p, status)
      PROVE  Shaped' /\ Moves(p) /\ proc'[p].pc = "done" /\ proc'[p].status = status
  BY <1>1, <1>2, <1>4, EndDoes DEF Statuses
<1>5. CASE proc' = [proc EXCEPT ![p].pc = "finish", ![p].failed = TRUE]
  <2> DEFINE moved == [proc[p] EXCEPT !.pc = "finish", !.failed = TRUE]
  <2>1. moved \in ProcType
    BY <1>1 DEF ProcType, PCs
  <2>2. proc' = [proc EXCEPT ![p] = moved]
    BY <1>5 DEF Shaped, Types
  <2>3. Moves(p) /\ proc'[p] = moved
    BY <2>1, <2>2, ProcStep DEF Shaped
  <2>4. /\ SameCommand(p) /\ proc'[p].pc = "finish" /\ proc'[p].failed
        /\ proc'[p].todo = proc[p].todo /\ proc'[p].left = proc[p].left
        /\ proc'[p].retain = proc[p].retain
    BY <1>1, <2>3 DEF SameCommand, ProcType
  <2>5. Shape(p)'
    BY <1>1, <2>4 DEF Shape, SameCommand, Shaped
  <2>6. Shaped'
    BY <1>1, <1>2, <2>3, <2>5, Reshaped DEF Shaped, Types
  <2> QED BY <2>3, <2>4, <2>6
<1>6. \/ Goto(p, "preflight") \/ Goto(p, "hosts") \/ End(p, "refused") \/ End(p, "recovery")
      \/ proc' = [proc EXCEPT ![p].pc = "finish", ![p].failed = TRUE]
  BY DEF SetActive, Preflight
<1> QED BY <1>3, <1>4, <1>5, <1>6

LEMMA ReadDependantsDoes ==
    ASSUME Shaped, NEW p \in Procs, ReadDependants(p)
    PROVE  /\ Shaped' /\ Moves(p) /\ SameCommand(p) /\ proc'[p].pc = "hosts"
           /\ proc'[p].left = proc[p].left /\ proc'[p].todo = <<>>
           /\ proc'[p].retain <=> proc[p].scope = "user" /\ other_projects(proc[p].project) # {}
<1> DEFINE retain == proc[p].scope = "user" /\ other_projects(proc[p].project) # {}
           moved == [proc[p] EXCEPT !.pc = "hosts", !.retain = retain]
<1>1. /\ proc[p].pc = "dependants" /\ proc[p].command = "teardown" /\ proc[p].todo = <<>>
      /\ UNCHANGED <<workspaces, registry, owned, registered, relying>> /\ proc[p] \in ProcType
      /\ proc[p].left = proc[p].hosts
  BY DEF ReadDependants, Shaped, Shape, vaultVars, Types
<1>2. /\ workspaces' \in [Roots -> Nat] /\ registry' \in [Profiles -> Roots \cup {NoRoot}]
      /\ registered' \subseteq Projects /\ relying' \in [Projects -> SUBSET Hosts]
  BY <1>1 DEF Shaped, Types
<1>3. proc' = [proc EXCEPT ![p] = moved]
  BY DEF ReadDependants, Shaped, Types
<1>4. retain \in BOOLEAN
  OBVIOUS
<1> HIDE DEF retain
<1>5. moved \in ProcType
  BY <1>1, <1>4 DEF ProcType, PCs
<1>6. Moves(p) /\ proc'[p] = moved
  BY <1>3, <1>5, ProcStep DEF Shaped
<1>7. /\ SameCommand(p) /\ proc'[p].pc = "hosts" /\ proc'[p].todo = <<>>
      /\ proc'[p].left = proc[p].left /\ proc'[p].retain = retain
  BY <1>1, <1>6 DEF SameCommand, ProcType
<1>8. Shape(p)'
  BY <1>1, <1>7 DEF Shape, SameCommand, Shaped
<1>9. Shaped'
  BY <1>1, <1>2, <1>6, <1>8, Reshaped DEF Shaped, Types
<1> QED BY <1>4, <1>6, <1>7, <1>9 DEF retain

LEMMA NextHostDoes ==
    ASSUME Shaped, NEW p \in Procs, NextHost(p)
    PROVE  /\ Shaped' /\ Moves(p) /\ SameCommand(p)
           /\ proc'[p].failed = proc[p].failed /\ proc'[p].retain = proc[p].retain
           /\ \/ /\ proc'[p].pc = "finish" /\ proc[p].left = {} /\ proc'[p].left = {}
                 /\ proc'[p].todo = <<>>
              \/ \E h \in proc[p].left :
                   /\ proc'[p].pc = "apply" /\ proc'[p].left = proc[p].left \ {h}
                   /\ Elems(proc'[p].todo) =
                        {Planned(s, proc[p], h) : s \in StepsFor(proc[p], h)}
<1>1. /\ proc[p].pc = "hosts" /\ proc[p].project \in Projects /\ proc[p].todo = <<>>
      /\ UNCHANGED <<workspaces, registry, owned, registered, relying>> /\ proc[p] \in ProcType
      /\ proc[p].command \in {"init", "teardown"}
  BY DEF NextHost, Shaped, Shape, vaultVars, Types
<1>2. /\ workspaces' \in [Roots -> Nat] /\ registry' \in [Profiles -> Roots \cup {NoRoot}]
      /\ registered' \subseteq Projects /\ relying' \in [Projects -> SUBSET Hosts]
  BY <1>1 DEF Shaped, Types
<1>3. CASE proc[p].left = {} /\ Goto(p, "finish")
  <2>1. /\ Moves(p) /\ SameCommand(p) /\ proc'[p].pc = "finish" /\ proc'[p].todo = <<>>
        /\ proc'[p].left = proc[p].left /\ proc'[p].failed = proc[p].failed
        /\ proc'[p].retain = proc[p].retain
    BY <1>1, <1>3, GotoMoves DEF Shaped, PCs
  <2>2. Shape(p)'
    BY <1>1, <1>3, <2>1 DEF Shape, SameCommand, Shaped
  <2>3. Shaped'
    BY <1>1, <1>2, <1>3, <2>2, GotoDoes DEF PCs
  <2> QED BY <1>3, <2>1, <2>3
<1>4. ASSUME NEW h \in proc[p].left,
             proc' = [proc EXCEPT ![p].pc = "apply", ![p].left = @ \ {h},
                                  ![p].todo = HostPlans(proc[p], h)]
      PROVE  /\ Shaped' /\ Moves(p) /\ SameCommand(p)
             /\ proc'[p].failed = proc[p].failed /\ proc'[p].retain = proc[p].retain
             /\ proc'[p].pc = "apply" /\ proc'[p].left = proc[p].left \ {h}
             /\ Elems(proc'[p].todo) = {Planned(s, proc[p], h) : s \in StepsFor(proc[p], h)}
  <2> DEFINE plans == HostPlans(proc[p], h)
             left == proc[p].left \ {h}
             moved == [proc[p] EXCEPT !.pc = "apply", !.left = left, !.todo = plans]
  <2>1. h \in Hosts /\ left \in SUBSET Hosts
    BY <1>1 DEF ProcType
  <2>2. /\ plans \in Seq(PlannedStep)
        /\ Elems(plans) = {Planned(s, proc[p], h) : s \in StepsFor(proc[p], h)}
    BY <1>1, <2>1, PlansOfHost
  <2>3. proc' = [proc EXCEPT ![p] = moved]
    BY <1>4 DEF Shaped, Types
  <2> HIDE DEF plans, left
  <2>4. moved \in ProcType
    BY <1>1, <2>1, <2>2 DEF ProcType, PCs
  <2>5. Moves(p) /\ proc'[p] = moved
    BY <2>3, <2>4, ProcStep DEF Shaped
  <2>6. /\ SameCommand(p) /\ proc'[p].pc = "apply" /\ proc'[p].todo = plans
        /\ proc'[p].left = left /\ proc'[p].failed = proc[p].failed
        /\ proc'[p].retain = proc[p].retain
    BY <1>1, <2>5 DEF SameCommand, ProcType
  <2>7. Shape(p)'
    BY <1>1, <2>6 DEF Shape, SameCommand, Shaped
  <2>8. Shaped'
    BY <1>1, <1>2, <2>5, <2>7, Reshaped DEF Shaped, Types
  <2> QED BY <2>2, <2>5, <2>6, <2>8 DEF left
<1> QED BY <1>3, <1>4 DEF NextHost

\* A step is skipped, taken or failed; in each case it leaves the list, and a
\* failure is remembered.
LEMMA ApplyStepDoes ==
    ASSUME Shaped, NEW p \in Procs, ApplyStep(p)
    PROVE  LET step == Head(proc[p].todo) IN
           /\ Shaped' /\ Moves(p) /\ SameCommand(p)
           /\ proc[p].pc = "apply" /\ step \in PlannedStep
           /\ UNCHANGED <<workspaces, registry, registered, relying>>
           /\ proc'[p].left = proc[p].left /\ proc'[p].retain = proc[p].retain
           /\ step \in Elems(proc[p].todo) /\ Elems(proc'[p].todo) \subseteq Elems(proc[p].todo)
           /\ \/ /\ proc'[p].pc = "apply" /\ proc'[p].failed = proc[p].failed
                 /\ Elems(proc[p].todo) = {step} \cup Elems(proc'[p].todo)
                 /\ \/ (step.seen <=> Installs(p)) /\ UNCHANGED owned
                    \/ /\ step.seen <=> ~Installs(p)
                       /\ owned' = IF Installs(p) THEN owned \cup {step.slot}
                                   ELSE owned \ {step.slot}
              \/ /\ proc'[p].pc \in {"apply", "finish"} /\ proc'[p].failed /\ UNCHANGED owned
                 /\ proc'[p].pc = "finish" => proc[p].command = "init"
<1> DEFINE step == Head(proc[p].todo)
           rest == Tail(proc[p].todo)
<1>1. /\ proc[p].pc = "apply" /\ proc[p].project \in Projects /\ proc[p].todo # <<>>
      /\ UNCHANGED <<workspaces, registry, registered, relying>> /\ proc[p] \in ProcType
  BY DEF ApplyStep, Shaped, Shape, vaultVars, Types
<1>2. /\ workspaces' \in [Roots -> Nat] /\ registry' \in [Profiles -> Roots \cup {NoRoot}]
      /\ registered' \subseteq Projects /\ relying' \in [Projects -> SUBSET Hosts]
  BY <1>1 DEF Shaped, Types
<1>3. /\ step \in PlannedStep /\ rest \in Seq(PlannedStep)
      /\ Elems(proc[p].todo) = {step} \cup Elems(rest)
  <2>1. proc[p].todo \in Seq(PlannedStep)
    BY <1>1 DEF ProcType
  <2> QED BY <1>1, <2>1, ElemsTail
<1>4. step.slot \in Slots /\ step.seen \in BOOLEAN
  BY <1>3 DEF PlannedStep
<1>5. owned' \subseteq Slots
  BY <1>4 DEF ApplyStep, Shaped, Types
<1>6. ASSUME NEW failed \in BOOLEAN, NEW pc \in {"apply", "finish"}, NEW todo \in Seq(PlannedStep),
             pc = "finish" => failed /\ todo = <<>> /\ proc[p].command = "init",
             proc' = [proc EXCEPT ![p] = [proc[p] EXCEPT !.pc = pc, !.failed = failed, !.todo = todo]]
      PROVE  /\ Shaped' /\ Moves(p) /\ SameCommand(p)
             /\ proc'[p].left = proc[p].left /\ proc'[p].retain = proc[p].retain
             /\ proc'[p].pc = pc /\ proc'[p].todo = todo /\ proc'[p].failed = failed
  <2> DEFINE moved == [proc[p] EXCEPT !.pc = pc, !.failed = failed, !.todo = todo]
  <2>1. moved \in ProcType
    BY <1>1 DEF ProcType, PCs
  <2>2. Moves(p) /\ proc'[p] = moved
    BY <1>6, <2>1, ProcStep DEF Shaped
  <2>3. /\ SameCommand(p) /\ proc'[p].pc = pc /\ proc'[p].todo = todo
        /\ proc'[p].left = proc[p].left /\ proc'[p].failed = failed
        /\ proc'[p].retain = proc[p].retain
    BY <1>1, <2>2 DEF SameCommand, ProcType
  <2>4. Shape(p)'
    BY <1>1, <1>6, <2>3 DEF Shape, SameCommand, Shaped
  <2>5. Shaped'
    BY <1>1, <1>2, <1>5, <2>2, <2>4, Reshaped DEF Shaped, Types
  <2> QED BY <2>2, <2>3, <2>5
<1>7. ASSUME proc' = [proc EXCEPT ![p].todo = Tail(@)]
      PROVE  /\ Shaped' /\ Moves(p) /\ SameCommand(p)
             /\ proc'[p].left = proc[p].left /\ proc'[p].retain = proc[p].retain
             /\ proc'[p].pc = "apply" /\ proc'[p].todo = rest /\ proc'[p].failed = proc[p].failed
  <2>1. proc' = [proc EXCEPT ![p] = [proc[p] EXCEPT !.pc = "apply", !.failed = proc[p].failed,
                                                    !.todo = rest]]
    BY <1>1, <1>7 DEF Shaped, Types, ProcType
  <2>2. proc[p].failed \in BOOLEAN
    BY <1>1 DEF ProcType
  <2> QED BY <1>3, <1>6, <2>1, <2>2
<1>8. ASSUME StepFails(p)
      PROVE  /\ Shaped' /\ Moves(p) /\ SameCommand(p)
             /\ proc'[p].left = proc[p].left /\ proc'[p].retain = proc[p].retain
             /\ proc'[p].failed
             /\ \/ proc'[p].pc = "finish" /\ proc'[p].todo = <<>> /\ proc[p].command = "init"
                \/ proc'[p].pc = "apply" /\ proc'[p].todo = rest
  <2>1. CASE proc[p].command = "init"
    <3>1. proc' = [proc EXCEPT ![p] = [proc[p] EXCEPT !.pc = "finish", !.failed = TRUE,
                                                      !.todo = <<>>]]
      BY <1>8, <2>1 DEF StepFails, Shaped, Types
    <3>2. <<>> \in Seq(PlannedStep) /\ TRUE \in BOOLEAN
      OBVIOUS
    <3> QED BY <1>6, <2>1, <3>1, <3>2
  <2>2. CASE proc[p].command # "init"
    <3>1. proc' = [proc EXCEPT ![p] = [proc[p] EXCEPT !.pc = "apply", !.failed = TRUE,
                                                      !.todo = rest]]
      <4>1. proc' = [proc EXCEPT ![p] = [proc[p] EXCEPT !.failed = TRUE, !.todo = rest]]
        BY <1>8, <2>2 DEF StepFails, Shaped, Types
      <4>2. [proc[p] EXCEPT !.failed = TRUE, !.todo = rest] =
              [proc[p] EXCEPT !.pc = "apply", !.failed = TRUE, !.todo = rest]
        BY <1>1 DEF ProcType
      <4> QED BY <4>1, <4>2
    <3>2. TRUE \in BOOLEAN
      OBVIOUS
    <3> QED BY <1>3, <1>6, <3>1, <3>2
  <2> QED BY <2>1, <2>2
<1>9. \/ /\ step.seen <=> Installs(p)
         /\ proc' = [proc EXCEPT ![p].todo = Tail(@)] /\ UNCHANGED owned
      \/ /\ step.seen <=> ~Installs(p)
         /\ owned' = IF Installs(p) THEN owned \cup {step.slot} ELSE owned \ {step.slot}
         /\ proc' = [proc EXCEPT ![p].todo = Tail(@)]
      \/ StepFails(p) /\ UNCHANGED owned
  <2> DEFINE noop == step.seen = Installs(p)
  <2>1. Installs(p) \in BOOLEAN /\ step.seen \in BOOLEAN
    BY <1>4 DEF Installs
  <2>2. (noop <=> (step.seen <=> Installs(p))) /\ (~noop <=> (step.seen <=> ~Installs(p)))
    BY <2>1
  <2>3. \/ /\ noop /\ proc' = [proc EXCEPT ![p].todo = Tail(@)] /\ UNCHANGED owned
        \/ /\ ~noop
           /\ owned' = IF Installs(p) THEN owned \cup {step.slot} ELSE owned \ {step.slot}
           /\ proc' = [proc EXCEPT ![p].todo = Tail(@)]
        \/ StepFails(p) /\ UNCHANGED owned
    BY Zenon DEF ApplyStep
  <2> HIDE DEF noop, step
  <2> QED BY <2>2, <2>3
<1>10. Elems(<<>>) = {}
  BY ElemsOne
<1> QED BY <1>1, <1>3, <1>7, <1>8, <1>9, <1>10

LEMMA StepsDoneDoes ==
    ASSUME Shaped, NEW p \in Procs, StepsDone(p)
    PROVE  /\ Shaped' /\ Moves(p)
           /\ \/ proc'[p].pc = "done" /\ proc'[p].status \in {"issues", "applied"}
              \/ /\ SameCommand(p) /\ proc'[p].pc = "hosts" /\ proc[p].todo = <<>>
                 /\ proc'[p].todo = <<>> /\ proc'[p].left = proc[p].left
                 /\ proc'[p].failed = proc[p].failed /\ proc'[p].retain = proc[p].retain
<1>1. /\ proc[p].pc = "apply" /\ proc[p].project \in Projects /\ proc[p].todo = <<>>
      /\ UNCHANGED <<workspaces, registry, owned, registered, relying>> /\ proc[p] \in ProcType
  BY DEF StepsDone, Shaped, Shape, vaultVars, Types
<1>2. /\ workspaces' \in [Roots -> Nat] /\ registry' \in [Profiles -> Roots \cup {NoRoot}]
      /\ registered' \subseteq Projects /\ relying' \in [Projects -> SUBSET Hosts]
  BY <1>1 DEF Shaped, Types
<1>3. CASE proc[p].command \in {"install", "remove"}
  <2> DEFINE status == IF proc[p].failed THEN "issues" ELSE "applied"
  <2>1. End(p, status) /\ status \in Statuses /\ status \in {"issues", "applied"}
    BY <1>3 DEF StepsDone, Statuses
  <2> HIDE DEF status
  <2> QED BY <1>1, <1>2, <2>1, EndDoes
<1>4. CASE proc[p].command \notin {"install", "remove"}
  <2>1. Goto(p, "hosts") /\ "hosts" \in PCs
    BY <1>4 DEF StepsDone, PCs
  <2>2. /\ Moves(p) /\ SameCommand(p) /\ proc'[p].pc = "hosts" /\ proc'[p].todo = <<>>
        /\ proc'[p].left = proc[p].left /\ proc'[p].failed = proc[p].failed
        /\ proc'[p].retain = proc[p].retain
    BY <1>1, <2>1, GotoMoves DEF Shaped
  <2>3. proc[p].command \in {"init", "teardown"}
    BY <1>1, <1>4 DEF Shaped, Shape
  <2>4. Shape(p)'
    BY <1>1, <2>2, <2>3 DEF Shape, SameCommand, Shaped
  <2> QED BY <1>1, <1>2, <2>1, <2>2, <2>4, GotoDoes
<1> QED BY <1>3, <1>4

LEMMA FinishDoes ==
    ASSUME Shaped, NEW p \in Procs, FinishInit(p) \/ FinishTeardown(p)
    PROVE  /\ Shaped' /\ Moves(p) /\ proc[p].pc = "finish" /\ proc'[p].pc = "done"
           /\ UNCHANGED <<workspaces, registry, owned>>
           /\ proc'[p].status = "removed" =>
                proc[p].command = "teardown" /\ ~proc[p].failed /\ ~proc[p].retain
<1> DEFINE done == IF proc[p].failed THEN "issues" ELSE "initialized"
           undone == CASE proc[p].failed -> "issues"
                       [] ~proc[p].failed /\ proc[p].retain -> "partially_removed"
                       [] OTHER -> "removed"
<1>1. /\ proc[p].pc = "finish" /\ proc[p].project \in Projects /\ proc[p] \in ProcType
      /\ UNCHANGED <<workspaces, registry, owned>>
  BY DEF FinishInit, FinishTeardown, Shaped, Shape, vaultVars, Types
<1>2. /\ workspaces' \in [Roots -> Nat] /\ registry' \in [Profiles -> Roots \cup {NoRoot}]
  BY <1>1 DEF Shaped, Types
<1>3. proc[p].failed \in BOOLEAN /\ proc[p].retain \in BOOLEAN /\ proc[p].hosts \in SUBSET Hosts
  BY <1>1 DEF ProcType
<1>4. CASE FinishInit(p)
  <2>1. End(p, done) /\ done \in Statuses /\ done # "removed"
    BY <1>4 DEF FinishInit, Statuses
  <2>2. registered' \subseteq Projects
    BY <1>1, <1>4 DEF FinishInit, Shaped, Types
  <2>3. relying' \in [Projects -> SUBSET Hosts]
    BY <1>1, <1>3, <1>4 DEF FinishInit, Shaped, Types
  <2> HIDE DEF done
  <2> QED BY <1>1, <1>2, <2>1, <2>2, <2>3, EndDoes
<1>5. CASE FinishTeardown(p)
  <2>1. /\ End(p, undone) /\ undone \in Statuses /\ proc[p].command = "teardown"
        /\ undone = "removed" => ~proc[p].failed /\ ~proc[p].retain
    BY <1>3, <1>5 DEF FinishTeardown, Statuses
  <2>2. registered' \subseteq Projects /\ relying' \in [Projects -> SUBSET Hosts]
    BY <1>5 DEF FinishTeardown, Shaped, Types, other_projects
  <2> HIDE DEF undone
  <2> QED BY <1>1, <1>2, <2>1, <2>2, EndDoes
<1> QED BY <1>4, <1>5

LEMMA CrashDoes ==
    ASSUME Shaped, NEW p \in Procs, Crash(p)
    PROVE  /\ Shaped' /\ Moves(p) /\ proc'[p].pc = "done" /\ proc'[p].status = "none"
           /\ UNCHANGED <<workspaces, registry, owned, registered, relying>>
<1>1. Moves(p) /\ proc'[p] = Idle
  BY IdleType, ProcStep DEF Crash, Shaped
<1>2. Shape(p)'
  BY <1>1, IdleType DEF Shape
<1>3. UNCHANGED <<workspaces, registry, owned, registered, relying>>
  BY DEF Crash, vaultVars
<1>4. Shaped'
  BY <1>1, <1>2, <1>3, Reshaped DEF Shaped, Types
<1> QED BY <1>1, <1>3, <1>4, IdleType

\* What the single-step commands and the user do.
ByHand ==
    \/ \E f \in Profiles : ProfileRemove(f) \/ ProfileUse(f) \/ DropRecord(f)
    \/ \E q \in Projects : DeleteFiles(q)
    \/ \E r \in Roots : DeleteVault(r)

LEMMA ByHandDoes ==
    ASSUME Shaped, ByHand
    PROVE  /\ Shaped' /\ UNCHANGED proc
           /\ owned' \subseteq owned
           /\ \A r \in Roots : workspaces'[r] \in {0, workspaces[r]}
<1>1. /\ UNCHANGED proc /\ owned' \subseteq owned /\ registered' \subseteq Projects
      /\ relying' \in [Projects -> SUBSET Hosts] /\ registry' \in [Profiles -> Roots \cup {NoRoot}]
      /\ workspaces' \in [Roots -> Nat]
      /\ \A r \in Roots : workspaces'[r] \in {0, workspaces[r]}
  <2>1. CASE \E f \in Profiles : ProfileRemove(f) \/ ProfileUse(f) \/ DropRecord(f)
    BY <2>1 DEF ProfileRemove, ProfileUse, DropRecord, Shaped, Types
  <2>2. CASE \E q \in Projects : DeleteFiles(q)
    BY <2>2 DEF DeleteFiles, Shaped, Types, vaultVars
  <2>3. CASE \E r \in Roots : DeleteVault(r)
    BY <2>3 DEF DeleteVault, Shaped, Types
  <2> QED BY <2>1, <2>2, <2>3 DEF ByHand
<1>2. Types'
  BY <1>1 DEF Shaped, Types
<1>3. \A p \in Procs : Shape(p)'
  BY <1>1 DEF Shaped, Shape
<1> QED BY <1>1, <1>2, <1>3 DEF Shaped

LEMMA InitShaped == Init => Shaped
<1> SUFFICES ASSUME Init PROVE Shaped
  OBVIOUS
<1>1. Types
  BY IdleType, VaultAssumption DEF Init, VaultStart, Types
<1>2. \A p \in Procs : proc[p] = Idle
  BY DEF Init
<1> QED BY <1>1, <1>2, IdleType DEF Shaped, Shape

LEMMA NextShaped ==
    ASSUME Shaped, [Next]_vars
    PROVE  Shaped'
<1>1. ASSUME NEW p \in Procs, StartInit(p) \/ StartTeardown(p) \/ StartSingle(p) \/ Crash(p)
      PROVE  Shaped'
  BY <1>1, StartInitDoes, StartTeardownDoes, StartSingleDoes, CrashDoes
<1>2. ASSUME NEW p \in Procs, Run(p)
      PROVE  Shaped'
  BY <1>2, SettleVaultDoes, CreateDoes, CallEngineDoes, SetActiveDoes, ReadDependantsDoes,
     NextHostDoes, ApplyStepDoes, StepsDoneDoes, FinishDoes DEF Run
<1>3. CASE ByHand
  BY <1>3, ByHandDoes
<1>4. CASE UNCHANGED vars
  BY <1>4 DEF vars, Shaped, Types, Shape
<1> QED BY <1>1, <1>2, <1>3, <1>4 DEF Next, ByHand

-----------------------------------------------------------------------------
(* No vault is forked.                                                     *)

\* The hypotheses: a profile is not removed while an init runs, and different
\* profiles are created in different roots, which the user has not undone by
\* hand.  (One --root given to two profiles, or a record dropped between the
\* look at the root and the call of the engine, does fork a vault.)
VaultsApart ==
    /\ "profile_remove" \in Alone
    /\ \A f, g \in Profiles : f # g =>
         /\ default_vault_root[f] # default_vault_root[g]
         /\ ExplicitRoots \subseteq {NoRoot}
         /\ "drop_record" \notin UserMay

\* From the second look at the root to the call of the engine, the root stays
\* free, unless another init of the same profile has taken it: then the engine
\* refuses the name.
RootStaysFree ==
    \A p \in Procs : proc[p].pc = "init_profile" =>
      workspaces[proc[p].root] = 0 \/ registry[proc[p].profile] = proc[p].root

ForkInv == Shaped /\ RootStaysFree /\ NeverForks

LEMMA OtherSteps ==
    ASSUME Shaped, NEW p \in Procs,
           \/ StartInit(p) \/ StartTeardown(p) \/ StartSingle(p) \/ Crash(p) \/ SettleVault(p)
           \/ SetActive(p) \/ Preflight(p) \/ ReadDependants(p) \/ NextHost(p) \/ ApplyStep(p)
           \/ StepsDone(p) \/ FinishInit(p) \/ FinishTeardown(p)
    PROVE  Moves(p) /\ proc'[p].pc # "init_profile" /\ UNCHANGED <<workspaces, registry>>
<1>1. CASE StartInit(p) \/ StartTeardown(p) \/ StartSingle(p) \/ Crash(p)
  <2>1. Moves(p) /\ proc'[p].pc # "init_profile"
    BY <1>1, StartInitDoes, StartTeardownDoes, StartSingleDoes, CrashDoes
  <2>2. UNCHANGED <<workspaces, registry>>
    BY <1>1 DEF StartInit, StartTeardown, StartSingle, Crash, vaultVars
  <2> QED BY <2>1, <2>2
<1>2. CASE SettleVault(p) \/ SetActive(p) \/ Preflight(p) \/ ReadDependants(p)
  <2>1. Moves(p) /\ proc'[p].pc # "init_profile"
    BY <1>2, SettleVaultDoes, SetActiveDoes, ReadDependantsDoes
  <2>2. UNCHANGED <<workspaces, registry>>
    BY <1>2 DEF SettleVault, SetActive, Preflight, ReadDependants, vaultVars
  <2> QED BY <2>1, <2>2
<1>3. CASE NextHost(p) \/ ApplyStep(p) \/ StepsDone(p)
  <2>1. Moves(p) /\ proc'[p].pc # "init_profile"
    BY <1>3, NextHostDoes, ApplyStepDoes, StepsDoneDoes
  <2>2. UNCHANGED <<workspaces, registry>>
    BY <1>3 DEF NextHost, ApplyStep, StepsDone, vaultVars
  <2> QED BY <2>1, <2>2
<1>4. CASE FinishInit(p) \/ FinishTeardown(p)
  BY <1>4, FinishDoes
<1> QED BY <1>1, <1>2, <1>3, <1>4

\* The engine takes only a free name, and so finds the root free.
LEMMA CallEngineForks ==
    ASSUME VaultsApart, ForkInv, NEW p \in Procs, CallEngine(p)
    PROVE  RootStaysFree' /\ NeverForks'
<1> DEFINE f == proc[p].profile
           root == proc[p].root
<1>1. /\ Moves(p) /\ proc'[p].pc # "init_profile"
      /\ \/ UNCHANGED <<workspaces, registry>>
         \/ /\ proc[p].pc = "init_profile" /\ registry[f] = NoRoot
            /\ registry' = [registry EXCEPT ![f] = root]
            /\ workspaces' = [workspaces EXCEPT ![root] = @ + 1]
         \/ /\ proc[p].pc = "adopt" /\ registry[f] = NoRoot
            /\ registry' = [registry EXCEPT ![f] = root]
            /\ UNCHANGED workspaces
  BY CallEngineDoes DEF ForkInv
<1>2. proc[p].pc \in {"init_profile", "adopt"} /\ f \in Profiles /\ root \in Roots
  BY DEF CallEngine, ForkInv, Shaped, Shape
<1>3. /\ workspaces \in [Roots -> Nat] /\ registry \in [Profiles -> Roots \cup {NoRoot}]
      /\ NoRoot \notin Roots
  BY VaultAssumption DEF ForkInv, Shaped, Types
<1>4. ASSUME NEW o \in Procs, o # p, proc[o].pc = "init_profile"
      PROVE  /\ proc[o].root \in Roots /\ proc[o].profile \in Profiles
             /\ proc[o].root \in ExplicitRoots \cup {default_vault_root[proc[o].profile]}
             /\ workspaces[proc[o].root] = 0 \/ registry[proc[o].profile] = proc[o].root
             /\ proc'[o] = proc[o]
  BY <1>1, <1>4 DEF Moves, ForkInv, Shaped, Shape, RootStaysFree
<1>5. CASE UNCHANGED <<workspaces, registry>>
  BY <1>1, <1>4, <1>5 DEF Moves, RootStaysFree, NeverForks, ForkInv
<1>6. CASE /\ proc[p].pc = "init_profile" /\ registry[f] = NoRoot
           /\ registry' = [registry EXCEPT ![f] = root]
           /\ workspaces' = [workspaces EXCEPT ![root] = @ + 1]
  <2>1. workspaces[root] = 0
    BY <1>2, <1>3, <1>6 DEF ForkInv, RootStaysFree
  <2>2. NeverForks'
    BY <1>2, <1>3, <1>6, <2>1 DEF ForkInv, NeverForks
  <2>3. ASSUME NEW o \in Procs, o # p, proc[o].pc = "init_profile"
        PROVE  workspaces'[proc[o].root] = 0 \/ registry'[proc[o].profile] = proc[o].root
    <3>1. CASE proc[o].profile = f
      BY <1>2, <1>3, <1>4, <1>6, <2>3, <3>1
    <3>2. CASE proc[o].profile # f
      <4>1. root \in ExplicitRoots \cup {default_vault_root[f]}
        BY <1>6 DEF ForkInv, Shaped, Shape
      <4>2. proc[o].root # root
        BY <1>2, <1>3, <1>4, <2>3, <3>2, <4>1 DEF VaultsApart
      <4> QED BY <1>2, <1>3, <1>4, <1>6, <2>3, <3>2, <4>2
    <3> QED BY <3>1, <3>2
  <2> QED BY <1>1, <1>4, <2>2, <2>3 DEF Moves, RootStaysFree
<1>7. CASE /\ proc[p].pc = "adopt" /\ registry[f] = NoRoot
           /\ registry' = [registry EXCEPT ![f] = root]
           /\ UNCHANGED workspaces
  <2>1. ASSUME NEW o \in Procs, o # p, proc[o].pc = "init_profile"
        PROVE  workspaces'[proc[o].root] = 0 \/ registry'[proc[o].profile] = proc[o].root
    BY <1>2, <1>3, <1>4, <1>7, <2>1
  <2> QED BY <1>1, <1>4, <1>7, <2>1 DEF Moves, RootStaysFree, NeverForks, ForkInv
<1> QED BY <1>1, <1>5, <1>6, <1>7

LEMMA ByHandForks ==
    ASSUME VaultsApart, ForkInv, ByHand
    PROVE  RootStaysFree' /\ NeverForks'
<1>1. UNCHANGED proc /\ \A r \in Roots : workspaces'[r] \in {0, workspaces[r]}
  BY ByHandDoes DEF ForkInv
<1>2. NeverForks'
  BY <1>1 DEF ForkInv, NeverForks
<1>3. ASSUME NEW o \in Procs, proc[o].pc = "init_profile"
      PROVE  workspaces'[proc[o].root] = 0 \/ registry'[proc[o].profile] = proc[o].root
  <2>1. /\ proc[o].root \in Roots /\ proc[o].profile \in Profiles /\ Running(o)
        /\ workspaces[proc[o].root] = 0 \/ registry[proc[o].profile] = proc[o].root
        /\ workspaces \in [Roots -> Nat] /\ registry \in [Profiles -> Roots \cup {NoRoot}]
    BY <1>3 DEF ForkInv, Shaped, Shape, Types, RootStaysFree, Running
  <2>2. CASE UNCHANGED registry
    BY <1>1, <2>1, <2>2
  <2>3. ASSUME NEW f \in Profiles, ProfileRemove(f)
        PROVE  FALSE
    BY <2>1, <2>3 DEF ProfileRemove, VaultsApart
  <2>4. ASSUME NEW f \in Profiles, DropRecord(f)
        PROVE  workspaces'[proc[o].root] = 0
    <3>1. /\ UNCHANGED workspaces /\ registry[f] # NoRoot
          /\ \E g \in Profiles : registry[g] # NoRoot /\ workspaces[registry[g]] = 0
      BY <2>1, <2>4 DEF DropRecord, Readable
    <3>2. \A g \in Profiles : g = proc[o].profile
      BY <2>1, <2>4 DEF DropRecord, VaultsApart
    <3>3. workspaces[proc[o].root] = 0
      BY <2>1, <3>1, <3>2
    <3> QED BY <3>1, <3>3
  <2> QED BY <2>2, <2>3, <2>4 DEF ByHand, ProfileUse, DeleteFiles, DeleteVault, vaultVars
<1> QED BY <1>1, <1>2, <1>3 DEF RootStaysFree

LEMMA NextForkInv ==
    ASSUME VaultsApart, ForkInv, [Next]_vars
    PROVE  ForkInv'
<1>1. Shaped'
  BY NextShaped DEF ForkInv
<1>2. ASSUME NEW p \in Procs, Moves(p), UNCHANGED <<workspaces, registry>>,
             proc'[p].pc = "init_profile" => workspaces[proc'[p].root] = 0
      PROVE  RootStaysFree' /\ NeverForks'
  BY <1>2 DEF Moves, ForkInv, RootStaysFree, NeverForks
<1>3. ASSUME NEW p \in Procs, StartInit(p) \/ StartTeardown(p) \/ StartSingle(p) \/ Crash(p)
      PROVE  RootStaysFree' /\ NeverForks'
  <2>1. Moves(p) /\ proc'[p].pc # "init_profile" /\ UNCHANGED <<workspaces, registry>>
    BY <1>3, OtherSteps DEF ForkInv
  <2> QED BY <1>2, <2>1
<1>4. ASSUME NEW p \in Procs, Run(p)
      PROVE  RootStaysFree' /\ NeverForks'
  <2>1. CASE CallEngine(p)
    BY <2>1, CallEngineForks
  <2>2. CASE Create(p)
    <3>1. /\ Moves(p) /\ UNCHANGED <<workspaces, registry>>
          /\ proc'[p].pc = "init_profile" => workspaces[proc'[p].root] = 0
      BY <2>2, CreateDoes DEF Create, vaultVars, ForkInv
    <3> QED BY <1>2, <3>1
  <2>3. CASE ~CallEngine(p) /\ ~Create(p)
    <3>1. Moves(p) /\ proc'[p].pc # "init_profile" /\ UNCHANGED <<workspaces, registry>>
      BY <1>4, <2>3, OtherSteps DEF Run, ForkInv
    <3> QED BY <1>2, <3>1
  <2> QED BY <2>1, <2>2, <2>3
<1>5. ByHand => RootStaysFree' /\ NeverForks'
  BY ByHandForks
<1>6. UNCHANGED vars => RootStaysFree' /\ NeverForks'
  BY DEF vars, ForkInv, RootStaysFree, NeverForks
<1>7. RootStaysFree' /\ NeverForks'
  BY <1>3, <1>4, <1>5, <1>6 DEF Next, ByHand
<1> QED BY <1>1, <1>7 DEF ForkInv

\* init-profile is never called on a root that is a vault, for every number of
\* inits at once, every policy, failure and crash, and whatever vaults the user
\* deletes: Manager::create's second look at the root and the engine's refusal
\* of a taken name are enough, as long as profiles keep to their own roots.
THEOREM VaultsAreNotForked ==
    ASSUME VaultsApart
    PROVE  Spec => []NeverForks
<1>1. Init => ForkInv
  <2> SUFFICES ASSUME Init PROVE RootStaysFree /\ NeverForks
    BY InitShaped DEF ForkInv
  <2>1. \A p \in Procs : proc[p] = Idle
    BY DEF Init
  <2>2. NeverForks
    BY DEF Init, VaultStart, NeverForks
  <2> QED BY <2>1, <2>2, IdleType DEF RootStaysFree
<1>2. ForkInv /\ [Next]_vars => ForkInv'
  BY NextForkInv
<1>3. ForkInv => NeverForks
  BY DEF ForkInv
<1> QED BY <1>1, <1>2, <1>3, PTL DEF Spec

-----------------------------------------------------------------------------
(* A teardown that reports "removed" has removed everything.               *)

\* A command that must run alone does.
Exclusive ==
    \A p, o \in Procs : p # o /\ Running(p) /\ Running(o) => proc[p].command \notin Alone

\* While nothing has failed and nothing is retained: what a teardown has not
\* removed of the hosts it has come to is still on its list, planned as owned.
Tracks(p) ==
    /\ proc[p].command = "teardown" /\ proc[p].pc \in {"hosts", "apply", "finish"}
    /\ ~proc[p].failed /\ ~proc[p].retain
    => \A h \in proc[p].hosts \ proc[p].left : \A s \in StepsOf(h) :
         LET slot == Slot(s, h, proc[p].scope, proc[p].project)
         IN  slot \in owned => \E e \in Elems(proc[p].todo) : e.slot = slot /\ e.seen

GoneInv == Shaped /\ Exclusive /\ \A p \in Procs : Tracks(p)

LEMMA RunKeeps ==
    ASSUME Shaped, NEW p \in Procs, Run(p) \/ Crash(p)
    PROVE  Running(p) /\ Moves(p) /\ (proc'[p].pc = "done" \/ SameCommand(p))
<1>1. Running(p)
  BY DEF Run, Crash, Running, SettleVault, Create, CallEngine, SetActive, Preflight,
         ReadDependants, NextHost, ApplyStep, StepsDone, FinishInit, FinishTeardown
<1>2. CASE SettleVault(p) \/ Create(p) \/ CallEngine(p) \/ SetActive(p) \/ Preflight(p)
  BY <1>1, <1>2, SettleVaultDoes, CreateDoes, CallEngineDoes, SetActiveDoes
<1>3. CASE ReadDependants(p) \/ NextHost(p) \/ ApplyStep(p) \/ StepsDone(p)
  BY <1>1, <1>3, ReadDependantsDoes, NextHostDoes, ApplyStepDoes, StepsDoneDoes
<1>4. CASE FinishInit(p) \/ FinishTeardown(p) \/ Crash(p)
  BY <1>1, <1>4, FinishDoes, CrashDoes
<1> QED BY <1>2, <1>3, <1>4 DEF Run

\* A command is started in an order the others allow.
LEMMA StartsAlone ==
    ASSUME Shaped, NEW p \in Procs, StartInit(p) \/ StartTeardown(p) \/ StartSingle(p)
    PROVE  /\ Moves(p) /\ ~Running(p) /\ Running(p)'
           /\ \A o \in Procs : Running(o) =>
                proc'[p].command \notin Alone /\ proc[o].command \notin Alone
<1>1. CASE StartInit(p)
  BY <1>1, StartInitDoes DEF StartInit, CanStart, Running
<1>2. CASE StartTeardown(p)
  BY <1>2, StartTeardownDoes DEF StartTeardown, CanStart, Running
<1>3. CASE StartSingle(p)
  BY <1>3, StartSingleDoes DEF CanStart, Running
<1> QED BY <1>1, <1>2, <1>3

LEMMA NextExclusive ==
    ASSUME Shaped, Exclusive, [Next]_vars
    PROVE  Exclusive'
<1>1. ASSUME NEW p \in Procs, StartInit(p) \/ StartTeardown(p) \/ StartSingle(p)
      PROVE  Exclusive'
  BY <1>1, StartsAlone DEF Moves, Exclusive, Running
<1>2. ASSUME NEW p \in Procs, Run(p) \/ Crash(p)
      PROVE  Exclusive'
  BY <1>2, RunKeeps DEF Moves, Exclusive, Running, SameCommand
<1>3. CASE ByHand
  BY <1>3, ByHandDoes DEF Exclusive, Running
<1>4. CASE UNCHANGED vars
  BY <1>4 DEF vars, Exclusive, Running
<1> QED BY <1>1, <1>2, <1>3, <1>4 DEF Next, ByHand

\* Nobody else acts while a command that must run alone does.
LEMMA NobodyElse ==
    ASSUME Shaped, Exclusive, NEW p \in Procs,
           StartInit(p) \/ StartTeardown(p) \/ StartSingle(p) \/ Run(p) \/ Crash(p),
           NEW o \in Procs, o # p, Running(o)
    PROVE  Moves(p) /\ proc[o].command \notin Alone
<1>1. CASE StartInit(p) \/ StartTeardown(p) \/ StartSingle(p)
  BY <1>1, StartsAlone
<1>2. CASE Run(p) \/ Crash(p)
  BY <1>2, RunKeeps DEF Exclusive
<1> QED BY <1>1, <1>2

LEMMA ByHandTracks ==
    ASSUME GoneInv, ByHand, NEW p \in Procs
    PROVE  Tracks(p)'
<1>1. UNCHANGED proc /\ owned' \subseteq owned
  BY ByHandDoes DEF GoneInv
<1>2. Tracks(p)
  BY DEF GoneInv
<1> QED BY <1>1, <1>2 DEF Tracks

\* The plans of a host name every slot of it that is owned.
LEMMA NextHostTracks ==
    ASSUME GoneInv, NEW p \in Procs, NextHost(p)
    PROVE  Tracks(p)'
<1>1. /\ SameCommand(p) /\ proc'[p].failed = proc[p].failed /\ proc'[p].retain = proc[p].retain
      /\ \/ /\ proc'[p].pc = "finish" /\ proc[p].left = {} /\ proc'[p].left = {}
            /\ proc'[p].todo = <<>>
         \/ \E h \in proc[p].left :
              /\ proc'[p].pc = "apply" /\ proc'[p].left = proc[p].left \ {h}
              /\ Elems(proc'[p].todo) = {Planned(s, proc[p], h) : s \in StepsFor(proc[p], h)}
  BY NextHostDoes DEF GoneInv
<1>2. /\ UNCHANGED owned /\ proc[p].pc = "hosts" /\ proc[p] \in ProcType
      /\ proc[p].project \in Projects /\ proc[p].todo = <<>>
  BY DEF NextHost, GoneInv, Shaped, Shape, Types
<1> SUFFICES ASSUME proc[p].command = "teardown", ~proc[p].failed, ~proc[p].retain,
                    NEW g \in proc[p].hosts \ proc'[p].left, NEW s \in StepsOf(g),
                    Slot(s, g, proc[p].scope, proc[p].project) \in owned
             PROVE  \E e \in Elems(proc'[p].todo) :
                      e.slot = Slot(s, g, proc[p].scope, proc[p].project) /\ e.seen
  BY <1>1, <1>2 DEF Tracks, SameCommand
<1>3. g \in Hosts /\ s \in StepNames
  BY <1>2 DEF ProcType, StepsOf, StepNames
<1>4. g \notin proc[p].left => FALSE
  <2>1. Elems(proc[p].todo) = {}
    BY <1>2, ElemsOne
  <2> QED BY <1>2, <2>1 DEF GoneInv, Tracks
<1>5. PICK h \in proc[p].left :
        /\ proc'[p].left = proc[p].left \ {h}
        /\ Elems(proc'[p].todo) = {Planned(x, proc[p], h) : x \in StepsFor(proc[p], h)}
  BY <1>1, <1>4
<1>6. g = h /\ s \in StepsFor(proc[p], g)
  BY <1>4, <1>5 DEF StepsFor
<1>7. /\ Planned(s, proc[p], g).slot = Slot(s, g, proc[p].scope, proc[p].project)
      /\ Planned(s, proc[p], g).seen
  BY <1>2, <1>3, PlannedType
<1> QED BY <1>5, <1>6, <1>7

\* A step that leaves the list was not owned, or is removed.
LEMMA ApplyStepTracks ==
    ASSUME GoneInv, NEW p \in Procs, ApplyStep(p)
    PROVE  Tracks(p)'
<1> DEFINE step == Head(proc[p].todo)
<1>1. /\ SameCommand(p) /\ proc[p].pc = "apply" /\ step \in PlannedStep
      /\ proc'[p].left = proc[p].left /\ proc'[p].retain = proc[p].retain
      /\ \/ /\ proc'[p].pc = "apply" /\ proc'[p].failed = proc[p].failed
            /\ Elems(proc[p].todo) = {step} \cup Elems(proc'[p].todo)
            /\ \/ (step.seen <=> Installs(p)) /\ UNCHANGED owned
               \/ /\ step.seen <=> ~Installs(p)
                  /\ owned' = IF Installs(p) THEN owned \cup {step.slot}
                              ELSE owned \ {step.slot}
         \/ proc'[p].failed
  BY ApplyStepDoes DEF GoneInv
<1> HIDE DEF step
<1> SUFFICES ASSUME proc[p].command = "teardown", ~proc'[p].failed, ~proc[p].retain,
                    NEW h \in proc[p].hosts \ proc[p].left, NEW s \in StepsOf(h),
                    Slot(s, h, proc[p].scope, proc[p].project) \in owned'
             PROVE  \E e \in Elems(proc'[p].todo) :
                      e.slot = Slot(s, h, proc[p].scope, proc[p].project) /\ e.seen
  BY <1>1 DEF Tracks, SameCommand
<1> DEFINE slot == Slot(s, h, proc[p].scope, proc[p].project)
<1>2. ~Installs(p)
  BY DEF Installs
<1>3. slot \in owned /\ ~proc[p].failed
  BY <1>1, <1>2
<1>4. PICK e \in Elems(proc[p].todo) : e.slot = slot /\ e.seen
  BY <1>1, <1>3 DEF GoneInv, Tracks
<1>5. e # step
  BY <1>1, <1>2, <1>4
<1> QED BY <1>1, <1>4, <1>5

LEMMA OwnStepTracks ==
    ASSUME GoneInv, NEW p \in Procs,
           StartInit(p) \/ StartTeardown(p) \/ StartSingle(p) \/ Run(p) \/ Crash(p)
    PROVE  Tracks(p)'
<1>1. CASE StartInit(p) \/ StartTeardown(p) \/ StartSingle(p) \/ Crash(p)
  BY <1>1, StartInitDoes, StartTeardownDoes, StartSingleDoes, CrashDoes DEF GoneInv, Tracks
<1>2. CASE SettleVault(p) \/ Create(p) \/ CallEngine(p)
  BY <1>2, SettleVaultDoes, CreateDoes, CallEngineDoes DEF GoneInv, Tracks
<1>3. CASE SetActive(p) \/ Preflight(p)
  <2>1. proc[p].command # "teardown"
    BY <1>3 DEF SetActive, Preflight, GoneInv, Shaped, Shape
  <2>2. proc'[p].pc = "done" \/ SameCommand(p)
    BY <1>3, SetActiveDoes DEF GoneInv
  <2> QED BY <2>1, <2>2 DEF Tracks, SameCommand
<1>4. CASE ReadDependants(p)
  <2>1. proc[p].left = proc[p].hosts
    BY <1>4 DEF ReadDependants, GoneInv, Shaped, Shape
  <2>2. SameCommand(p) /\ proc'[p].left = proc[p].left
    BY <1>4, ReadDependantsDoes DEF GoneInv
  <2> QED BY <2>1, <2>2 DEF Tracks, SameCommand
<1>5. CASE StepsDone(p)
  <2>1. Tracks(p) /\ UNCHANGED owned /\ proc[p].pc = "apply"
    BY <1>5 DEF StepsDone, GoneInv
  <2>2. \/ proc'[p].pc = "done"
        \/ /\ SameCommand(p) /\ proc'[p].todo = proc[p].todo /\ proc'[p].left = proc[p].left
           /\ proc'[p].failed = proc[p].failed /\ proc'[p].retain = proc[p].retain
    BY <1>5, StepsDoneDoes DEF GoneInv
  <2> QED BY <2>1, <2>2 DEF Tracks, SameCommand
<1>6. CASE FinishInit(p) \/ FinishTeardown(p)
  BY <1>6, FinishDoes DEF GoneInv, Tracks
<1> QED BY <1>1, <1>2, <1>3, <1>4, <1>5, <1>6, NextHostTracks, ApplyStepTracks DEF Run

LEMMA NextGoneInv ==
    ASSUME "teardown" \in Alone, GoneInv, [Next]_vars
    PROVE  GoneInv'
<1>1. Shaped' /\ Exclusive'
  BY NextShaped, NextExclusive DEF GoneInv
<1>2. ASSUME NEW p \in Procs,
             StartInit(p) \/ StartTeardown(p) \/ StartSingle(p) \/ Run(p) \/ Crash(p),
             NEW o \in Procs
      PROVE  Tracks(o)'
  <2>1. CASE o = p
    BY <1>2, <2>1, OwnStepTracks
  <2>2. CASE o # p /\ Running(o)
    <3>1. Moves(p) /\ proc[o].command # "teardown"
      BY <1>2, <2>2, NobodyElse DEF GoneInv
    <3> QED BY <2>2, <3>1 DEF Moves, Tracks
  <2>3. CASE o # p /\ ~Running(o)
    <3>1. Moves(p)
      BY <1>2, StartsAlone, RunKeeps DEF GoneInv
    <3> QED BY <2>3, <3>1 DEF Moves, Tracks, Running
  <2> QED BY <2>1, <2>2, <2>3
<1>3. ByHand => \A p \in Procs : Tracks(p)'
  BY ByHandTracks
<1>4. UNCHANGED vars => \A p \in Procs : Tracks(p)'
  BY DEF vars, GoneInv, Tracks
<1>5. \A p \in Procs : Tracks(p)'
  BY <1>2, <1>3, <1>4 DEF Next, ByHand
<1> QED BY <1>1, <1>5 DEF GoneInv

\* Only the end of a teardown says "removed".
LEMMA WhoSaysRemoved ==
    ASSUME Shaped, [Next]_vars, NEW p \in Procs,
           proc[p].pc = "finish", proc'[p].pc = "done", proc'[p].status = "removed"
    PROVE  proc[p].command = "teardown" /\ ~proc[p].failed /\ ~proc[p].retain
<1>1. ASSUME NEW o \in Procs, StartInit(o) \/ StartTeardown(o) \/ StartSingle(o) \/ Run(o) \/ Crash(o)
      PROVE  o = p
  BY <1>1, StartsAlone, RunKeeps DEF Moves
<1>2. StartInit(p) \/ StartTeardown(p) \/ StartSingle(p) \/ Run(p) \/ Crash(p)
  BY <1>1, ByHandDoes DEF Next, ByHand, vars
<1>3. CASE StartInit(p) \/ StartTeardown(p) \/ StartSingle(p) \/ Crash(p)
  BY <1>3, StartInitDoes, StartTeardownDoes, StartSingleDoes, CrashDoes
<1>4. CASE SettleVault(p) \/ Create(p) \/ CallEngine(p) \/ SetActive(p) \/ Preflight(p)
  BY <1>4 DEF SettleVault, Create, CallEngine, SetActive, Preflight
<1>5. CASE ReadDependants(p) \/ NextHost(p) \/ ApplyStep(p) \/ StepsDone(p)
  BY <1>5 DEF ReadDependants, NextHost, ApplyStep, StepsDone
<1>6. CASE FinishInit(p) \/ FinishTeardown(p)
  BY <1>6, FinishDoes
<1> QED BY <1>2, <1>3, <1>4, <1>5, <1>6 DEF Run

\* When run_teardown reports "removed", no file of the hosts it was given holds
\* anything of the manager's any more, whichever hosts and scope those were, and
\* whatever failed, crashed or was edited before: a failed step always shows in
\* the report.  The hypothesis is that nothing else runs beside a teardown; the
\* manager takes no lock that would see to that.
THEOREM RemovedMeansRemoved ==
    ASSUME "teardown" \in Alone
    PROVE  Spec => RemovedIsGone
<1>1. Init => GoneInv
  <2> SUFFICES ASSUME Init PROVE Exclusive /\ \A p \in Procs : Tracks(p)
    BY InitShaped DEF GoneInv
  <2>1. \A p \in Procs : proc[p] = Idle
    BY DEF Init
  <2> QED BY <2>1, IdleType DEF Exclusive, Running, Tracks
<1>2. GoneInv /\ [Next]_vars => GoneInv'
  BY NextGoneInv
<1>3. GoneInv /\ [Next]_vars =>
        [\A p \in Procs :
           proc[p].pc = "finish" /\ proc'[p].pc = "done" /\ proc'[p].status = "removed"
             => \A h \in proc[p].hosts : \A s \in StepsOf(h) :
                  Slot(s, h, proc[p].scope, proc[p].project) \notin owned]_vars
  <2> SUFFICES ASSUME GoneInv, [Next]_vars, NEW p \in Procs,
                      proc[p].pc = "finish", proc'[p].pc = "done", proc'[p].status = "removed"
               PROVE  \A h \in proc[p].hosts : \A s \in StepsOf(h) :
                        Slot(s, h, proc[p].scope, proc[p].project) \notin owned
    OBVIOUS
  <2>1. proc[p].command = "teardown" /\ ~proc[p].failed /\ ~proc[p].retain
    BY WhoSaysRemoved DEF GoneInv
  <2>2. proc[p].left = {} /\ proc[p].todo = <<>>
    BY <2>1 DEF GoneInv, Shaped, Shape
  <2>3. Elems(proc[p].todo) = {}
    BY <2>2, ElemsOne
  <2> QED BY <2>1, <2>2, <2>3 DEF GoneInv, Tracks
<1> QED BY <1>1, <1>2, <1>3, PTL DEF Spec, RemovedIsGone

-----------------------------------------------------------------------------
(* The shared entry outlives the other projects' inits and teardowns.      *)

\* The hypotheses: nothing runs beside a teardown or a disconnect, every init
\* and teardown names the same hosts, the instructions are installed and are
\* not removed by a command of their own.  (A teardown that names fewer hosts
\* than the init did forgets the project; the run init_forgets_dependant shows it.)
WiredAlike ==
    /\ {"teardown", "remove"} \subseteq Alone
    /\ \A a, b \in HostSets \ {{}} : a = b
    /\ Singles \subseteq {"connect"}
    /\ \A k \in SkipSets : "instructions" \notin k

\* A project that counts on an entry has its instructions, and manager.json knows
\* the project.
Wired ==
    \A q \in Projects : \A h \in relying[q] :
      /\ q \in registered /\ h \in UNION HostSets
      /\ Slot("instructions", h, "user", q) \in owned

NotNeeded(slot) ==
    \A q \in Projects : \A h \in relying[q] :
      slot \notin {Slot("instructions", h, "user", q), Slot("connect", h, "user", q)}

\* What a teardown is about to remove, nobody relies on; a disconnect removes an
\* entry, whoever relies on it.
Removing(p) ==
    /\ proc[p].pc # "done" /\ proc[p].command = "teardown" => relying[proc[p].project] = {}
    /\ /\ proc[p].pc \in {"hosts", "apply", "finish"} /\ proc[p].command = "teardown"
       /\ proc[p].scope = "user" /\ ~proc[p].retain
       => \A q \in Projects : relying[q] = {}
    /\ proc[p].pc = "apply" /\ proc[p].command = "teardown" =>
         \A e \in Elems(proc[p].todo) : NotNeeded(e.slot)
    /\ proc[p].pc = "apply" /\ proc[p].command = "remove" =>
         \A e \in Elems(proc[p].todo) : e.slot[2] = "connect"

\* What an init has come to is installed or still on its list, unless it failed.
Installing(p) ==
    proc[p].pc # "done" /\ proc[p].command = "init" =>
      /\ proc[p].hosts \in HostSets /\ proc[p].skips \in SkipSets
      /\ \A e \in Elems(proc[p].todo) :
           e.slot[1] \in {Home, proc[p].project} /\ (e.seen => e.slot \in owned)
      /\ proc[p].pc \in {"hosts", "apply", "finish"} /\ ~proc[p].failed =>
           \A h \in proc[p].hosts \ proc[p].left : \A s \in StepsOf(h) \ proc[p].skips :
             LET slot == Slot(s, h, proc[p].scope, proc[p].project)
             IN  slot \in owned \/ \E e \in Elems(proc[p].todo) : e.slot = slot

KeptInv == Shaped /\ Exclusive /\ Wired /\ \A p \in Procs : Removing(p) /\ Installing(p)

\* Nothing is needed of a project that relies on nothing.
LEMMA OwnSlotsNotNeeded ==
    ASSUME Types, NEW project \in Projects, relying[project] = {}, NEW slot, slot[1] = project
    PROVE  NotNeeded(slot)
<1> SUFFICES ASSUME NEW q \in Projects, NEW h \in relying[q]
             PROVE  slot \notin {Slot("instructions", h, "user", q), Slot("connect", h, "user", q)}
  BY DEF NotNeeded
<1>1. q # project /\ Home # project /\ h \in Hosts
  BY InitRunAssumption DEF Types
<1>2. Slot("instructions", h, "user", q)[1] = q /\ Slot("connect", h, "user", q)[1] = Home
  BY DEF Slot
<1> QED BY <1>1, <1>2

\* The commands that only add, and the user who lets go, keep Wired.
LEMMA WiredGrows ==
    ASSUME Wired, owned \subseteq owned', registered \subseteq registered',
           \A q \in Projects : relying'[q] \subseteq relying[q]
    PROVE  Wired'
BY DEF Wired

\* What a step of p leaves of the other processes' business.
LEMMA OthersKeep ==
    ASSUME WiredAlike, KeptInv, NEW p \in Procs,
           StartInit(p) \/ StartTeardown(p) \/ StartSingle(p) \/ Run(p) \/ Crash(p),
           \/ owned \subseteq owned'
           \/ Running(p) /\ proc[p].command \in {"teardown", "remove"},
           NEW o \in Procs, o # p
    PROVE  Removing(o)' /\ Installing(o)'
<1>1. Moves(p)
  BY StartsAlone, RunKeeps DEF KeptInv
<1>2. CASE ~Running(o)
  BY <1>1, <1>2 DEF Moves, Running, Removing, Installing
<1>3. CASE Running(o)
  <2>1. proc[o].command \notin {"teardown", "remove"} /\ proc'[o] = proc[o]
    BY <1>1, <1>3, NobodyElse DEF KeptInv, WiredAlike, Moves
  <2>2. owned \subseteq owned'
    BY <1>3 DEF KeptInv, Exclusive, WiredAlike
  <2>3. Removing(o)'
    BY <2>1 DEF Removing
  <2>4. Installing(o)'
    BY <2>1, <2>2 DEF KeptInv, Installing
  <2> QED BY <2>3, <2>4
<1> QED BY <1>2, <1>3

LEMMA StartsKeep ==
    ASSUME WiredAlike, KeptInv, NEW p \in Procs, StartInit(p) \/ StartTeardown(p) \/ StartSingle(p)
    PROVE  Wired' /\ Removing(p)' /\ Installing(p)'
<1>1. UNCHANGED <<owned, registered>> /\ relying \in [Projects -> SUBSET Hosts]
  BY DEF StartInit, StartTeardown, StartSingle, KeptInv, Shaped, Types
<1>2. CASE StartInit(p)
  <2>1. /\ proc'[p].pc = "vault" /\ proc'[p].command = "init" /\ proc'[p].hosts \in HostSets
        /\ proc'[p].skips \in SkipSets /\ Shaped' /\ UNCHANGED relying
    BY <1>2, StartInitDoes DEF StartInit, KeptInv
  <2>2. Elems(proc'[p].todo) = {}
    BY <2>1, ElemsOne DEF Shaped, Shape
  <2>3. Removing(p)' /\ Installing(p)'
    BY <2>1, <2>2 DEF Removing, Installing
  <2> QED BY <1>1, <2>1, <2>3, WiredGrows DEF KeptInv
<1>3. CASE StartTeardown(p)
  <2>1. /\ proc'[p].pc = "dependants" /\ proc'[p].command = "teardown"
        /\ proc'[p].hosts \in HostSets \ {{}} /\ proc'[p].project \in Projects
        /\ relying' = [relying EXCEPT ![proc'[p].project] = @ \ proc'[p].hosts]
    BY <1>3, StartTeardownDoes DEF KeptInv
  <2>2. UNION HostSets \subseteq proc'[p].hosts
    BY <2>1 DEF WiredAlike
  <2>3. relying[proc'[p].project] \subseteq UNION HostSets
    BY <2>1 DEF KeptInv, Wired
  <2>4. relying'[proc'[p].project] = {} /\ \A q \in Projects : relying'[q] \subseteq relying[q]
    BY <1>1, <2>1, <2>2, <2>3
  <2>5. Removing(p)' /\ Installing(p)'
    BY <2>1, <2>4 DEF Removing, Installing
  <2> QED BY <1>1, <2>4, <2>5, WiredGrows DEF KeptInv
<1>4. CASE StartSingle(p)
  <2>1. /\ proc'[p].pc = "apply" /\ proc'[p].command \in {"install", "remove"}
        /\ \E step \in Singles, h \in Hosts, x \in Places :
             /\ \A e \in Elems(proc'[p].todo) : step = "connect" => e.slot = <<x, "connect", h>>
             /\ relying' = IF proc'[p].command = "install" THEN relying
                           ELSE [relying EXCEPT ![proc'[p].project] = @ \ {h}]
    BY <1>4, StartSingleDoes DEF KeptInv
  <2>2. PICK h \in Hosts, x \in Places :
          /\ \A e \in Elems(proc'[p].todo) : e.slot = <<x, "connect", h>>
          /\ relying' = IF proc'[p].command = "install" THEN relying
                        ELSE [relying EXCEPT ![proc'[p].project] = @ \ {h}]
    BY <2>1 DEF WiredAlike
  <2>3. \A q \in Projects : relying'[q] \subseteq relying[q]
    BY <1>1, <2>2
  <2>4. \A e \in Elems(proc'[p].todo) : e.slot[2] = "connect"
    BY <2>2
  <2>5. Removing(p)' /\ Installing(p)'
    BY <2>1, <2>4 DEF Removing, Installing
  <2> QED BY <1>1, <2>3, <2>5, WiredGrows DEF KeptInv
<1> QED BY <1>2, <1>3, <1>4

LEMMA VaultStepsKeep ==
    ASSUME KeptInv, NEW p \in Procs,
           \/ SettleVault(p) \/ Create(p) \/ CallEngine(p) \/ SetActive(p) \/ Preflight(p)
    PROVE  Wired' /\ Removing(p)' /\ Installing(p)' /\ UNCHANGED owned
<1>1. /\ UNCHANGED <<owned, registered, relying>> /\ proc[p].command = "init"
      /\ proc[p].pc # "done" /\ proc[p].left = proc[p].hosts
  BY DEF SettleVault, Create, CallEngine, SetActive, Preflight, KeptInv, Shaped, Shape
<1>2. Wired'
  BY <1>1, WiredGrows DEF KeptInv
<1>3. /\ Shaped'
      /\ \/ proc'[p].pc = "done"
         \/ SameCommand(p) /\ proc'[p].pc \notin {"hosts", "apply", "finish"}
         \/ /\ SameCommand(p) /\ proc'[p].pc \in {"hosts", "finish"}
            /\ proc'[p].left = proc[p].left
  <2>1. CASE SettleVault(p) \/ Create(p) \/ CallEngine(p)
    BY <2>1, SettleVaultDoes, CreateDoes, CallEngineDoes DEF KeptInv
  <2>2. CASE SetActive(p) \/ Preflight(p)
    BY <2>2, SetActiveDoes DEF KeptInv
  <2> QED BY <2>1, <2>2
<1>4. proc'[p].pc # "apply" => Elems(proc'[p].todo) = {}
  BY <1>3, ElemsOne DEF Shaped, Shape
<1>5. Removing(p)'
  BY <1>1, <1>3 DEF Removing, SameCommand
<1>6. Installing(p)'
  BY <1>1, <1>3, <1>4 DEF KeptInv, Installing, SameCommand
<1> QED BY <1>1, <1>2, <1>5, <1>6

\* An empty list of other projects means that nobody relies on the entry.
LEMMA NobodyRelies ==
    ASSUME KeptInv, NEW project \in Projects, relying[project] = {}, other_projects(project) = {}
    PROVE  \A q \in Projects : relying[q] = {}
<1> SUFFICES ASSUME NEW q \in Projects, NEW h \in relying[q] PROVE FALSE
  OBVIOUS
<1>1. q # project /\ q \in registered /\ Slot("instructions", h, "user", q) \in owned
  BY DEF KeptInv, Wired
<1>2. /\ Slot("instructions", h, "user", q)[1] = q
      /\ Slot("instructions", h, "user", q)[2] = "instructions"
  BY DEF Slot
<1>3. project_carries_instructions(q)
  BY <1>1, <1>2 DEF project_carries_instructions
<1> QED BY <1>1, <1>3 DEF other_projects

LEMMA ReadDependantsKeeps ==
    ASSUME KeptInv, NEW p \in Procs, ReadDependants(p)
    PROVE  Wired' /\ Removing(p)' /\ Installing(p)' /\ UNCHANGED owned
<1>1. /\ UNCHANGED <<owned, registered, relying>> /\ proc[p].pc = "dependants"
      /\ proc[p].command = "teardown" /\ proc[p].project \in Projects
      /\ relying[proc[p].project] = {}
  BY DEF ReadDependants, KeptInv, Shaped, Shape, Removing
<1>2. Wired'
  BY <1>1, WiredGrows DEF KeptInv
<1>3. /\ SameCommand(p) /\ proc'[p].pc = "hosts"
      /\ proc'[p].retain <=> proc[p].scope = "user" /\ other_projects(proc[p].project) # {}
  BY ReadDependantsDoes DEF KeptInv
<1>4. Removing(p)'
  BY <1>1, <1>3, NobodyRelies DEF Removing, SameCommand
<1>5. Installing(p)'
  BY <1>1, <1>3 DEF Installing, SameCommand
<1> QED BY <1>1, <1>2, <1>4, <1>5

\* What a teardown plans for a host, when it keeps the shared half or nobody
\* relies on that.
LEMMA TeardownPlans ==
    ASSUME KeptInv, NEW p \in Procs, proc[p].pc = "hosts", proc[p].command = "teardown",
           NEW h \in Hosts, NEW s \in StepsFor(proc[p], h)
    PROVE  NotNeeded(Planned(s, proc[p], h).slot)
<1>1. /\ proc[p] \in ProcType /\ proc[p].project \in Projects
      /\ relying[proc[p].project] = {} /\ Types
  BY DEF KeptInv, Shaped, Shape, Removing, Types
<1>2. s \in StepNames /\ (proc[p].retain => s \in {"instructions", "skill"})
  BY DEF StepsFor, StepsOf, StepNames
<1>3. /\ Planned(s, proc[p], h).slot = Slot(s, h, proc[p].scope, proc[p].project)
      /\ proc[p].scope \in {"user", "project"}
  BY <1>1, <1>2, PlannedType DEF ProcType
<1>4. CASE proc[p].scope = "user" /\ ~proc[p].retain
  BY <1>4 DEF KeptInv, Removing, NotNeeded
<1>5. CASE proc[p].scope = "project" \/ proc[p].retain
  <2>1. Slot(s, h, proc[p].scope, proc[p].project)[1] = proc[p].project
    BY <1>1, <1>2, <1>3, <1>5, SlotType
  <2> QED BY <1>1, <1>3, <2>1, OwnSlotsNotNeeded
<1> QED BY <1>3, <1>4, <1>5

LEMMA NextHostKeeps ==
    ASSUME KeptInv, NEW p \in Procs, NextHost(p)
    PROVE  Wired' /\ Removing(p)' /\ Installing(p)' /\ UNCHANGED owned
<1>1. /\ UNCHANGED <<owned, registered, relying>> /\ proc[p].pc = "hosts" /\ proc[p] \in ProcType
      /\ proc[p].command \in {"init", "teardown"} /\ proc[p].project \in Projects
      /\ proc[p].todo = <<>>
  BY DEF NextHost, KeptInv, Shaped, Shape, Types
<1>2. Wired'
  BY <1>1, WiredGrows DEF KeptInv
<1>3. /\ SameCommand(p) /\ proc'[p].failed = proc[p].failed /\ proc'[p].retain = proc[p].retain
      /\ \/ /\ proc'[p].pc = "finish" /\ proc[p].left = {} /\ proc'[p].left = {}
            /\ proc'[p].todo = <<>>
         \/ \E h \in proc[p].left :
              /\ proc'[p].pc = "apply" /\ proc'[p].left = proc[p].left \ {h}
              /\ Elems(proc'[p].todo) = {Planned(s, proc[p], h) : s \in StepsFor(proc[p], h)}
  BY NextHostDoes DEF KeptInv
<1>4. Elems(<<>>) = {}
  BY ElemsOne
<1>5. CASE proc'[p].pc = "finish" /\ proc'[p].left = proc[p].left /\ proc'[p].todo = <<>>
  <2>1. Removing(p)'
    BY <1>1, <1>3, <1>5 DEF KeptInv, Removing, SameCommand
  <2>2. Installing(p)'
    BY <1>1, <1>3, <1>4, <1>5 DEF KeptInv, Installing, SameCommand
  <2> QED BY <1>1, <1>2, <2>1, <2>2
<1>6. ASSUME NEW h \in proc[p].left,
             proc'[p].pc = "apply", proc'[p].left = proc[p].left \ {h},
             Elems(proc'[p].todo) = {Planned(s, proc[p], h) : s \in StepsFor(proc[p], h)}
      PROVE  Removing(p)' /\ Installing(p)'
  <2>1. h \in Hosts /\ StepsFor(proc[p], h) \subseteq StepNames
    BY <1>1 DEF ProcType, StepsFor, StepsOf, StepNames
  <2>2. CASE proc[p].command = "teardown"
    <3>1. \A e \in Elems(proc'[p].todo) : NotNeeded(e.slot)
      BY <1>1, <1>6, <2>1, <2>2, TeardownPlans
    <3>2. \A e \in Elems(proc'[p].todo) : NotNeeded(e.slot)'
      BY <1>1, <3>1 DEF NotNeeded
    <3>3. Removing(p)'
      BY <1>1, <1>3, <2>2, <3>2 DEF KeptInv, Removing, SameCommand
    <3> QED BY <1>3, <2>2, <3>3 DEF Installing, SameCommand
  <2>3. CASE proc[p].command = "init"
    <3>1. ASSUME NEW s \in StepsFor(proc[p], h)
          PROVE  /\ Planned(s, proc[p], h).slot = Slot(s, h, proc[p].scope, proc[p].project)
                 /\ Planned(s, proc[p], h).slot[1] \in {Home, proc[p].project}
                 /\ Planned(s, proc[p], h).seen => Planned(s, proc[p], h).slot \in owned
      <4>1. s \in StepNames /\ proc[p].scope \in {"user", "project"}
        BY <1>1, <2>1 DEF ProcType
      <4> QED BY <1>1, <2>1, <4>1, PlannedType, SlotType
    <3>2. StepsOf(h) \ proc[p].skips = StepsFor(proc[p], h)
      BY <2>3 DEF StepsFor
    <3>3. \A e \in Elems(proc'[p].todo) :
            e.slot[1] \in {Home, proc[p].project} /\ (e.seen => e.slot \in owned)
      BY <1>6, <3>1
    <3>4. ASSUME ~proc[p].failed, NEW g \in proc[p].hosts \ (proc[p].left \ {h}),
                 NEW s \in StepsOf(g) \ proc[p].skips
          PROVE  \/ Slot(s, g, proc[p].scope, proc[p].project) \in owned
                 \/ \E e \in Elems(proc'[p].todo) :
                      e.slot = Slot(s, g, proc[p].scope, proc[p].project)
      <4>1. CASE g = h
        BY <1>6, <3>1, <3>2, <3>4, <4>1
      <4>2. CASE g # h
        BY <1>1, <1>4, <2>3, <3>4, <4>2 DEF KeptInv, Installing
      <4> QED BY <4>1, <4>2
    <3>5. proc[p].hosts \in HostSets /\ proc[p].skips \in SkipSets
      BY <1>1, <2>3 DEF KeptInv, Installing
    <3>6. Installing(p)'
      BY <1>1, <1>3, <1>6, <3>3, <3>4, <3>5 DEF Installing, SameCommand
    <3> QED BY <1>3, <2>3, <3>6 DEF Removing, SameCommand
  <2> QED BY <1>1, <2>2, <2>3
<1> QED BY <1>1, <1>2, <1>3, <1>5, <1>6

LEMMA ApplyStepKeeps ==
    ASSUME KeptInv, NEW p \in Procs, ApplyStep(p)
    PROVE  /\ Wired' /\ Removing(p)' /\ Installing(p)'
           /\ \/ owned \subseteq owned'
              \/ Running(p) /\ proc[p].command \in {"teardown", "remove"}
<1> DEFINE step == Head(proc[p].todo)
<1>1. /\ SameCommand(p) /\ proc[p].pc = "apply" /\ step \in PlannedStep
      /\ UNCHANGED <<registered, relying>>
      /\ proc'[p].left = proc[p].left /\ proc'[p].retain = proc[p].retain
      /\ step \in Elems(proc[p].todo) /\ Elems(proc'[p].todo) \subseteq Elems(proc[p].todo)
      /\ \/ /\ proc'[p].pc = "apply" /\ proc'[p].failed = proc[p].failed
            /\ Elems(proc[p].todo) = {step} \cup Elems(proc'[p].todo)
            /\ \/ (step.seen <=> Installs(p)) /\ UNCHANGED owned
               \/ /\ step.seen <=> ~Installs(p)
                  /\ owned' = IF Installs(p) THEN owned \cup {step.slot}
                              ELSE owned \ {step.slot}
         \/ /\ proc'[p].pc \in {"apply", "finish"} /\ proc'[p].failed /\ UNCHANGED owned
            /\ proc'[p].pc = "finish" => proc[p].command = "init"
  BY ApplyStepDoes DEF KeptInv
<1> HIDE DEF step
<1>2. proc[p].command \in {"init", "teardown", "install", "remove"}
  BY <1>1 DEF KeptInv, Shaped, Shape
<1>3. CASE proc[p].command \in {"teardown", "remove"}
  <2>1. /\ owned' \in {owned, owned \ {step.slot}}
        /\ proc[p].command = "teardown" => NotNeeded(step.slot)
        /\ proc[p].command = "remove" => step.slot[2] = "connect"
    BY <1>1, <1>3 DEF Installs, KeptInv, Removing
  <2>2. Wired'
    <3>1. \A q \in Projects : \A h \in relying[q] :
            step.slot # Slot("instructions", h, "user", q)
      <4>1. CASE proc[p].command = "teardown"
        BY <2>1, <4>1 DEF NotNeeded
      <4>2. CASE proc[p].command = "remove"
        <5>1. step.slot[2] = "connect"
          BY <2>1, <4>2
        <5>2. \A q \in Projects : \A h \in relying[q] :
                Slot("instructions", h, "user", q)[2] = "instructions"
          BY DEF Slot
        <5> QED BY <5>1, <5>2
      <4> QED BY <1>3, <4>1, <4>2
    <3> QED BY <1>1, <2>1, <3>1 DEF KeptInv, Wired
  <2>3. proc[p].command = "teardown" => \A e \in Elems(proc'[p].todo) : NotNeeded(e.slot)'
    BY <1>1, <1>3 DEF KeptInv, Removing, NotNeeded
  <2>4. Removing(p)'
    BY <1>1, <1>3, <2>3 DEF KeptInv, Removing, SameCommand
  <2>5. Installing(p)' /\ Running(p)
    BY <1>1, <1>3 DEF Installing, SameCommand, Running
  <2> QED BY <1>3, <2>2, <2>4, <2>5
<1>4. CASE proc[p].command \in {"init", "install"}
  <2>1. owned \subseteq owned' /\ Installs(p)
    BY <1>1, <1>4 DEF Installs
  <2>2. Wired'
    BY <1>1, <2>1, WiredGrows DEF KeptInv
  <2>3. Removing(p)'
    BY <1>1, <1>4 DEF Removing, SameCommand
  <2>4. ASSUME proc[p].command = "init" PROVE Installing(p)'
    <3>1. /\ proc[p].hosts \in HostSets /\ proc[p].skips \in SkipSets
          /\ \A e \in Elems(proc[p].todo) :
               e.slot[1] \in {Home, proc[p].project} /\ (e.seen => e.slot \in owned)
      BY <1>1, <2>4 DEF KeptInv, Installing
    <3>2. ASSUME ~proc'[p].failed, NEW h \in proc[p].hosts \ proc[p].left,
                 NEW s \in StepsOf(h) \ proc[p].skips
          PROVE  \/ Slot(s, h, proc[p].scope, proc[p].project) \in owned'
                 \/ \E e \in Elems(proc'[p].todo) :
                      e.slot = Slot(s, h, proc[p].scope, proc[p].project)
      <4>1. ~proc[p].failed /\ step.slot \in owned'
            /\ Elems(proc[p].todo) = {step} \cup Elems(proc'[p].todo)
        BY <1>1, <2>1, <3>1, <3>2
      <4>2. \/ Slot(s, h, proc[p].scope, proc[p].project) \in owned
            \/ \E e \in Elems(proc[p].todo) :
                 e.slot = Slot(s, h, proc[p].scope, proc[p].project)
        BY <1>1, <2>4, <3>2, <4>1 DEF KeptInv, Installing
      <4> QED BY <2>1, <4>1, <4>2
    <3> QED BY <1>1, <2>1, <3>1, <3>2 DEF Installing, SameCommand
  <2>5. ASSUME proc[p].command = "install" PROVE Installing(p)'
    BY <1>1, <2>5 DEF Installing, SameCommand
  <2> QED BY <1>4, <2>1, <2>2, <2>3, <2>4, <2>5
<1> QED BY <1>2, <1>3, <1>4

LEMMA StepsDoneKeeps ==
    ASSUME KeptInv, NEW p \in Procs, StepsDone(p)
    PROVE  Wired' /\ Removing(p)' /\ Installing(p)' /\ UNCHANGED owned
<1>1. UNCHANGED <<owned, registered, relying>> /\ proc[p].pc = "apply"
  BY DEF StepsDone
<1>2. Wired'
  BY <1>1, WiredGrows DEF KeptInv
<1>3. \/ proc'[p].pc = "done"
      \/ /\ SameCommand(p) /\ proc'[p].pc = "hosts" /\ proc'[p].todo = proc[p].todo
         /\ proc'[p].left = proc[p].left /\ proc'[p].failed = proc[p].failed
         /\ proc'[p].retain = proc[p].retain
  BY StepsDoneDoes DEF KeptInv
<1>4. Removing(p)'
  BY <1>1, <1>3 DEF KeptInv, Removing, SameCommand
<1>5. Installing(p)'
  BY <1>1, <1>3 DEF KeptInv, Installing, SameCommand
<1> QED BY <1>1, <1>2, <1>4, <1>5

\* An init that says so has wired every host, and registers the project.
LEMMA FinishInitKeeps ==
    ASSUME WiredAlike, KeptInv, NEW p \in Procs, FinishInit(p)
    PROVE  Wired' /\ \A q \in Projects : \A h \in relying'[q] \ relying[q] : SharedEntry(h) \in owned
<1> DEFINE c == proc[p]
<1>1. /\ c.pc = "finish" /\ c.command = "init" /\ c.project \in Projects /\ c.todo = <<>>
      /\ c \in ProcType /\ UNCHANGED owned /\ relying \in [Projects -> SUBSET Hosts]
      /\ ~c.failed => c.left = {}
  BY DEF FinishInit, KeptInv, Shaped, Shape, Types
<1>2. registered \subseteq registered'
  BY DEF FinishInit
<1>3. CASE UNCHANGED relying
  BY <1>1, <1>2, <1>3, WiredGrows DEF KeptInv
<1>4. CASE /\ ~c.failed /\ c.scope = "user" /\ "connect" \notin c.skips
           /\ relying' = [relying EXCEPT ![c.project] = @ \cup c.hosts]
  <2>1. Elems(c.todo) = {} /\ c.hosts \in HostSets /\ "instructions" \notin c.skips
    BY <1>1, ElemsOne DEF KeptInv, Installing, WiredAlike
  <2>2. ASSUME NEW h \in c.hosts
        PROVE  /\ Slot("instructions", h, "user", c.project) \in owned
               /\ SharedEntry(h) \in owned
    <3>1. {"instructions", "connect"} \subseteq StepsOf(h) \ c.skips
      BY <1>4, <2>1 DEF StepsOf
    <3>2. Slot("connect", h, "user", c.project) = SharedEntry(h)
      BY DEF Slot, SharedEntry
    <3> QED BY <1>1, <1>4, <2>1, <3>1, <3>2 DEF KeptInv, Installing
  <2>3. ASSUME NEW h \in c.hosts PROVE c.project \in registered'
    <3>1. /\ Slot("instructions", h, "user", c.project)[1] = c.project
          /\ Slot("instructions", h, "user", c.project)[2] = "instructions"
      BY DEF Slot
    <3>2. project_carries_instructions(c.project)
      BY <2>2, <3>1 DEF project_carries_instructions
    <3> QED BY <1>4, <2>1, <3>2 DEF FinishInit
  <2>4. \A h \in c.hosts : h \in UNION HostSets
    BY <2>1
  <2>5. \A q \in Projects : relying'[q] = IF q = c.project THEN relying[q] \cup c.hosts ELSE relying[q]
    BY <1>1, <1>4
  <2> QED BY <1>1, <1>2, <2>2, <2>3, <2>4, <2>5 DEF KeptInv, Wired
<1> QED BY <1>3, <1>4 DEF FinishInit

\* A project that relies on the entry carries instructions, so that a teardown
\* of another one keeps it registered.
LEMMA FinishTeardownKeeps ==
    ASSUME KeptInv, NEW p \in Procs, FinishTeardown(p)
    PROVE  Wired'
<1>1. /\ UNCHANGED <<owned, relying>> /\ relying[proc[p].project] = {}
      /\ registered' \in {registered, other_projects(proc[p].project)}
  BY DEF FinishTeardown, KeptInv, Removing
<1> SUFFICES ASSUME NEW q \in Projects, NEW h \in relying[q] PROVE q \in registered'
  BY <1>1 DEF KeptInv, Wired
<1>2. q # proc[p].project /\ q \in registered /\ Slot("instructions", h, "user", q) \in owned
  BY <1>1 DEF KeptInv, Wired
<1>3. /\ Slot("instructions", h, "user", q)[1] = q
      /\ Slot("instructions", h, "user", q)[2] = "instructions"
  BY DEF Slot
<1>4. project_carries_instructions(q)
  BY <1>2, <1>3 DEF project_carries_instructions
<1> QED BY <1>1, <1>2, <1>4 DEF other_projects

LEMMA ByHandKeeps ==
    ASSUME KeptInv, ByHand
    PROVE  Wired' /\ \A p \in Procs : Removing(p)' /\ Installing(p)'
<1>1. UNCHANGED proc
  BY ByHandDoes DEF KeptInv
<1>2. CASE UNCHANGED <<owned, registered, relying>>
  BY <1>1, <1>2 DEF KeptInv, Wired, Removing, Installing, NotNeeded
<1>3. ASSUME NEW q \in Projects, DeleteFiles(q)
      PROVE  Wired' /\ \A p \in Procs : Removing(p)' /\ Installing(p)'
  <2>1. /\ owned' = {s \in owned : s[1] # q} /\ UNCHANGED registered
        /\ relying' = [relying EXCEPT ![q] = {}] /\ relying \in [Projects -> SUBSET Hosts]
        /\ \A p \in Procs : Running(p) => proc[p].project # q
    BY <1>3 DEF DeleteFiles, KeptInv, Shaped, Types
  <2>2. \A r \in Projects : relying'[r] = IF r = q THEN {} ELSE relying[r]
    BY <2>1
  <2>3. Home # q
    BY InitRunAssumption
  <2>4. Wired'
    <3> SUFFICES ASSUME NEW r \in Projects, NEW h \in relying'[r]
                 PROVE  /\ r \in registered' /\ h \in UNION HostSets
                        /\ Slot("instructions", h, "user", r) \in owned'
      BY DEF Wired
    <3>1. r # q /\ h \in relying[r]
      BY <2>2
    <3>2. Slot("instructions", h, "user", r)[1] = r
      BY DEF Slot
    <3> QED BY <2>1, <3>1, <3>2 DEF KeptInv, Wired
  <2>5. ASSUME NEW p \in Procs PROVE Removing(p)'
    <3>1. \A e \in Elems(proc[p].todo) : NotNeeded(e.slot) => NotNeeded(e.slot)'
      BY <2>2 DEF NotNeeded
    <3> QED BY <1>1, <2>2, <3>1 DEF KeptInv, Removing, Shaped, Shape
  <2>6. ASSUME NEW p \in Procs, proc[p].pc # "done", proc[p].command = "init"
        PROVE  Installing(p)'
    <3>1. proc[p].project # q /\ proc[p].project \in Projects /\ proc[p] \in ProcType /\ Installing(p)
      BY <2>1, <2>6 DEF Running, KeptInv, Shaped, Shape, Types
    <3>2. \A e \in Elems(proc[p].todo) :
            e.slot[1] \in {Home, proc[p].project} /\ (e.seen => e.slot \in owned')
      BY <2>1, <2>3, <2>6, <3>1 DEF Installing
    <3>3. ASSUME NEW h \in proc[p].hosts \ proc[p].left, NEW s \in StepsOf(h) \ proc[p].skips,
                 Slot(s, h, proc[p].scope, proc[p].project) \in owned
          PROVE  Slot(s, h, proc[p].scope, proc[p].project) \in owned'
      <4>1. h \in Hosts /\ s \in StepNames /\ proc[p].scope \in {"user", "project"}
        BY <3>1 DEF ProcType, StepsOf, StepNames
      <4>2. Slot(s, h, proc[p].scope, proc[p].project)[1] \in {Home, proc[p].project}
        BY <3>1, <4>1, SlotType
      <4> QED BY <2>1, <2>3, <3>1, <3>3, <4>2
    <3> QED BY <1>1, <2>6, <3>1, <3>2, <3>3 DEF Installing
  <2>7. ASSUME NEW p \in Procs, proc[p].pc = "done" \/ proc[p].command # "init"
        PROVE  Installing(p)'
    BY <1>1, <2>7 DEF Installing
  <2> QED BY <2>4, <2>5, <2>6, <2>7
<1> QED BY <1>2, <1>3 DEF ByHand, ProfileRemove, ProfileUse, DropRecord, DeleteVault

LEMMA NextKeptInv ==
    ASSUME WiredAlike, KeptInv, [Next]_vars
    PROVE  KeptInv'
<1>1. Shaped' /\ Exclusive'
  BY NextShaped, NextExclusive DEF KeptInv
<1>2. ASSUME NEW p \in Procs,
             StartInit(p) \/ StartTeardown(p) \/ StartSingle(p) \/ Run(p) \/ Crash(p)
      PROVE  /\ Wired' /\ Removing(p)' /\ Installing(p)'
             /\ \/ owned \subseteq owned'
                \/ Running(p) /\ proc[p].command \in {"teardown", "remove"}
  <2>1. CASE StartInit(p) \/ StartTeardown(p) \/ StartSingle(p)
    BY <2>1, StartsKeep DEF StartInit, StartTeardown, StartSingle
  <2>2. CASE Crash(p)
    BY <2>2, CrashDoes, WiredGrows DEF KeptInv, Removing, Installing
  <2>3. CASE SettleVault(p) \/ Create(p) \/ CallEngine(p) \/ SetActive(p) \/ Preflight(p)
    BY <2>3, VaultStepsKeep
  <2>4. CASE ReadDependants(p) \/ NextHost(p) \/ ApplyStep(p) \/ StepsDone(p)
    BY <2>4, ReadDependantsKeeps, NextHostKeeps, ApplyStepKeeps, StepsDoneKeeps
  <2>5. CASE FinishInit(p) \/ FinishTeardown(p)
    <3>1. proc'[p].pc = "done" /\ UNCHANGED owned
      BY <2>5, FinishDoes DEF KeptInv
    <3>2. Wired'
      BY <2>5, FinishInitKeeps, FinishTeardownKeeps
    <3> QED BY <3>1, <3>2 DEF Removing, Installing
  <2> QED BY <1>2, <2>1, <2>2, <2>3, <2>4, <2>5 DEF Run
<1>3. ASSUME NEW p \in Procs,
             StartInit(p) \/ StartTeardown(p) \/ StartSingle(p) \/ Run(p) \/ Crash(p)
      PROVE  Wired' /\ \A o \in Procs : Removing(o)' /\ Installing(o)'
  BY <1>2, <1>3, OthersKeep
<1>4. UNCHANGED vars => Wired' /\ \A p \in Procs : Removing(p)' /\ Installing(p)'
  BY DEF vars, KeptInv, Wired, Removing, Installing, NotNeeded
<1>5. Wired' /\ \A p \in Procs : Removing(p)' /\ Installing(p)'
  BY <1>3, <1>4, ByHandKeeps DEF Next, ByHand
<1> QED BY <1>1, <1>5 DEF KeptInv

\* Only the end of an init tells a project of more entries.
LEMMA ToldByInit ==
    ASSUME WiredAlike, KeptInv, [Next]_vars, NEW q \in Projects, NEW h \in relying'[q] \ relying[q]
    PROVE  SharedEntry(h) \in owned
<1>1. ~(\A r \in Projects : relying'[r] \subseteq relying[r])
  OBVIOUS
<1>2. relying \in [Projects -> SUBSET Hosts]
  BY DEF KeptInv, Shaped, Types
<1>3. ~UNCHANGED relying
  BY <1>1
<1>4. ASSUME NEW p \in Procs, StartTeardown(p) \/ StartSingle(p)  PROVE FALSE
  <2>1. CASE StartTeardown(p)
    BY <1>1, <1>2, <2>1, StartTeardownDoes DEF KeptInv
  <2>2. CASE StartSingle(p)
    <3>1. \E g \in Hosts : relying' = IF proc'[p].command = "install" THEN relying
                                      ELSE [relying EXCEPT ![proc'[p].project] = @ \ {g}]
      BY <2>2, StartSingleDoes DEF KeptInv
    <3> QED BY <1>1, <1>2, <3>1
  <2> QED BY <1>4, <2>1, <2>2
<1>5. ASSUME NEW p \in Procs, FinishInit(p)  PROVE SharedEntry(h) \in owned
  BY <1>5, FinishInitKeeps
<1>6. ASSUME NEW r \in Projects, DeleteFiles(r)  PROVE FALSE
  BY <1>1, <1>2, <1>6 DEF DeleteFiles
<1>7. ~UNCHANGED vars
  BY <1>3 DEF vars
<1>8. ASSUME NEW p \in Procs, Run(p), ~FinishInit(p)  PROVE FALSE
  BY <1>3, <1>8 DEF Run, SettleVault, Create, CallEngine, SetActive, Preflight, ReadDependants,
                    NextHost, ApplyStep, StepsDone, FinishTeardown
<1>9. ASSUME NEW p \in Procs, StartInit(p) \/ Crash(p)  PROVE FALSE
  BY <1>3, <1>9 DEF StartInit, Crash
<1>10. ASSUME NEW x, ProfileRemove(x) \/ ProfileUse(x) \/ DropRecord(x) \/ DeleteVault(x)
       PROVE  FALSE
  BY <1>3, <1>10 DEF ProfileRemove, ProfileUse, DropRecord, DeleteVault
<1> QED BY <1>4, <1>5, <1>6, <1>7, <1>8, <1>9, <1>10 DEF Next

\* A shared entry that somebody relies on goes with a disconnect or not at all.
LEMMA TakenByDisconnect ==
    ASSUME KeptInv, [Next]_vars, NEW q \in Projects, NEW h \in relying[q],
           SharedEntry(h) \in owned \ owned'
    PROVE  \E p \in Procs : proc[p].command = "remove" /\ proc'[p] # proc[p]
<1>1. ~UNCHANGED owned
  OBVIOUS
<1>2. ASSUME NEW p \in Procs, ApplyStep(p)
      PROVE  proc[p].command = "remove" /\ proc'[p] # proc[p]
  <2> DEFINE step == Head(proc[p].todo)
  <2>1. /\ step \in Elems(proc[p].todo) /\ proc[p].pc = "apply" /\ proc[p] \in ProcType
        /\ owned' \in {owned, owned \cup {step.slot}, owned \ {step.slot}}
        /\ owned' = owned \cup {step.slot} \/ ~Installs(p) \/ UNCHANGED owned
    BY <1>2, ApplyStepDoes DEF KeptInv, Shaped, Types
  <2>2. step.slot = SharedEntry(h) /\ ~Installs(p)
    <3> HIDE DEF step
    <3> QED BY <1>1, <2>1
  <2>3. proc[p].command # "teardown"
    <3>1. ~NotNeeded(step.slot)
      BY <2>2 DEF NotNeeded, Slot, SharedEntry
    <3> QED BY <2>1, <3>1 DEF KeptInv, Removing
  <2>4. proc[p].command = "remove"
    BY <2>1, <2>2, <2>3 DEF KeptInv, Shaped, Shape, Installs
  <2>5. proc'[p] # proc[p]
    <3>1. proc[p].todo # <<>> /\ proc[p].todo \in Seq(PlannedStep)
      BY <1>2, <2>1 DEF ApplyStep, ProcType
    <3>2. Tail(proc[p].todo) # proc[p].todo
      <4>1. Len(Tail(proc[p].todo)) = Len(proc[p].todo) - 1 /\ Len(proc[p].todo) \in Nat
        BY <3>1
      <4>2. Len(Tail(proc[p].todo)) # Len(proc[p].todo)
        BY <4>1
      <4> QED BY <4>2, Zenon
    <3>3. proc' = [proc EXCEPT ![p].todo = Tail(@)] /\ proc \in [Procs -> ProcType]
      BY <1>1, <1>2 DEF ApplyStep, KeptInv, Shaped, Types
    <3> QED BY <2>1, <3>2, <3>3 DEF ProcType
  <2> QED BY <2>4, <2>5
<1>3. ASSUME NEW p \in Procs, Run(p), ~ApplyStep(p)  PROVE FALSE
  BY <1>1, <1>3 DEF Run, SettleVault, Create, CallEngine, SetActive, Preflight, ReadDependants,
                    NextHost, StepsDone, FinishInit, FinishTeardown
<1>4. ASSUME NEW p \in Procs, StartInit(p) \/ StartTeardown(p) \/ StartSingle(p) \/ Crash(p)
      PROVE  FALSE
  BY <1>1, <1>4 DEF StartInit, StartTeardown, StartSingle, Crash
<1>5. ASSUME NEW r \in Projects, DeleteFiles(r)  PROVE FALSE
  <2>1. SharedEntry(h)[1] = Home /\ Home # r
    BY InitRunAssumption DEF SharedEntry
  <2> QED BY <1>5, <2>1 DEF DeleteFiles
<1>6. ASSUME NEW x, ProfileRemove(x) \/ ProfileUse(x) \/ DropRecord(x) \/ DeleteVault(x)
      PROVE  FALSE
  BY <1>1, <1>6 DEF ProfileRemove, ProfileUse, DropRecord, DeleteVault
<1>7. ~UNCHANGED vars
  BY <1>1 DEF vars
<1> QED BY <1>2, <1>3, <1>4, <1>5, <1>6, <1>7 DEF Next

\* With --scope user, no init or teardown of one project takes the shared entry
\* from another that init has wired: other_projects counts every project that
\* relies on it, for any number of projects and of inits at once, with failures,
\* crashes, disconnects, and files the user deletes, as long as every init and
\* teardown names the same hosts.  A disconnect does take it, from everybody.
THEOREM SharedEntryOutlives ==
    ASSUME WiredAlike
    PROVE  Spec => SharedEntryKept
<1>1. Init => KeptInv
  <2> SUFFICES ASSUME Init
               PROVE  Exclusive /\ Wired /\ \A p \in Procs : Removing(p) /\ Installing(p)
    BY InitShaped DEF KeptInv
  <2>1. (\A p \in Procs : proc[p] = Idle) /\ \A q \in Projects : relying[q] = {}
    BY DEF Init
  <2> QED BY <2>1, IdleType DEF Exclusive, Running, Wired, Removing, Installing
<1>2. KeptInv /\ [Next]_vars => KeptInv'
  BY NextKeptInv
<1> DEFINE Kept ==
      \A q \in Projects :
        /\ \A h \in relying'[q] \ relying[q] : SharedEntry(h) \in owned
        /\ \A h \in relying[q] :
             Slot("instructions", h, "user", q) \in owned /\ SharedEntry(h) \in owned \ owned'
               => \E p \in Procs : proc[p].command = "remove" /\ proc'[p] # proc[p]
<1>3. KeptInv /\ [Next]_vars => Kept
  BY ToldByInit, TakenByDisconnect
<1> QED BY <1>1, <1>2, <1>3, PTL DEF Spec, SharedEntryKept

=============================================================================
