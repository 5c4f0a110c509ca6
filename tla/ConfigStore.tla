---------------------------- MODULE ConfigStore ----------------------------
(***************************************************************************)
(* manager.json (src/config.rs): the manager's own state file, edited by   *)
(* any number of manager processes at once.  Every command loads the file, *)
(* edits its copy and calls ConfigStore::save, which takes a snapshot of   *)
(* its own, acquires the lock file beside the target, checks that the file *)
(* still equals the snapshot and publishes the new content atomically.     *)
(*                                                                         *)
(* A lock is the existence of a file: it is taken with create_new, removed *)
(* when the guard is dropped, and survives the process that created it.    *)
(***************************************************************************)
EXTENDS FsSafe

CONSTANTS
    Procs,      \* slots for concurrent manager processes
    Profiles,   \* profile names
    Accounts,   \* account ids a profile can be bound to
    Nil,        \* the nil UUID, which the command line accepts as an account id
    Projects,   \* project roots
    None,       \* no active profile / no binding
    NoLock,     \* there is no lock file
    Stale       \* the lock file of a process that no longer runs

ASSUME ConfigAssumption ==
    /\ None \notin Profiles \cup Accounts \cup {Nil}
    /\ Nil \notin Accounts
    /\ NoLock \notin Procs /\ Stale \notin Procs /\ NoLock # Stale
    /\ Absent \notin [active : Profiles \cup {None},
                      bindings : [Profiles -> Accounts \cup {None}],
                      projects : SUBSET Projects]

VARIABLES
    disk,   \* content of manager.json: Absent or a Config
    lock,   \* the lock file: NoLock, the process that holds it, or Stale
    proc    \* what each process is doing and what it has read

vars == <<disk, lock, proc>>

\* The configurations that validate.
ManagerConfig ==
    [active   : Profiles \cup {None},
     bindings : [Profiles -> Accounts \cup {None}],
     projects : SUBSET Projects]

DefaultConfig ==
    [active |-> None, bindings |-> [f \in Profiles |-> None], projects |-> {}]

MutIsNil(a) == FALSE

is_nil(a) == a = Nil

\* ManagerConfig::validate, which both load and save apply.
validate(c) == \A f \in Profiles : ~is_nil(c.bindings[f])

\* The configurations ConfigStore::load returns for the bytes on disk: none
\* when they do not validate.
Load(file) == {c \in {IF file = Absent THEN DefaultConfig ELSE file} : validate(c)}

-----------------------------------------------------------------------------
(* The commands: what each one turns a loaded configuration into.          *)

set_active_profile(c, f) == [c EXCEPT !.active = f]

bind_profile_account(c, f, a) == IF is_nil(a) THEN {} ELSE {[c EXCEPT !.bindings[f] = a]}

unbind_profile_account(c, f) == [c EXCEPT !.bindings[f] = None]

forget_profile(c, f) ==
    [c EXCEPT !.active = IF c.active = f THEN None ELSE @, !.bindings[f] = None]

register_project(c, r) == [c EXCEPT !.projects = @ \cup {r}]

\* keeps is what the caller still recognises as installed.
forget_project(c, r, keeps) == [c EXCEPT !.projects = (@ \ {r}) \cap keeps]

\* Every command saves, whether or not it changed anything, except the two
\* project commands, which return early when the set is what it was.
EditedBy(c) ==
    {set_active_profile(c, f) : f \in Profiles}
      \cup (UNION {bind_profile_account(c, f, a) : f \in Profiles, a \in Accounts \cup {Nil}})
      \cup {unbind_profile_account(c, f) : f \in Profiles}
      \cup {forget_profile(c, f) : f \in Profiles}
      \cup ({register_project(c, r) : r \in Projects} \ {c})
      \cup ({forget_project(c, r, k) : r \in Projects, k \in SUBSET Projects} \ {c})

-----------------------------------------------------------------------------

PCs == {"idle", "loaded", "snapshot", "locked", "checked", "release"}

Idle == [pc |-> "idle", edited |-> DefaultConfig, original |-> Absent]

Files == ManagerConfig \cup {Absent}

\* The manager can always read its own file back: what is on disk, and what
\* any process is about to put there, passes the validation load applies.
TypeOK ==
    /\ disk \in Files
    /\ lock \in Procs \cup {NoLock, Stale}
    /\ proc \in [Procs -> [pc : PCs, edited : ManagerConfig, original : Files]]

Init ==
    /\ disk = Absent
    /\ lock = NoLock
    /\ proc = [p \in Procs |-> Idle]

\* A command starts: load, then edit the copy in memory; save refuses a copy
\* that does not validate before it touches anything.
LoadAndEdit(p) ==
    /\ proc[p].pc = "idle"
    /\ \E loaded \in Load(disk) : \E c \in EditedBy(loaded) :
         /\ validate(c)
         /\ proc' = [proc EXCEPT ![p] = [Idle EXCEPT !.pc = "loaded", !.edited = c]]
    /\ UNCHANGED <<disk, lock>>

\* ConfigStore::save reads the file a second time, for its own check.
TakeSnapshot(p) ==
    /\ proc[p].pc = "loaded"
    /\ proc' = [proc EXCEPT ![p].pc = "snapshot", ![p].original = disk]
    /\ UNCHANGED <<disk, lock>>

\* As AcquireLock, with open(create) in place of create_new.
MutAcquireLock(p) ==
    /\ proc[p].pc = "snapshot"
    /\ lock' = p
    /\ proc' = [proc EXCEPT ![p].pc = "locked"]
    /\ UNCHANGED disk

\* FileLock::acquire never waits: an existing lock file, live or stale, is an
\* error.  When writing the process id into the new file fails, no guard is
\* constructed and the file stays behind.
AcquireLock(p) ==
    /\ proc[p].pc = "snapshot"
    /\ \/ /\ lock = NoLock
          /\ lock' = p
          /\ proc' = [proc EXCEPT ![p].pc = "locked"]
       \/ /\ lock = NoLock /\ "lock_write" \in Faults
          /\ lock' = Stale
          /\ proc' = [proc EXCEPT ![p] = Idle]
       \/ /\ lock # NoLock
          /\ proc' = [proc EXCEPT ![p] = Idle]
          /\ UNCHANGED lock
    /\ UNCHANGED disk

\* As AssertUnchanged, without the comparison.
MutAssertUnchanged(p) ==
    /\ proc[p].pc = "locked"
    /\ proc' = [proc EXCEPT ![p].pc = "checked"]
    /\ UNCHANGED <<disk, lock>>

\* As AssertUnchanged, waiting for the file to come back instead of refusing.
MutAssertWaits(p) ==
    /\ proc[p].pc = "locked" /\ disk = proc[p].original
    /\ proc' = [proc EXCEPT ![p].pc = "checked"]
    /\ UNCHANGED <<disk, lock>>

\* assert_unchanged: refuse when the file differs from save's own snapshot.
AssertUnchanged(p) ==
    /\ proc[p].pc = "locked"
    /\ proc' = [proc EXCEPT ![p].pc = IF disk = proc[p].original THEN "checked" ELSE "release"]
    /\ UNCHANGED <<disk, lock>>

Publish(p) ==
    /\ proc[p].pc = "checked"
    /\ \E o \in atomic_write(disk, proc[p].edited) : disk' = o.file
    /\ proc' = [proc EXCEPT ![p].pc = "release"]
    /\ UNCHANGED lock

\* The guard is dropped on every way out of save.
DropLock(p) ==
    /\ proc[p].pc = "release"
    /\ lock' = NoLock
    /\ proc' = [proc EXCEPT ![p] = Idle]
    /\ UNCHANGED disk

\* A process dies; a lock file it had created stays.
Crash(p) ==
    /\ proc[p].pc # "idle"
    /\ lock' = IF lock = p THEN Stale ELSE lock
    /\ proc' = [proc EXCEPT ![p] = Idle]
    /\ UNCHANGED disk

\* The user deletes a lock file by hand, having made sure nothing runs.
ClearStaleLock ==
    /\ lock = Stale
    /\ lock' = NoLock
    /\ UNCHANGED <<disk, proc>>

Step(p) ==
    \/ TakeSnapshot(p)
    \/ AcquireLock(p)
    \/ AssertUnchanged(p)
    \/ Publish(p)
    \/ DropLock(p)

Next ==
    \/ \E p \in Procs : LoadAndEdit(p) \/ Step(p) \/ Crash(p)
    \/ ClearStaleLock

Spec == Init /\ [][Next]_vars

\* A running process keeps running: none of these steps waits for another.
FairSpec == Spec /\ \A p \in Procs : WF_vars(Step(p))

-----------------------------------------------------------------------------

Holding(p) == proc[p].pc \in {"locked", "checked", "release"}

\* The lock file belongs to the one process that is inside save's critical
\* section; no path through FileLock lets two in, crashes included.
LockMutex == \A p \in Procs : Holding(p) => lock = p

\* Between assert_unchanged and the rename nothing else publishes: what save
\* replaces is byte for byte what it compared against.
PublishesOverSnapshot ==
    \A p \in Procs : proc[p].pc = "checked" => disk = proc[p].original

\* No command can hang: every started command returns, whoever holds the lock
\* and however the others stopped.
CommandsReturn == \A p \in Procs : proc[p].pc # "idle" ~> proc[p].pc = "idle"

=============================================================================
