----------------------------- MODULE HostApply -----------------------------
(***************************************************************************)
(* Connecting and disconnecting one editor (src/host.rs over              *)
(* src/fs_safe.rs): concurrent manager processes that read a configuration *)
(* file, its receipt and its backup, plan (HostPlan), wait for the user's  *)
(* confirmation and apply the plan step by step, beside a user who edits   *)
(* the same files by hand.                                                 *)
(*                                                                         *)
(* ConnectionPlan::apply: lock, compare the target and the receipt with    *)
(* the snapshots the plan was made from, back the target up, write it,     *)
(* write the receipt, undo the target when the receipt cannot be written,  *)
(* drop a redundant backup, unlock, and remove an emptied directory.       *)
(***************************************************************************)
EXTENDS HostPlan

CONSTANTS
    Procs,      \* slots for concurrent manager processes
    NoLock,     \* there is no lock file
    Stale,      \* the lock file of a process that no longer runs
    Start,      \* what can be at the target before this manager first runs
    OldReceipts,\* receipts an older manager can have left beside it
    UserMay,    \* what the user does meanwhile, a subset of AllUserActs
    HandEntries,\* Kaleidoscope entries the user writes by hand
    MaxEdits,   \* bound on the user's edits
    MaxFaults   \* bound on input/output failures

\* "edit" outside and "edit_in_window" also inside the interval between the
\* comparison of the target and its replacement; "drop_receipt" is the remedy
\* the refusals name; "crash" and "clear_lock" are the death of a manager and
\* the removal of the lock file it left.
AllUserActs == {"edit", "edit_in_window", "drop_receipt", "crash", "clear_lock"}

ASSUME HostApplyAssumption ==
    /\ NoLock \notin Procs /\ Stale \notin Procs /\ NoLock # Stale
    /\ Absent \notin [bytes : Bytes, mode : Modes] \cup Receipts \cup Bytes
    /\ NoDigest \notin Bytes \cup {Absent}
    /\ Start \subseteq Snapshots /\ OldReceipts \subseteq Receipts
    /\ UserMay \subseteq AllUserActs
    /\ HandEntries \subseteq Entries \cup Foreign
    /\ MaxEdits \in Nat /\ MaxFaults \in Nat

VARIABLES
    target,     \* the configuration file: Absent or its bytes and mode
    receipt,    \* *.kaleidoscope-owner.json: Absent or a receipt
    backup,     \* *.kaleidoscope-backup: Absent or bytes
    dir,        \* does the directory that holds them exist
    lock,       \* *.kaleidoscope-lock: NoLock, its owner, or Stale
    proc,       \* what each process is doing and what it has read
    edits,      \* how often the user has edited
    faults,     \* how many writes have failed
    authored,   \* history: the user's part of the file as the user left it
    pristine    \* history: the bytes before the manager's first write

files == <<target, receipt, backup, dir>>
history == <<authored, pristine>>
vars == <<target, receipt, backup, dir, lock, proc, edits, faults, authored, pristine>>

UserPart(snapshot) ==
    LET doc == Document(snapshot)
    IN  [rest |-> doc.rest, entry |-> IF doc.entry \in Foreign THEN doc.entry ELSE NoEntry]

NoPlan == [write |-> Leave, restore |-> "none", remove_backup |-> FALSE, receipt_after |-> Absent]

Idle == [pc |-> "idle", desired |-> NoEntry, original |-> Absent,
         receipt_original |-> Absent, plan |-> NoPlan, outcome |-> "none"]

Init ==
    /\ target \in Start
    /\ dir \in {d \in BOOLEAN : target # Absent => d}
    /\ receipt \in {Absent} \cup {r \in OldReceipts : r.owned = Document(target).entry}
    /\ backup = Absent /\ lock = NoLock
    /\ proc = [p \in Procs |-> Idle]
    /\ edits = 0 /\ faults = 0
    /\ authored = UserPart(target) /\ pristine = Digest(target)

-----------------------------------------------------------------------------
(* Planning reads three files one after the other, without a lock.         *)

\* desired is the entry to connect, or NoEntry to disconnect.
ReadTarget(p) ==
    /\ proc[p].pc = "idle"
    /\ \E e \in Entries \cup {NoEntry} :
         proc' = [proc EXCEPT ![p] = [Idle EXCEPT !.pc = "read_receipt", !.desired = e,
                                                  !.original = target]]
    /\ UNCHANGED <<files, lock, edits, faults, history>>

ReadReceipt(p) ==
    /\ proc[p].pc = "read_receipt"
    /\ proc' = [proc EXCEPT ![p].pc = "plan", ![p].receipt_original = receipt]
    /\ UNCHANGED <<files, lock, edits, faults, history>>

Plans(p) ==
    IF proc[p].desired = NoEntry
      THEN plan_disconnect(proc[p].original, backup, proc[p].receipt_original)
      ELSE plan_connect(proc[p].original, proc[p].receipt_original, proc[p].desired)

\* A refusal and a no-op both end the command here.
Plan(p) ==
    /\ proc[p].pc = "plan"
    /\ \/ \E plan \in Plans(p) :
            proc' = [proc EXCEPT ![p].pc = "ensure_parent", ![p].plan = plan]
       \/ /\ Plans(p) = {}
          /\ proc' = [proc EXCEPT ![p] = Idle]
    /\ UNCHANGED <<files, lock, edits, faults, history>>

-----------------------------------------------------------------------------
(* ConnectionPlan::apply.                                                  *)

Goto(p, pc) == proc' = [proc EXCEPT ![p].pc = pc]
Finish(p, outcome) == proc' = [proc EXCEPT ![p].pc = "release", ![p].outcome = outcome]

EnsureParent(p) ==
    /\ proc[p].pc = "ensure_parent"
    /\ dir' = TRUE
    /\ Goto(p, "lock")
    /\ UNCHANGED <<target, receipt, backup, lock, edits, faults, history>>

MutCreateLock(p) ==
    /\ proc[p].pc = "lock"
    /\ lock' = p
    /\ Goto(p, "assert_target")
    /\ UNCHANGED <<files, edits, faults, history>>

\* create_new beside the target: refused when a lock file exists, and when
\* another process pruned the directory since EnsureParent.  When the process
\* id cannot be written the file stays behind without a guard.
CreateLock(p) ==
    /\ proc[p].pc = "lock"
    /\ \/ /\ dir /\ lock = NoLock
          /\ lock' = p
          /\ Goto(p, "assert_target")
          /\ UNCHANGED faults
       \/ /\ dir /\ lock = NoLock /\ "lock_write" \in Faults /\ faults < MaxFaults
          /\ lock' = Stale
          /\ proc' = [proc EXCEPT ![p] = Idle]
          /\ faults' = faults + 1
       \/ /\ ~dir \/ lock # NoLock
          /\ proc' = [proc EXCEPT ![p] = Idle]
          /\ UNCHANGED <<lock, faults>>
    /\ UNCHANGED <<files, edits, history>>

MutAssertTarget(p) ==
    /\ proc[p].pc = "assert_target"
    /\ Goto(p, "assert_receipt")
    /\ UNCHANGED <<files, lock, edits, faults, history>>

AssertTarget(p) ==
    /\ proc[p].pc = "assert_target"
    /\ IF target = proc[p].original THEN Goto(p, "assert_receipt") ELSE Finish(p, "refused")
    /\ UNCHANGED <<files, lock, edits, faults, history>>

MutAssertReceipt(p) ==
    /\ proc[p].pc = "assert_receipt"
    /\ Goto(p, "backup")
    /\ UNCHANGED <<files, lock, edits, faults, history>>

AssertReceipt(p) ==
    /\ proc[p].pc = "assert_receipt"
    /\ IF receipt = proc[p].receipt_original THEN Goto(p, "backup") ELSE Finish(p, "refused")
    /\ UNCHANGED <<files, lock, edits, faults, history>>

\* A write or removal that publishes nothing, publishes and reports success,
\* or publishes and reports failure.
Attempt(outcome) ==
    /\ outcome.ok \/ faults < MaxFaults
    /\ faults' = IF outcome.ok THEN faults ELSE faults + 1

\* Skipped when there is nothing to back up, on a removal, and when the plan
\* does not touch the target.
Backup(p) ==
    /\ proc[p].pc = "backup"
    /\ IF proc[p].plan.restore = "none" /\ proc[p].plan.write.kind # "leave"
            /\ proc[p].original # Absent
         THEN \E o \in atomic_write(backup, proc[p].original.bytes) :
                /\ Attempt(o)
                /\ backup' = o.file
                /\ IF o.ok THEN Goto(p, "write") ELSE Finish(p, "aborted")
         ELSE Goto(p, "write") /\ UNCHANGED <<backup, faults>>
    /\ UNCHANGED <<target, receipt, dir, lock, edits, history>>

\* The bytes keep the mode of the file they replace; a new file is private.
WrittenTarget(p) ==
    LET w == proc[p].plan.write
        mode == IF proc[p].original = Absent THEN "private" ELSE proc[p].original.mode
    IN  CASE w.kind = "write"  -> atomic_write(target, [bytes |-> w.bytes, mode |-> mode])
          [] w.kind = "remove" -> atomic_remove(target)
          [] w.kind = "leave"  -> {Outcome(TRUE, target)}

\* An error of the write itself returns at once: only the failure of the
\* receipt, below, undoes anything.
WriteTarget(p) ==
    /\ proc[p].pc = "write"
    /\ \E o \in WrittenTarget(p) :
         /\ Attempt(o)
         /\ target' = o.file
         /\ IF o.ok THEN Goto(p, "write_receipt") ELSE Finish(p, "aborted")
    /\ pristine' = IF proc[p].receipt_original = Absent THEN Digest(target) ELSE pristine
    /\ UNCHANGED <<receipt, backup, dir, lock, edits, authored>>

\* As WriteReceipt, keeping the receipt an update finds.
MutWriteReceipt(p) ==
    /\ proc[p].pc = "write_receipt"
    /\ receipt' = IF receipt # Absent /\ proc[p].plan.receipt_after # Absent
                    THEN receipt ELSE proc[p].plan.receipt_after
    /\ Goto(p, "remove_backup")
    /\ UNCHANGED <<target, backup, dir, lock, edits, faults, history>>

WriteReceipt(p) ==
    /\ proc[p].pc = "write_receipt"
    /\ \E o \in restore_snapshot(receipt, proc[p].plan.receipt_after) :
         /\ Attempt(o)
         /\ receipt' = o.file
         /\ Goto(p, IF o.ok THEN "remove_backup" ELSE "compare")
    /\ UNCHANGED <<target, backup, dir, lock, edits, history>>

MutCompare(p) ==
    /\ proc[p].pc = "compare"
    /\ Finish(p, "failed")
    /\ UNCHANGED <<files, lock, edits, faults, history>>

\* The receipt could not be written: put the target back, but only if it is
\* still what apply left there.
Compare(p) ==
    /\ proc[p].pc = "compare"
    /\ IF target = snapshot_for_write(proc[p].plan.write, proc[p].original)
         THEN Goto(p, "restore") ELSE Finish(p, "failed")
    /\ UNCHANGED <<files, lock, edits, faults, history>>

RestoreTarget(p) ==
    /\ proc[p].pc = "restore"
    /\ \E o \in restore_snapshot(target, proc[p].original) :
         /\ Attempt(o)
         /\ target' = o.file
    /\ Finish(p, "failed")
    /\ UNCHANGED <<receipt, backup, dir, lock, edits, history>>

MutRemoveBackup(p) ==
    /\ proc[p].pc = "remove_backup"
    /\ Finish(p, "applied")
    /\ UNCHANGED <<files, lock, edits, faults, history>>

RemoveBackup(p) ==
    /\ proc[p].pc = "remove_backup"
    /\ IF proc[p].plan.remove_backup
         THEN \E o \in atomic_remove(backup) :
                /\ Attempt(o)
                /\ backup' = o.file
                /\ Finish(p, IF o.ok THEN "applied" ELSE "kept_backup")
         ELSE Finish(p, "applied") /\ UNCHANGED <<backup, faults>>
    /\ UNCHANGED <<target, receipt, dir, lock, edits, history>>

DropLock(p) ==
    /\ proc[p].pc = "release"
    /\ lock' = NoLock
    /\ IF proc[p].outcome = "applied" /\ proc[p].plan.write.kind = "remove"
         THEN Goto(p, "prune") ELSE proc' = [proc EXCEPT ![p] = Idle]
    /\ UNCHANGED <<files, edits, faults, history>>

\* prune_empty_managed_directories, after the lock file is gone.
Prune(p) ==
    /\ proc[p].pc = "prune"
    /\ dir' = (target # Absent \/ receipt # Absent \/ backup # Absent \/ lock # NoLock)
    /\ proc' = [proc EXCEPT ![p] = Idle]
    /\ UNCHANGED <<target, receipt, backup, lock, edits, faults, history>>

-----------------------------------------------------------------------------
(* Everything else that happens to these files.                            *)

\* Some process has compared the target and has yet to replace it.
InWindow == \E p \in Procs : proc[p].pc \in {"assert_receipt", "backup", "write", "restore"}

\* The user saves the file from an editor: other content, the entry as it was
\* or one written by hand.  The newlines around a Codex block are left alone.
UserEdit ==
    /\ "edit" \in UserMay /\ edits < MaxEdits
    /\ InWindow => "edit_in_window" \in UserMay
    /\ \E r \in Rests, e \in HandEntries \cup {Document(target).entry} :
         target' = [bytes |-> [rest |-> r, entry |-> e,
                               layout |-> IF Codex THEN Document(target).layout ELSE "user"],
                    mode  |-> IF target = Absent THEN "shared" ELSE target.mode]
    /\ target' # target
    /\ edits' = edits + 1
    /\ dir' = TRUE
    /\ authored' = UserPart(target')
    /\ UNCHANGED <<receipt, backup, lock, proc, faults, pristine>>

UserDropsReceipt ==
    /\ "drop_receipt" \in UserMay /\ receipt # Absent /\ edits < MaxEdits
    /\ InWindow => "edit_in_window" \in UserMay
    /\ receipt' = Absent
    /\ edits' = edits + 1
    /\ UNCHANGED <<target, backup, dir, lock, proc, faults, history>>

Crash(p) ==
    /\ "crash" \in UserMay /\ proc[p].pc # "idle"
    /\ lock' = IF lock = p THEN Stale ELSE lock
    /\ proc' = [proc EXCEPT ![p] = Idle]
    /\ UNCHANGED <<files, edits, faults, history>>

ClearStaleLock ==
    /\ "clear_lock" \in UserMay /\ lock = Stale
    /\ lock' = NoLock
    /\ UNCHANGED <<files, proc, edits, faults, history>>

Apply(p) ==
    \/ EnsureParent(p) \/ CreateLock(p) \/ AssertTarget(p) \/ AssertReceipt(p)
    \/ Backup(p) \/ WriteTarget(p) \/ WriteReceipt(p) \/ Compare(p) \/ RestoreTarget(p)
    \/ RemoveBackup(p) \/ DropLock(p) \/ Prune(p)

Next ==
    \/ \E p \in Procs : ReadTarget(p) \/ ReadReceipt(p) \/ Plan(p) \/ Apply(p) \/ Crash(p)
    \/ UserEdit \/ UserDropsReceipt \/ ClearStaleLock

Spec == Init /\ [][Next]_vars

-----------------------------------------------------------------------------

PCs == {"idle", "read_receipt", "plan", "ensure_parent", "lock", "assert_target",
        "assert_receipt", "backup", "write", "write_receipt", "compare", "restore",
        "remove_backup", "release", "prune"}

PlanType ==
    [write : [kind : {"write", "remove", "leave"}, bytes : Bytes],
     restore : {"none", "byte_identical", "structural"},
     remove_backup : BOOLEAN, receipt_after : Receipts \cup {Absent}]

ProcType ==
    [pc : PCs, desired : Entries \cup {NoEntry},
     original : Snapshots, receipt_original : Receipts \cup {Absent}, plan : PlanType,
     outcome : {"none", "refused", "aborted", "failed", "kept_backup", "applied"}]

\* Every file holds something its reader understands, and a process carries
\* only plans it can apply.
TypeOK ==
    /\ target \in Snapshots
    /\ receipt \in Receipts \cup {Absent}
    /\ backup \in Bytes \cup {Absent}
    /\ dir \in BOOLEAN
    /\ lock \in Procs \cup {NoLock, Stale}
    /\ proc \in [Procs -> ProcType]
    /\ edits \in 0..MaxEdits /\ faults \in 0..MaxFaults
    /\ pristine \in Bytes \cup {Absent}
    /\ authored \in [rest : Rests, entry : Foreign \cup {NoEntry}]

Holding(p) == proc[p].pc \in {"assert_target", "assert_receipt", "backup", "write",
                              "write_receipt", "compare", "restore", "remove_backup", "release"}

\* The lock file belongs to the one process between FileLock::acquire and the
\* drop of its guard.
LockMutex == \A p \in Procs : Holding(p) => lock = p

\* What apply replaces is the file its plan was made from: a file changed by
\* someone else during an edit is refused.
ReplacesItsSnapshot == \A p \in Procs : proc[p].pc = "write" => target = proc[p].original

\* What a disconnect is about to leave in the file holds no Kaleidoscope entry.
DisconnectRemovesEntry ==
    \A p \in Procs :
      proc[p].pc = "write" /\ proc[p].plan.restore # "none" /\ proc[p].plan.write.kind = "write"
        => proc[p].plan.write.bytes.entry = NoEntry

\* Everything else in the file is kept: whatever the manager does, the file keeps the
\* user's own content and any foreign Kaleidoscope entry as the user last saved
\* them.
UserContentPreserved == UserPart(target) = authored

\* A removal reported as byte_identical puts back the very bytes, or the absence
\* of a file, that were there before the manager first wrote the file.
ByteIdenticalRestore ==
    \A p \in Procs :
      proc[p].pc = "write" /\ proc[p].plan.restore = "byte_identical"
        => resulting_bytes(proc[p].plan.write, proc[p].original) = pristine

\* Between operations the receipt and the file agree on what the manager owns,
\* so that the next connect or disconnect is not refused, as long as the user
\* leaves them alone: an edit while a failing apply looks at the file prevents
\* its undoing.
ReceiptAgrees ==
    lock = NoLock /\ receipt # Absent /\ edits = 0 => Document(target).entry = receipt.owned

\* An apply that fails at its receipt does not leave what it wrote into an
\* existing file: the file is back as it was, unless someone edited it since.
FailedStepRestores ==
    \A p \in Procs :
      /\ proc[p].pc = "release" /\ proc[p].outcome = "failed" /\ proc[p].original # Absent
      /\ target = snapshot_for_write(proc[p].plan.write, proc[p].original)
      => target = proc[p].original

\* An exact removal of a file the manager created leaves nothing beside it:
\* no receipt and no backup.
NoResidue ==
    \A p \in Procs :
      /\ proc[p].pc = "release" /\ proc[p].outcome = "applied"
      /\ proc[p].plan.write.kind = "remove" /\ proc[p].plan.restore = "byte_identical"
      => receipt = Absent /\ backup = Absent

=============================================================================
