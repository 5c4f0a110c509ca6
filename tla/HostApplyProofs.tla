-------------------------- MODULE HostApplyProofs --------------------------
(***************************************************************************)
(* What HostApply guarantees for every host format, every set of           *)
(* processes, entries and contents, and every bound on edits and failures. *)
(***************************************************************************)
EXTENDS HostImplements, TLAPS

-----------------------------------------------------------------------------
(* The planners produce plans that apply understands.                      *)

LEMMA LayoutFacts ==
    /\ NewLayout \in Layouts /\ UserLayouts \subseteq Layouts
    /\ Codex => 0 \in Layouts /\ 1 \in Layouts /\ 2 \in Layouts
    /\ ~Codex => "pretty" \in Layouts /\ "user" \in Layouts
BY DEF Layouts, NewLayout, UserLayouts

LEMMA NoBytesType == NoBytes \in Bytes
BY LayoutFacts, HostPlanAssumption DEF NoBytes, Bytes

LEMMA DocumentType ==
    ASSUME NEW s \in Snapshots
    PROVE  Document(s) \in Bytes /\ Digest(s) \in Bytes \cup {Absent}
BY NoBytesType DEF Document, Digest, Snapshots

LEMMA InstallType ==
    ASSUME NEW doc \in Bytes, NEW desired \in Entries
    PROVE  install(doc, desired) \in Bytes
<1>1. CASE ~Codex
  BY <1>1, LayoutFacts DEF install, Bytes
<1>2. CASE Codex /\ doc.entry # NoEntry
  BY <1>2, LayoutFacts DEF install, Bytes
<1>3. CASE Codex /\ doc.entry = NoEntry
  BY <1>3, LayoutFacts DEF install, Bytes
<1> QED BY <1>1, <1>2, <1>3

LEMMA RemovedType ==
    ASSUME NEW doc \in Bytes, NEW r \in Receipts, NEW text \in removed(doc, r)
    PROVE  text \in Bytes
<1>1. CASE Codex
  BY <1>1, LayoutFacts DEF removed, remove_codex_block, Bytes
<1>2. CASE ~Codex
  BY <1>2, LayoutFacts DEF removed, remove_json_path, Bytes
<1> QED BY <1>1, <1>2

LEMMA PlanConnectType ==
    ASSUME NEW original \in Snapshots, NEW r \in Receipts \cup {Absent}, NEW desired \in Entries,
           NEW plan \in plan_connect(original, r, desired)
    PROVE  plan \in PlanType
<1>1. CASE plan = Adopt(original, desired) /\ Document(original).entry = desired
  <2>1. original # Absent
    BY <1>1, HostPlanAssumption DEF Document, NoBytes
  <2>2. Digest(original) \in Bytes
    BY <2>1, DocumentType, HostApplyAssumption DEF Digest, Snapshots
  <2> QED BY <1>1, <2>2, NoBytesType DEF Adopt, Leave, PlanType, Receipts
<1>2. CASE plan = AddOrUpdate(original, r, desired)
  <2> DEFINE updated == install(Document(original), desired)
             pre == IF r = Absent \/ r.pre = NoDigest THEN Digest(original) ELSE r.pre
             created == IF r = Absent THEN original = Absent ELSE r.created
             adopted == r # Absent /\ r.adopted
  <2>1. updated \in Bytes
    BY DocumentType, InstallType
  <2>2. pre \in Bytes \cup {Absent, NoDigest}
    BY DocumentType DEF Receipts
  <2>3. created \in BOOLEAN /\ adopted \in BOOLEAN
    BY DEF Receipts
  <2>4. plan = [write |-> [kind |-> "write", bytes |-> updated], restore |-> "none",
                remove_backup |-> FALSE,
                receipt_after |-> [owned |-> desired, pre |-> pre, post |-> updated,
                                   created |-> created, adopted |-> adopted]]
    BY <1>2 DEF AddOrUpdate, Write
  <2> HIDE DEF updated, pre, created, adopted
  <2> QED BY <2>1, <2>2, <2>3, <2>4 DEF PlanType, Receipts
<1> QED BY <1>1, <1>2 DEF plan_connect

LEMMA PlanDisconnectType ==
    ASSUME NEW original \in Snapshots, NEW b \in Bytes \cup {Absent},
           NEW r \in Receipts \cup {Absent}, NEW plan \in plan_disconnect(original, b, r)
    PROVE  plan \in PlanType
<1>1. r \in Receipts
  BY DEF plan_disconnect
<1> DEFINE structural(text) == IF r.created /\ text.rest = Empty THEN Remove ELSE Write(text)
           tier(text) == resolve_restore(original, b, r, structural(text))
<1>2. PICK text \in removed(Document(original), r) :
        plan = [write |-> tier(text).write, restore |-> tier(text).restore,
                remove_backup |-> tier(text).remove_backup, receipt_after |-> Absent]
  BY DEF plan_disconnect
<1>3. structural(text) \in [kind : {"write", "remove", "leave"}, bytes : Bytes]
  BY <1>1, DocumentType, RemovedType, NoBytesType DEF Remove, Write
<1> HIDE DEF structural
<1>4. /\ tier(text).write \in [kind : {"write", "remove", "leave"}, bytes : Bytes]
      /\ tier(text).restore \in {"none", "byte_identical", "structural"}
      /\ tier(text).remove_backup \in BOOLEAN
  BY <1>3, NoBytesType DEF resolve_restore, Remove, Write
<1> HIDE DEF tier
<1> QED BY <1>2, <1>4 DEF PlanType

-----------------------------------------------------------------------------
(* File primitives.                                                        *)

LEMMA WriteFile ==
    ASSUME NEW old, NEW new, NEW o \in atomic_write(old, new)
    PROVE  o.file = old \/ o.file = new
BY DEF atomic_write, Outcome

LEMMA RestoreFile ==
    ASSUME NEW old, NEW new, NEW o \in restore_snapshot(old, new)
    PROVE  o.file = old \/ o.file = new
BY WriteFile DEF restore_snapshot, atomic_remove, Outcome

LEMMA AttemptType ==
    ASSUME faults \in 0..MaxFaults, NEW o, Attempt(o)
    PROVE  faults' \in 0..MaxFaults
BY HostApplyAssumption DEF Attempt

LEMMA IdleType == Idle \in ProcType
BY NoBytesType DEF Idle, ProcType, PCs, NoPlan, Leave, PlanType, Snapshots

LEMMA UserPartType ==
    ASSUME NEW s \in Snapshots
    PROVE  UserPart(s) \in [rest : Rests, entry : Foreign \cup {NoEntry}]
BY DocumentType DEF UserPart, Bytes

-----------------------------------------------------------------------------
(* Type correctness: one lemma for each group of actions.                  *)

LEMMA GotoType ==
    ASSUME TypeOK, NEW p \in Procs, NEW pc \in PCs, Goto(p, pc)
    PROVE  proc' \in [Procs -> ProcType]
BY DEF TypeOK, Goto, ProcType

LEMMA FinishType ==
    ASSUME TypeOK, NEW p \in Procs,
           NEW outcome \in {"refused", "aborted", "failed", "kept_backup", "applied"},
           Finish(p, outcome)
    PROVE  proc' \in [Procs -> ProcType]
<1> DEFINE new == [proc[p] EXCEPT !.pc = "release", !.outcome = outcome]
<1>1. new \in ProcType
  <2>1. proc[p] \in ProcType
    BY DEF TypeOK
  <2> QED BY <2>1 DEF ProcType, PCs
<1>2. proc' = [proc EXCEPT ![p] = new]
  BY DEF TypeOK, Finish
<1> HIDE DEF new
<1> QED BY <1>1, <1>2 DEF TypeOK

LEMMA InitType == Init => TypeOK
<1> SUFFICES ASSUME Init PROVE TypeOK
  OBVIOUS
<1>1. target \in Snapshots /\ receipt \in Receipts \cup {Absent}
  BY HostApplyAssumption DEF Init
<1>2. authored \in [rest : Rests, entry : Foreign \cup {NoEntry}] /\ pristine \in Bytes \cup {Absent}
  BY <1>1, UserPartType, DocumentType DEF Init
<1> QED BY <1>1, <1>2, IdleType, HostApplyAssumption DEF Init, TypeOK

LEMMA PlanningType ==
    ASSUME TypeOK, NEW p \in Procs, ReadTarget(p) \/ ReadReceipt(p) \/ Plan(p)
    PROVE  TypeOK'
<1>1. CASE ReadTarget(p)
  <2>1. PICK e \in Entries \cup {NoEntry} :
          proc' = [proc EXCEPT ![p] = [Idle EXCEPT !.pc = "read_receipt", !.desired = e,
                                                   !.original = target]]
    BY <1>1 DEF ReadTarget
  <2>2. [Idle EXCEPT !.pc = "read_receipt", !.desired = e, !.original = target] \in ProcType
    BY IdleType DEF TypeOK, ProcType, PCs
  <2>3. proc' \in [Procs -> ProcType]
    BY <2>1, <2>2 DEF TypeOK
  <2> QED BY <1>1, <2>3 DEF ReadTarget, TypeOK, files, history
<1>2. CASE ReadReceipt(p)
  <2>1. [proc[p] EXCEPT !.pc = "plan", !.receipt_original = receipt] \in ProcType
    <3>1. proc[p] \in ProcType /\ receipt \in Receipts \cup {Absent}
      BY DEF TypeOK
    <3> QED BY <3>1 DEF ProcType, PCs
  <2>2. proc' = [proc EXCEPT ![p] = [proc[p] EXCEPT !.pc = "plan", !.receipt_original = receipt]]
    BY <1>2 DEF ReadReceipt, TypeOK
  <2>3. proc' \in [Procs -> ProcType]
    BY <2>1, <2>2 DEF TypeOK
  <2> QED BY <1>2, <2>3 DEF ReadReceipt, TypeOK, files, history
<1>3. CASE Plan(p)
  <2>1. \A plan \in Plans(p) : plan \in PlanType
    <3>1. /\ proc[p].original \in Snapshots /\ proc[p].receipt_original \in Receipts \cup {Absent}
          /\ proc[p].desired \in Entries \cup {NoEntry} /\ backup \in Bytes \cup {Absent}
      BY DEF TypeOK, ProcType
    <3> QED BY <3>1, PlanConnectType, PlanDisconnectType DEF Plans
  <2>2. proc' \in [Procs -> ProcType]
    BY <1>3, <2>1, IdleType DEF Plan, TypeOK, ProcType, PCs
  <2> QED BY <1>3, <2>2 DEF Plan, TypeOK, files, history
<1> QED BY <1>1, <1>2, <1>3

LEMMA LockingType ==
    ASSUME TypeOK, NEW p \in Procs,
           EnsureParent(p) \/ CreateLock(p) \/ AssertTarget(p) \/ AssertReceipt(p)
             \/ DropLock(p) \/ Prune(p)
    PROVE  TypeOK'
<1>1. CASE EnsureParent(p)
  BY <1>1, GotoType DEF EnsureParent, TypeOK, PCs, history
<1>2. CASE CreateLock(p)
  <2>1. proc' \in [Procs -> ProcType]
    BY <1>2, GotoType, IdleType DEF CreateLock, TypeOK, PCs
  <2>2. faults' \in 0..MaxFaults
    BY <1>2, HostApplyAssumption DEF CreateLock, TypeOK
  <2> QED BY <1>2, <2>1, <2>2 DEF CreateLock, TypeOK, files, history
<1>3. CASE AssertTarget(p)
  BY <1>3, GotoType, FinishType DEF AssertTarget, TypeOK, PCs, files, history
<1>4. CASE AssertReceipt(p)
  BY <1>4, GotoType, FinishType DEF AssertReceipt, TypeOK, PCs, files, history
<1>5. CASE DropLock(p)
  <2>1. proc' \in [Procs -> ProcType]
    BY <1>5, GotoType, IdleType DEF DropLock, TypeOK, PCs
  <2> QED BY <1>5, <2>1 DEF DropLock, TypeOK, files, history
<1>6. CASE Prune(p)
  BY <1>6, IdleType DEF Prune, TypeOK, history
<1> QED BY <1>1, <1>2, <1>3, <1>4, <1>5, <1>6

LEMMA WrittenTargetType ==
    ASSUME TypeOK, NEW p \in Procs, NEW o \in WrittenTarget(p)
    PROVE  o.file \in Snapshots
<1> DEFINE w == proc[p].plan.write
           mode == IF proc[p].original = Absent THEN "private" ELSE proc[p].original.mode
<1>1. w.kind \in {"write", "remove", "leave"} /\ w.bytes \in Bytes /\ mode \in Modes
  BY DEF TypeOK, ProcType, PlanType, Snapshots, Modes
<1>2. CASE w.kind = "write"
  BY <1>1, <1>2, WriteFile DEF WrittenTarget, TypeOK, Snapshots
<1>3. CASE w.kind = "remove"
  BY <1>1, <1>3, WriteFile DEF WrittenTarget, atomic_remove, Outcome, TypeOK, Snapshots
<1>4. CASE w.kind = "leave"
  BY <1>1, <1>4 DEF WrittenTarget, Outcome, TypeOK
<1> QED BY <1>1, <1>2, <1>3, <1>4

LEMMA WritingType ==
    ASSUME TypeOK, NEW p \in Procs,
           Backup(p) \/ WriteTarget(p) \/ WriteReceipt(p) \/ Compare(p) \/ RestoreTarget(p)
             \/ RemoveBackup(p)
    PROVE  TypeOK'
<1> USE DEF PCs
<1>1. CASE Backup(p)
  <2>1. proc' \in [Procs -> ProcType]
    BY <1>1, GotoType, FinishType DEF Backup
  <2>2. backup' \in Bytes \cup {Absent}
    BY <1>1, WriteFile DEF Backup, TypeOK, ProcType, Snapshots
  <2>3. faults' \in 0..MaxFaults
    BY <1>1, AttemptType DEF Backup, TypeOK
  <2> QED BY <1>1, <2>1, <2>2, <2>3 DEF Backup, TypeOK, history
<1>2. CASE WriteTarget(p)
  <2>1. proc' \in [Procs -> ProcType]
    BY <1>2, GotoType, FinishType DEF WriteTarget
  <2>2. target' \in Snapshots
    BY <1>2, WrittenTargetType DEF WriteTarget
  <2>3. faults' \in 0..MaxFaults
    BY <1>2, AttemptType DEF WriteTarget, TypeOK
  <2>4. pristine' \in Bytes \cup {Absent}
    BY <1>2, DocumentType DEF WriteTarget, TypeOK
  <2> QED BY <1>2, <2>1, <2>2, <2>3, <2>4 DEF WriteTarget, TypeOK
<1>3. CASE WriteReceipt(p)
  <2>1. proc' \in [Procs -> ProcType]
    <3>1. PICK o : Goto(p, IF o.ok THEN "remove_backup" ELSE "compare")
      BY <1>3 DEF WriteReceipt
    <3> QED BY <3>1, GotoType
  <2>2. receipt' \in Receipts \cup {Absent}
    BY <1>3, RestoreFile DEF WriteReceipt, TypeOK, ProcType, PlanType
  <2>3. faults' \in 0..MaxFaults
    BY <1>3, AttemptType DEF WriteReceipt, TypeOK
  <2> QED BY <1>3, <2>1, <2>2, <2>3 DEF WriteReceipt, TypeOK, history
<1>4. CASE Compare(p)
  <2>1. proc' \in [Procs -> ProcType]
    BY <1>4, GotoType, FinishType DEF Compare
  <2> QED BY <1>4, <2>1 DEF Compare, TypeOK, files, history
<1>5. CASE RestoreTarget(p)
  <2>1. proc' \in [Procs -> ProcType]
    BY <1>5, FinishType DEF RestoreTarget
  <2>2. target' \in Snapshots
    BY <1>5, RestoreFile DEF RestoreTarget, TypeOK, ProcType
  <2>3. faults' \in 0..MaxFaults
    BY <1>5, AttemptType DEF RestoreTarget, TypeOK
  <2> QED BY <1>5, <2>1, <2>2, <2>3 DEF RestoreTarget, TypeOK, history
<1>6. CASE RemoveBackup(p)
  <2>1. proc' \in [Procs -> ProcType]
    <3>1. CASE Finish(p, "applied")
      BY <3>1, FinishType
    <3>2. CASE \E o : Finish(p, IF o.ok THEN "applied" ELSE "kept_backup")
      BY <3>2, FinishType
    <3> QED BY <1>6, <3>1, <3>2 DEF RemoveBackup
  <2>2. backup' \in Bytes \cup {Absent}
    BY <1>6, WriteFile DEF RemoveBackup, atomic_remove, Outcome, TypeOK
  <2>3. faults' \in 0..MaxFaults
    BY <1>6, AttemptType DEF RemoveBackup, TypeOK
  <2> QED BY <1>6, <2>1, <2>2, <2>3 DEF RemoveBackup, TypeOK, history
<1> QED BY <1>1, <1>2, <1>3, <1>4, <1>5, <1>6

LEMMA OutsideType ==
    ASSUME TypeOK,
           UserEdit \/ UserDropsReceipt \/ ClearStaleLock \/ \E p \in Procs : Crash(p)
    PROVE  TypeOK'
<1>1. CASE UserEdit
  <2>1. target' \in Snapshots
    BY <1>1, DocumentType, LayoutFacts, HostApplyAssumption
    DEF UserEdit, TypeOK, Snapshots, Bytes, Modes
  <2>2. authored' \in [rest : Rests, entry : Foreign \cup {NoEntry}]
    BY <1>1, <2>1, UserPartType DEF UserEdit
  <2>3. edits' \in 0..MaxEdits
    BY <1>1, HostApplyAssumption DEF UserEdit, TypeOK
  <2> QED BY <1>1, <2>1, <2>2, <2>3 DEF UserEdit, TypeOK
<1>2. CASE UserDropsReceipt
  BY <1>2, HostApplyAssumption DEF UserDropsReceipt, TypeOK, history
<1>3. CASE ClearStaleLock
  BY <1>3 DEF ClearStaleLock, TypeOK, files, history
<1>4. CASE \E p \in Procs : Crash(p)
  BY <1>4, IdleType DEF Crash, TypeOK, files, history
<1> QED BY <1>1, <1>2, <1>3, <1>4

LEMMA NextType == TypeOK /\ [Next]_vars => TypeOK'
<1> SUFFICES ASSUME TypeOK, [Next]_vars PROVE TypeOK'
  OBVIOUS
<1>1. CASE UNCHANGED vars
  BY <1>1 DEF vars, TypeOK
<1> QED BY <1>1, PlanningType, LockingType, WritingType, OutsideType DEF Next, Apply

\* Every file the manager reads back is one it understands, and every plan a
\* process carries is one apply can carry out, whatever the interleaving.
THEOREM FilesStayReadable == Spec => []TypeOK
BY InitType, NextType, PTL DEF Spec

-----------------------------------------------------------------------------
(* Mutual exclusion, and that apply replaces the file it planned from.     *)

\* From the comparison of the target to its replacement nothing changes it.
Checked ==
    \A p \in Procs :
      proc[p].pc \in {"assert_receipt", "backup", "write"} => target = proc[p].original

\* LockMutex is inductive with the types: only the owner of the lock file
\* passes CreateLock, and only the owner removes it.
LEMMA NextMutex == TypeOK /\ LockMutex /\ [Next]_vars => LockMutex'
<1> SUFFICES ASSUME TypeOK, LockMutex, [Next]_vars PROVE LockMutex'
  OBVIOUS
<1> USE DEF LockMutex, Holding, TypeOK, ProcType
<1>1. ASSUME NEW p \in Procs, ReadTarget(p) \/ ReadReceipt(p) \/ Plan(p) PROVE LockMutex'
  <2>1. CASE ReadTarget(p)
    BY <2>1, IdleType DEF ReadTarget
  <2>2. CASE ReadReceipt(p)
    BY <2>2 DEF ReadReceipt
  <2>3. CASE Plan(p)
    BY <2>3 DEF Plan, Idle
  <2> QED BY <1>1, <2>1, <2>2, <2>3
<1>2. ASSUME NEW p \in Procs, EnsureParent(p) PROVE LockMutex'
  BY <1>2 DEF EnsureParent, Goto
<1>3. ASSUME NEW p \in Procs, CreateLock(p) PROVE LockMutex'
  BY <1>3, HostApplyAssumption DEF CreateLock, Goto, Idle
<1>4. ASSUME NEW p \in Procs, AssertTarget(p) \/ AssertReceipt(p) \/ Compare(p) PROVE LockMutex'
  BY <1>4 DEF AssertTarget, AssertReceipt, Compare, Goto, Finish
<1>5. ASSUME NEW p \in Procs, Backup(p) \/ WriteTarget(p) PROVE LockMutex'
  BY <1>5 DEF Backup, WriteTarget, Goto, Finish
<1>6. ASSUME NEW p \in Procs, WriteReceipt(p) \/ RestoreTarget(p) \/ RemoveBackup(p) PROVE LockMutex'
  BY <1>6 DEF WriteReceipt, RestoreTarget, RemoveBackup, Goto, Finish
<1>7. ASSUME NEW p \in Procs, DropLock(p) \/ Prune(p) PROVE LockMutex'
  BY <1>7 DEF DropLock, Prune, Goto, Idle
<1>8. ASSUME NEW p \in Procs, Crash(p) PROVE LockMutex'
  BY <1>8 DEF Crash, Idle
<1>9. CASE UserEdit \/ UserDropsReceipt \/ UNCHANGED vars
  BY <1>9 DEF UserEdit, UserDropsReceipt, vars
<1>10. CASE ClearStaleLock
  BY <1>10, HostApplyAssumption DEF ClearStaleLock
<1> QED BY <1>1, <1>2, <1>3, <1>4, <1>5, <1>6, <1>7, <1>8, <1>9, <1>10 DEF Next, Apply

\* At most one process is between FileLock::acquire and the drop of its guard.
THEOREM OneApplier == Spec => []LockMutex
<1>1. Init => LockMutex
  BY DEF Init, LockMutex, Holding, Idle
<1> QED BY <1>1, InitType, NextType, NextMutex, PTL DEF Spec

\* Checked is inductive as long as the user does not save inside the window:
\* other processes that could write the target do not hold the lock.
LEMMA NextChecked ==
    ASSUME "edit_in_window" \notin UserMay
    PROVE  TypeOK /\ LockMutex /\ Checked /\ [Next]_vars => Checked'
<1> SUFFICES ASSUME TypeOK, LockMutex, Checked, [Next]_vars PROVE Checked'
  OBVIOUS
<1> USE DEF TypeOK, ProcType
<1>1. ASSUME NEW p \in Procs, ReadTarget(p) \/ ReadReceipt(p) \/ Plan(p) PROVE Checked'
  <2>1. CASE ReadTarget(p)
    BY <2>1, IdleType DEF ReadTarget, Checked, files
  <2>2. CASE ReadReceipt(p)
    BY <2>2 DEF ReadReceipt, Checked, files
  <2>3. CASE Plan(p)
    BY <2>3 DEF Plan, Idle, Checked, files
  <2> QED BY <1>1, <2>1, <2>2, <2>3
<1>2. ASSUME NEW p \in Procs, EnsureParent(p) \/ CreateLock(p) PROVE Checked'
  BY <1>2 DEF EnsureParent, CreateLock, Goto, Idle, Checked, files
<1>3. ASSUME NEW p \in Procs, AssertTarget(p) \/ AssertReceipt(p) PROVE Checked'
  BY <1>3 DEF AssertTarget, AssertReceipt, Goto, Finish, Checked, files
<1>4. ASSUME NEW p \in Procs, Backup(p) PROVE Checked'
  BY <1>4 DEF Backup, Goto, Finish, Checked
<1>5. ASSUME NEW p \in Procs, WriteTarget(p) \/ RestoreTarget(p) PROVE Checked'
  <2>1. proc'[p].pc \in {"write_receipt", "release"}
    BY <1>5 DEF WriteTarget, RestoreTarget, Goto, Finish
  <2>2. ASSUME NEW q \in Procs, q # p PROVE proc'[q].pc \notin {"assert_receipt", "backup", "write"}
    <3>1. proc'[q] = proc[q]
      BY <1>5, <2>2 DEF WriteTarget, RestoreTarget, Goto, Finish
    <3>2. lock = p
      BY <1>5 DEF LockMutex, Holding, WriteTarget, RestoreTarget
    <3> QED BY <2>2, <3>1, <3>2 DEF LockMutex, Holding
  <2> QED BY <2>1, <2>2 DEF Checked
<1>6. ASSUME NEW p \in Procs, WriteReceipt(p) \/ Compare(p) \/ RemoveBackup(p) PROVE Checked'
  BY <1>6 DEF WriteReceipt, Compare, RemoveBackup, Goto, Finish, Checked, files
<1>7. ASSUME NEW p \in Procs, DropLock(p) \/ Prune(p) \/ Crash(p) PROVE Checked'
  BY <1>7 DEF DropLock, Prune, Crash, Goto, Idle, Checked, files
<1>8. CASE UserEdit
  BY <1>8 DEF UserEdit, InWindow, Checked
<1>9. CASE UserDropsReceipt \/ ClearStaleLock \/ UNCHANGED vars
  BY <1>9 DEF UserDropsReceipt, ClearStaleLock, vars, Checked, files
<1> QED BY <1>1, <1>2, <1>3, <1>4, <1>5, <1>6, <1>7, <1>8, <1>9 DEF Next, Apply

\* What apply replaces is the file its plan, and the preview the user agreed
\* to, were made from, unless someone saves it between assert_unchanged and
\* the rename.
THEOREM AppliesToPreviewedFile ==
    ASSUME "edit_in_window" \notin UserMay
    PROVE  Spec => []ReplacesItsSnapshot
<1>1. Init => TypeOK /\ LockMutex /\ Checked
  BY InitType DEF Init, LockMutex, Holding, Checked, Idle
<1>2. TypeOK /\ LockMutex /\ Checked /\ [Next]_vars => TypeOK' /\ LockMutex' /\ Checked'
  BY NextType, NextMutex, NextChecked
<1>3. Checked => ReplacesItsSnapshot
  BY DEF Checked, ReplacesItsSnapshot
<1> QED BY <1>1, <1>2, <1>3, PTL DEF Spec

-----------------------------------------------------------------------------
(* What a plan does, for a receipt that tells the truth about the file.    *)

\* The manager can want one entry only: one profile, one engine.
OneEntry == \A d, e \in Entries : d = e

\* Receipts that were there before carry no digests; where there are any, the
\* manager wants one entry only, so that none of them is updated.  (An update
\* would complete them with the digest of a file that holds the entry, and the
\* next disconnect would restore the entry.)
PlainReceipts == \A r \in OldReceipts : OneEntry /\ r.pre = NoDigest /\ r.post = NoDigest

\* What the digests of a receipt say of the file before the manager wrote it.
Recorded(r) ==
    r # Absent =>
      /\ r.pre # NoDigest \/ (OneEntry /\ r.post = NoDigest)
      /\ r.pre # NoDigest /\ ~r.adopted =>
           /\ r.pre = Absent \/ r.pre.entry = NoEntry
           /\ r.created => r.pre = Absent
           /\ OneEntry => /\ r.post.entry \in Entries
                          /\ r.post.rest = IF r.pre = Absent THEN Empty ELSE r.pre.rest

\* plan is one that connect or disconnect makes from these snapshots.
Designed(plan, original, r) ==
    \/ \E desired \in Entries : plan \in plan_connect(original, r, desired)
    \/ \E b \in Bytes \cup {Absent} : plan \in plan_disconnect(original, b, r)

\* What a plan leaves of the content, of the entry and of the record.
Sensible(plan, original, r) ==
    /\ Recorded(plan.receipt_after)
    /\ plan.restore # "none" /\ plan.write.kind = "write" => plan.write.bytes.entry = NoEntry
    /\ plan.restore = "byte_identical" =>
         /\ plan.remove_backup /\ plan.receipt_after = Absent
         /\ r # Absent /\ r.pre # NoDigest /\ ~r.adopted
         /\ resulting_bytes(plan.write, original) = r.pre
    /\ Document(original).entry \in {Claimed(r), Claimed(plan.receipt_after)}
    /\ plan.write.kind = "write" => plan.write.bytes.entry = Claimed(plan.receipt_after)
    /\ plan.write.kind = "remove" => Claimed(plan.receipt_after) = NoEntry
    /\ plan.write.kind = "leave" => Document(original).entry = Claimed(plan.receipt_after)
    /\ OneEntry /\ plan.write.kind = "write" => plan.write.bytes.rest = Document(original).rest
    /\ OneEntry /\ plan.write.kind = "remove" => Document(original).rest = Empty
    /\ plan.receipt_after # Absent /\ ~plan.receipt_after.adopted =>
         /\ plan.receipt_after.pre = IF r = Absent THEN Digest(original) ELSE r.pre
         /\ r = Absent \/ ~r.adopted

LEMMA AdoptSensible ==
    ASSUME NEW original \in Snapshots, NEW desired \in Entries, Document(original).entry = desired
    PROVE  Sensible(Adopt(original, desired), original, Absent)
<1> DEFINE after == [owned |-> desired, pre |-> Digest(original), post |-> Digest(original),
                     created |-> FALSE, adopted |-> TRUE]
<1>1. original # Absent
  BY HostPlanAssumption DEF Document, NoBytes
<1>2. Digest(original) \in Bytes
  BY <1>1, DocumentType, HostApplyAssumption DEF Digest, Snapshots
<1>3. after \in Receipts
  BY <1>2 DEF Receipts
<1>4. after # Absent /\ Claimed(after) = desired
  BY <1>3, HostApplyAssumption DEF Claimed
<1>5. Recorded(after)
  BY <1>2, <1>4, HostApplyAssumption DEF Recorded
<1>6. Adopt(original, desired) = [write |-> Leave, restore |-> "none", remove_backup |-> FALSE,
                                  receipt_after |-> after]
  BY DEF Adopt
<1>7. after.adopted
  OBVIOUS
<1> HIDE DEF after
<1> QED BY <1>4, <1>5, <1>6, <1>7 DEF Sensible, Leave

LEMMA AddSensible ==
    ASSUME NEW original \in Snapshots, NEW r \in Receipts \cup {Absent}, NEW desired \in Entries,
           Recorded(r),
           IF r = Absent THEN Document(original).entry = NoEntry
                         ELSE r.owned = Document(original).entry /\ ~OneEntry
    PROVE  Sensible(AddOrUpdate(original, r, desired), original, r)
<1> DEFINE updated == install(Document(original), desired)
           pre == IF r = Absent \/ r.pre = NoDigest THEN Digest(original) ELSE r.pre
           created == IF r = Absent THEN original = Absent ELSE r.created
           adopted == r # Absent /\ r.adopted
           after == [owned |-> desired, pre |-> pre, post |-> updated,
                     created |-> created, adopted |-> adopted]
<1>1. updated \in Bytes /\ updated.entry = desired /\ updated.rest = Document(original).rest
  BY DocumentType, InstallType DEF install
<1>2. pre = IF r = Absent THEN Digest(original) ELSE r.pre
  BY DEF Recorded
<1>3. pre \in Bytes \cup {Absent} /\ pre # NoDigest
  BY <1>2, DocumentType, HostApplyAssumption DEF Receipts, Recorded
<1>4. after \in Receipts
  BY <1>1, <1>3 DEF Receipts
<1>5. after # Absent /\ Claimed(after) = desired
  BY <1>4, HostApplyAssumption DEF Claimed
<1>6. Recorded(after)
  <2>1. CASE r = Absent
    <3>1. pre = Absent \/ pre.entry = NoEntry
      BY <2>1, <1>2 DEF Digest, Document
    <3>2. created => pre = Absent
      BY <2>1, <1>2 DEF Digest
    <3>3. updated.rest = IF pre = Absent THEN Empty ELSE pre.rest
      <4>1. CASE original = Absent
        BY <4>1, <2>1, <1>1, <1>2 DEF Digest, Document, NoBytes
      <4>2. CASE original # Absent
        BY <4>2, <2>1, <1>1, <1>2, HostApplyAssumption DEF Digest, Document, Snapshots
      <4> QED BY <4>1, <4>2
    <3> HIDE DEF updated, pre, created, adopted
    <3> QED BY <3>1, <3>2, <3>3, <1>1, <1>3 DEF Recorded
  <2>2. CASE r # Absent
    <3>1. pre = r.pre /\ created = r.created /\ adopted = r.adopted /\ ~OneEntry
      BY <2>2, <1>2 DEF Receipts
    <3> HIDE DEF updated, pre, created, adopted
    <3> QED BY <2>2, <3>1, <1>3 DEF Recorded
  <2> QED BY <2>1, <2>2
<1>7. AddOrUpdate(original, r, desired)
        = [write |-> [kind |-> "write", bytes |-> updated], restore |-> "none",
           remove_backup |-> FALSE, receipt_after |-> after]
  BY DEF AddOrUpdate, Write
<1>8. after.pre = pre /\ (~after.adopted => r = Absent \/ ~r.adopted)
  OBVIOUS
<1>9. Document(original).entry = Claimed(r)
  BY DEF Claimed
<1> HIDE DEF updated, after, pre
<1> QED BY <1>1, <1>2, <1>5, <1>6, <1>7, <1>8, <1>9 DEF Sensible

LEMMA RemovedFacts ==
    ASSUME NEW doc \in Bytes, NEW r \in Receipts, NEW text \in removed(doc, r)
    PROVE  text.rest = doc.rest /\ text.entry = NoEntry
BY DEF removed, remove_codex_block, remove_json_path, Bytes

LEMMA DisconnectSensible ==
    ASSUME NEW original \in Snapshots, NEW b \in Bytes \cup {Absent},
           NEW r \in Receipts \cup {Absent}, Recorded(r), NEW plan \in plan_disconnect(original, b, r)
    PROVE  Sensible(plan, original, r)
<1>1. r \in Receipts /\ r # Absent /\ r.owned = Document(original).entry
  BY HostApplyAssumption DEF plan_disconnect
<1> DEFINE structural(text) == IF r.created /\ text.rest = Empty THEN Remove ELSE Write(text)
           tier(text) == resolve_restore(original, b, r, structural(text))
<1>2. PICK text \in removed(Document(original), r) :
        plan = [write |-> tier(text).write, restore |-> tier(text).restore,
                remove_backup |-> tier(text).remove_backup, receipt_after |-> Absent]
  BY DEF plan_disconnect
<1>3. text.rest = Document(original).rest /\ text.entry = NoEntry
  BY <1>1, RemovedFacts, DocumentType
<1>4. /\ plan.receipt_after = Absent /\ Recorded(plan.receipt_after)
      /\ Claimed(plan.receipt_after) = NoEntry /\ Document(original).entry = Claimed(r)
  BY <1>1, <1>2 DEF Recorded, Claimed
<1>5. plan.write = tier(text).write /\ plan.restore = tier(text).restore
        /\ plan.remove_backup = tier(text).remove_backup
  BY <1>2
<1>6. CASE tier(text) = [restore |-> "structural", remove_backup |-> FALSE, write |-> structural(text)]
  <2>1. CASE r.created /\ text.rest = Empty
    BY <1>3, <1>4, <1>5, <1>6, <2>1 DEF Sensible, Remove
  <2>2. CASE ~(r.created /\ text.rest = Empty)
    BY <1>3, <1>4, <1>5, <1>6, <2>2 DEF Sensible, Write
  <2> QED BY <2>1, <2>2
<1>7. CASE /\ ~r.adopted /\ r.post # NoDigest /\ Digest(original) = r.post
           /\ r.created \/ (b # Absent /\ r.pre # NoDigest /\ b = r.pre)
           /\ tier(text) = [restore |-> "byte_identical", remove_backup |-> TRUE,
                            write |-> IF r.created THEN Remove ELSE Write(b)]
  <2>1. /\ r.pre # NoDigest
        /\ r.created => r.pre = Absent
        /\ r.pre = Absent \/ r.pre.entry = NoEntry
        /\ OneEntry => r.post.rest = IF r.pre = Absent THEN Empty ELSE r.pre.rest
    BY <1>1, <1>7 DEF Recorded
  <2>2. original # Absent /\ Document(original) = r.post
    <3>1. r.post # Absent
      BY <1>1, <1>7, HostApplyAssumption DEF Receipts
    <3> QED BY <3>1, <1>7 DEF Digest, Document
  <2>3. CASE r.created
    BY <1>1, <1>4, <1>5, <1>7, <2>1, <2>2, <2>3 DEF Sensible, Remove, resulting_bytes
  <2>4. CASE ~r.created
    <3>1. b = r.pre /\ b # Absent
      BY <1>7, <2>4
    <3> QED BY <1>1, <1>4, <1>5, <1>7, <2>1, <2>2, <2>4, <3>1 DEF Sensible, Write, resulting_bytes
  <2> QED BY <2>3, <2>4
<1>8. QED
  BY <1>6, <1>7 DEF resolve_restore

\* The planners, whatever they are asked: a plan is sensible when the receipt
\* it starts from is a truthful one.
LEMMA PlanSensible ==
    ASSUME NEW original \in Snapshots, NEW r \in Receipts \cup {Absent}, Recorded(r),
           NEW plan, Designed(plan, original, r)
    PROVE  Sensible(plan, original, r)
<1>1. CASE \E desired \in Entries : plan \in plan_connect(original, r, desired)
  <2>1. PICK desired \in Entries : plan \in plan_connect(original, r, desired)
    BY <1>1
  <2>2. CASE r = Absent
    BY <2>1, <2>2, AdoptSensible, AddSensible DEF plan_connect
  <2>3. CASE r # Absent
    <3>1. /\ r.owned = Document(original).entry /\ Document(original).entry # desired
          /\ plan = AddOrUpdate(original, r, desired)
      BY <2>1, <2>3 DEF plan_connect
    <3>2. ~OneEntry
      BY <2>3, <3>1 DEF OneEntry, Receipts
    <3> QED BY <2>3, <3>1, <3>2, AddSensible
  <2> QED BY <2>2, <2>3
<1>2. CASE \E b \in Bytes \cup {Absent} : plan \in plan_disconnect(original, b, r)
  BY <1>2, DisconnectSensible
<1> QED BY <1>1, <1>2 DEF Designed

-----------------------------------------------------------------------------
(* What a process carries from its reads to the end of its apply.          *)

Planning == {"idle", "read_receipt", "plan"}

Keeps(q) ==
    /\ proc'[q].original = proc[q].original
    /\ proc'[q].receipt_original = proc[q].receipt_original
    /\ proc'[q].plan = proc[q].plan

\* A process starts over, reads, plans, or goes on with the plan it has.
Carries(q) ==
    \/ proc'[q] = Idle
    \/ /\ proc'[q].pc = "read_receipt"
       /\ proc'[q].receipt_original = Absent /\ proc'[q].plan = NoPlan
    \/ /\ proc'[q].pc = "plan"
       /\ proc'[q].receipt_original = receipt /\ proc'[q].plan = proc[q].plan
    \/ /\ proc'[q].pc = "ensure_parent" /\ proc[q].pc = "plan"
       /\ proc'[q].original = proc[q].original
       /\ proc'[q].receipt_original = proc[q].receipt_original
       /\ proc'[q].plan \in Plans(q)
    \/ Keeps(q) /\ (proc'[q].pc = proc[q].pc \/ (proc[q].pc \notin Planning /\ proc'[q].pc \notin Planning))

LEMMA GotoCarries ==
    ASSUME TypeOK, NEW p \in Procs, NEW q \in Procs, proc[p].pc \notin Planning,
           \/ \E pc \in PCs \ Planning : Goto(p, pc)
           \/ \E outcome : Finish(p, outcome)
           \/ proc' = [proc EXCEPT ![p] = Idle]
           \/ proc' = proc
    PROVE  Carries(q)
<1>1. CASE \E pc \in PCs \ Planning : Goto(p, pc)
  BY <1>1 DEF TypeOK, ProcType, Goto, Carries, Keeps
<1>2. CASE \E outcome : Finish(p, outcome)
  <2>1. PICK outcome : proc' = [proc EXCEPT ![p] = [proc[p] EXCEPT !.pc = "release", !.outcome = outcome]]
    BY <1>2 DEF Finish, TypeOK
  <2>2. CASE q = p
    <3>1. proc'[q] = [proc[q] EXCEPT !.pc = "release", !.outcome = outcome]
      BY <2>1, <2>2 DEF TypeOK
    <3> QED BY <2>2, <3>1 DEF TypeOK, ProcType, Carries, Keeps, Planning
  <2>3. CASE q # p
    BY <2>1, <2>3 DEF TypeOK, Carries, Keeps
  <2> QED BY <2>2, <2>3
<1>3. CASE proc' = [proc EXCEPT ![p] = Idle]
  BY <1>3 DEF TypeOK, Carries, Keeps
<1>4. CASE proc' = proc
  BY <1>4 DEF Carries, Keeps
<1> QED BY <1>1, <1>2, <1>3, <1>4

LEMMA NextCarries ==
    ASSUME TypeOK, [Next]_vars, NEW q \in Procs
    PROVE  Carries(q)
<1>1. ASSUME NEW p \in Procs, ReadTarget(p) PROVE Carries(q)
  BY <1>1 DEF ReadTarget, TypeOK, Carries, Keeps, Idle
<1>2. ASSUME NEW p \in Procs, ReadReceipt(p) PROVE Carries(q)
  BY <1>2 DEF ReadReceipt, TypeOK, ProcType, Carries, Keeps
<1>3. ASSUME NEW p \in Procs, Plan(p) PROVE Carries(q)
  <2>1. CASE proc' = [proc EXCEPT ![p] = Idle]
    BY <2>1 DEF TypeOK, Carries, Keeps
  <2>2. CASE \E plan \in Plans(p) : proc' = [proc EXCEPT ![p].pc = "ensure_parent", ![p].plan = plan]
    <3>1. PICK plan \in Plans(p) : proc' = [proc EXCEPT ![p].pc = "ensure_parent", ![p].plan = plan]
      BY <2>2
    <3>2. CASE q = p
      <4>1. proc'[q] = [proc[q] EXCEPT !.pc = "ensure_parent", !.plan = plan]
        BY <3>1, <3>2 DEF TypeOK
      <4> QED BY <1>3, <3>2, <4>1 DEF Plan, TypeOK, ProcType, Carries
    <3>3. CASE q # p
      BY <3>1, <3>3 DEF TypeOK, ProcType, Carries, Keeps
    <3> QED BY <3>2, <3>3
  <2> QED BY <1>3, <2>1, <2>2 DEF Plan
<1>4. ASSUME NEW p \in Procs, EnsureParent(p) \/ CreateLock(p) \/ AssertTarget(p) \/ AssertReceipt(p)
      PROVE Carries(q)
  BY <1>4, GotoCarries DEF EnsureParent, CreateLock, AssertTarget, AssertReceipt, Planning, PCs
<1>5. ASSUME NEW p \in Procs, Backup(p) \/ WriteTarget(p) \/ Compare(p) \/ RestoreTarget(p)
      PROVE Carries(q)
  BY <1>5, GotoCarries DEF Backup, WriteTarget, Compare, RestoreTarget, Planning, PCs
<1>6. ASSUME NEW p \in Procs, WriteReceipt(p) PROVE Carries(q)
  <2>1. PICK o : Goto(p, IF o.ok THEN "remove_backup" ELSE "compare")
    BY <1>6 DEF WriteReceipt
  <2>2. \E pc \in PCs \ Planning : Goto(p, pc)
    BY <2>1 DEF Planning, PCs
  <2> QED BY <1>6, <2>2, GotoCarries DEF WriteReceipt, Planning
<1>7. ASSUME NEW p \in Procs, RemoveBackup(p) \/ DropLock(p) \/ Prune(p) PROVE Carries(q)
  BY <1>7, GotoCarries DEF RemoveBackup, DropLock, Prune, Planning, PCs
<1>8. ASSUME NEW p \in Procs, Crash(p) PROVE Carries(q)
  BY <1>8 DEF Crash, TypeOK, Carries, Keeps
<1>9. CASE UserEdit \/ UserDropsReceipt \/ ClearStaleLock \/ UNCHANGED vars
  BY <1>9 DEF UserEdit, UserDropsReceipt, ClearStaleLock, vars, Carries, Keeps
<1> QED BY <1>1, <1>2, <1>3, <1>4, <1>5, <1>6, <1>7, <1>8, <1>9 DEF Next, Apply

\* Only WriteReceipt and the user change the receipt.
LEMMA NextReceipt ==
    ASSUME TypeOK, [Next]_vars
    PROVE  \/ receipt' \in {receipt, Absent}
           \/ \E p \in Procs : proc[p].pc = "write_receipt" /\ receipt' = proc[p].plan.receipt_after
<1>1. ASSUME NEW p \in Procs, WriteReceipt(p)
      PROVE  receipt' = receipt \/ (proc[p].pc = "write_receipt" /\ receipt' = proc[p].plan.receipt_after)
  BY <1>1, RestoreFile DEF WriteReceipt
<1>2. ASSUME NEW p \in Procs, ReadTarget(p) \/ ReadReceipt(p) \/ Plan(p) \/ EnsureParent(p)
               \/ CreateLock(p) \/ AssertTarget(p) \/ AssertReceipt(p) \/ Crash(p)
      PROVE  receipt' = receipt
  BY <1>2 DEF ReadTarget, ReadReceipt, Plan, EnsureParent, CreateLock, AssertTarget,
              AssertReceipt, Crash, files
<1>3. ASSUME NEW p \in Procs, Backup(p) \/ WriteTarget(p) \/ Compare(p) \/ RestoreTarget(p)
               \/ RemoveBackup(p) \/ DropLock(p) \/ Prune(p)
      PROVE  receipt' = receipt
  BY <1>3 DEF Backup, WriteTarget, Compare, RestoreTarget, RemoveBackup, DropLock, Prune, files
<1>4. CASE UserEdit \/ UserDropsReceipt \/ ClearStaleLock \/ UNCHANGED vars
  BY <1>4 DEF UserEdit, UserDropsReceipt, ClearStaleLock, vars, files
<1> QED BY <1>1, <1>2, <1>3, <1>4 DEF Next, Apply

\* The truthful receipts: on disk, read, and about to be written.
AllRecorded ==
    /\ Recorded(receipt)
    /\ \A p \in Procs : Recorded(proc[p].receipt_original) /\ Recorded(proc[p].plan.receipt_after)

\* Once it has a plan, a process follows that plan.
Planned ==
    \A p \in Procs : proc[p].pc \notin Planning
                       => Designed(proc[p].plan, proc[p].original, proc[p].receipt_original)

LEMMA PlansDesigned ==
    ASSUME TypeOK, NEW q \in Procs, NEW plan \in Plans(q)
    PROVE  Designed(plan, proc[q].original, proc[q].receipt_original)
BY DEF Plans, Designed, TypeOK, ProcType

LEMMA PlannedInit == Init => Planned
BY DEF Init, Planned, Planning, Idle

LEMMA NextPlanned == TypeOK /\ Planned /\ [Next]_vars => Planned'
<1> SUFFICES ASSUME TypeOK, Planned, [Next]_vars, NEW q \in Procs, proc'[q].pc \notin Planning
             PROVE  Designed(proc'[q].plan, proc'[q].original, proc'[q].receipt_original)
  BY DEF Planned, Designed
<1>1. CASE /\ proc'[q].original = proc[q].original
           /\ proc'[q].receipt_original = proc[q].receipt_original
           /\ proc'[q].plan \in Plans(q)
  BY <1>1, PlansDesigned
<1>2. CASE Keeps(q) /\ proc[q].pc \notin Planning
  BY <1>2 DEF Keeps, Planned
<1> QED BY <1>1, <1>2, NextCarries DEF Carries, Planning, Idle

LEMMA RecordedInit == PlainReceipts /\ Init => AllRecorded
<1> SUFFICES ASSUME PlainReceipts, Init PROVE AllRecorded
  OBVIOUS
<1>1. Recorded(receipt) /\ Recorded(Absent)
  BY DEF Init, PlainReceipts, Recorded
<1>2. \A p \in Procs : proc[p] = Idle
  BY DEF Init
<1> QED BY <1>1, <1>2 DEF AllRecorded, Idle, NoPlan

LEMMA NextRecorded == TypeOK /\ AllRecorded /\ Planned /\ [Next]_vars => AllRecorded'
<1> SUFFICES ASSUME TypeOK, AllRecorded, Planned, [Next]_vars PROVE AllRecorded'
  OBVIOUS
<1>0. Recorded(Absent)
  BY DEF Recorded
<1>1. Recorded(receipt')
  BY <1>0, NextReceipt DEF AllRecorded
<1>2. ASSUME NEW q \in Procs
      PROVE  Recorded(proc'[q].receipt_original) /\ Recorded(proc'[q].plan.receipt_after)
  <2>1. CASE proc'[q] = Idle
    BY <1>0, <2>1 DEF Idle, NoPlan
  <2>2. CASE proc'[q].receipt_original = Absent /\ proc'[q].plan = NoPlan
    BY <1>0, <2>2 DEF NoPlan
  <2>3. CASE proc'[q].receipt_original = receipt /\ proc'[q].plan = proc[q].plan
    BY <2>3 DEF AllRecorded
  <2>4. CASE /\ proc'[q].receipt_original = proc[q].receipt_original
             /\ proc'[q].plan \in Plans(q)
    <3>1. Designed(proc'[q].plan, proc[q].original, proc[q].receipt_original)
      BY <2>4, PlansDesigned
    <3>2. Recorded(proc'[q].plan.receipt_after)
      BY <3>1, PlanSensible DEF AllRecorded, Sensible, TypeOK, ProcType
    <3> QED BY <2>4, <3>2 DEF AllRecorded
  <2>5. CASE Keeps(q)
    BY <2>5 DEF Keeps, AllRecorded
  <2> QED BY <2>1, <2>2, <2>3, <2>4, <2>5, NextCarries DEF Carries
<1> QED BY <1>1, <1>2 DEF AllRecorded, Recorded

\* So every process that applies a plan has a sensible one.
LEMMA AppliesSensible ==
    ASSUME TypeOK, AllRecorded, Planned, NEW p \in Procs, proc[p].pc \notin Planning
    PROVE  Sensible(proc[p].plan, proc[p].original, proc[p].receipt_original)
BY PlanSensible DEF AllRecorded, Planned, TypeOK, ProcType

\* A disconnect takes the entry out of the file, the exact ones included: the
\* backup it puts back never holds an entry, however many connects, updates,
\* failed and abandoned applies went before.
THEOREM DisconnectTakesEntryOut ==
    ASSUME PlainReceipts
    PROVE  Spec => []DisconnectRemovesEntry
<1>1. TypeOK /\ AllRecorded /\ Planned => DisconnectRemovesEntry
  BY AppliesSensible DEF DisconnectRemovesEntry, Sensible, Planning
<1> QED BY <1>1, InitType, NextType, PlannedInit, NextPlanned, RecordedInit, NextRecorded, PTL DEF Spec

-----------------------------------------------------------------------------
(* While a process holds the lock, only it and the user touch the files.   *)

Applying(p) ==
    \/ AssertTarget(p) \/ AssertReceipt(p) \/ Backup(p) \/ WriteTarget(p) \/ WriteReceipt(p)
    \/ Compare(p) \/ RestoreTarget(p) \/ RemoveBackup(p) \/ DropLock(p)

FilesStay == UNCHANGED <<target, receipt, backup, edits, authored, pristine>>

LEMMA Unlocked ==
    ASSUME TypeOK, NEW p \in Procs,
           \/ ReadTarget(p) \/ ReadReceipt(p) \/ Plan(p) \/ EnsureParent(p) \/ CreateLock(p)
           \/ Prune(p) \/ Crash(p)
    PROVE  /\ FilesStay
           /\ \A q \in Procs : q # p => proc'[q] = proc[q]
           /\ proc'[p].pc \in {"idle", "read_receipt", "plan", "ensure_parent", "lock", "assert_target"}
<1> USE DEF TypeOK, FilesStay, files, history
<1>1. CASE ReadTarget(p)
  BY <1>1 DEF ReadTarget, Idle
<1>2. CASE ReadReceipt(p)
  BY <1>2 DEF ReadReceipt, ProcType
<1>3. CASE Plan(p)
  BY <1>3 DEF Plan, ProcType, Idle
<1>4. CASE EnsureParent(p) \/ CreateLock(p)
  BY <1>4 DEF EnsureParent, CreateLock, ProcType, Goto, Idle
<1>5. CASE Prune(p) \/ Crash(p)
  BY <1>5 DEF Prune, Crash, Idle
<1> QED BY <1>1, <1>2, <1>3, <1>4, <1>5

LEMMA OthersKept ==
    ASSUME TypeOK, NEW p \in Procs, Applying(p), NEW q \in Procs, q # p
    PROVE  proc'[q] = proc[q] /\ Holding(p)
<1>1. CASE AssertTarget(p) \/ AssertReceipt(p) \/ Backup(p) \/ WriteTarget(p) \/ Compare(p)
  BY <1>1 DEF AssertTarget, AssertReceipt, Backup, WriteTarget, Compare, Goto, Finish, TypeOK, Holding
<1>2. CASE WriteReceipt(p) \/ RestoreTarget(p) \/ RemoveBackup(p) \/ DropLock(p)
  BY <1>2 DEF WriteReceipt, RestoreTarget, RemoveBackup, DropLock, Goto, Finish, TypeOK, Holding
<1> QED BY <1>1, <1>2 DEF Applying

\* A step that leaves the applying process q alone.
Away(q) ==
    /\ proc'[q] = proc[q] /\ backup' = backup /\ pristine' = pristine /\ faults' = faults
    /\ FilesStay \/ UserEdit \/ UserDropsReceipt

LEMMA HolderSteps ==
    ASSUME TypeOK, LockMutex, [Next]_vars, NEW q \in Procs
    PROVE  \/ Holding(q) /\ Applying(q)
           \/ Holding(q) /\ Away(q)
           \/ /\ ~Holding(q) \/ Crash(q)
              /\ proc'[q].pc \in {"idle", "read_receipt", "plan", "ensure_parent", "lock", "assert_target"}
           \/ ~Holding(q) /\ proc'[q].pc = proc[q].pc
<1>1. ASSUME NEW p \in Procs,
             \/ ReadTarget(p) \/ ReadReceipt(p) \/ Plan(p) \/ EnsureParent(p) \/ CreateLock(p)
             \/ Prune(p) \/ Crash(p)
      PROVE  \/ Holding(q) /\ Away(q)
             \/ /\ ~Holding(q) \/ Crash(q)
                /\ proc'[q].pc \in {"idle", "read_receipt", "plan", "ensure_parent", "lock", "assert_target"}
             \/ ~Holding(q) /\ proc'[q].pc = proc[q].pc
  <2>1. CASE q = p
    <3>1. ~Holding(q) \/ Crash(q)
      BY <1>1, <2>1 DEF Holding, ReadTarget, ReadReceipt, Plan, EnsureParent, CreateLock, Prune
    <3> QED BY <1>1, <2>1, <3>1, Unlocked
  <2>2. CASE q # p /\ Holding(q)
    <3>1. FilesStay /\ proc'[q] = proc[q]
      BY <1>1, <2>2, Unlocked
    <3>2. faults' = faults
      <4>1. lock # NoLock
        BY <2>2, HostApplyAssumption DEF LockMutex
      <4> QED BY <1>1, <4>1 DEF ReadTarget, ReadReceipt, Plan, EnsureParent, CreateLock, Prune, Crash
    <3> QED BY <2>2, <3>1, <3>2 DEF Away, FilesStay
  <2>3. CASE q # p /\ ~Holding(q)
    BY <1>1, <2>3, Unlocked
  <2> QED BY <2>1, <2>2, <2>3
<1>2. ASSUME NEW p \in Procs, Applying(p)
      PROVE  (Holding(q) /\ Applying(q)) \/ (~Holding(q) /\ proc'[q].pc = proc[q].pc)
  <2>1. CASE q = p
    BY <1>2, <2>1
      DEF Applying, Holding, AssertTarget, AssertReceipt, Backup, WriteTarget, WriteReceipt, Compare,
          RestoreTarget, RemoveBackup, DropLock
  <2>2. CASE q # p
    BY <1>2, <2>2, OthersKept DEF LockMutex
  <2> QED BY <2>1, <2>2
<1>3. CASE UserEdit \/ UserDropsReceipt \/ ClearStaleLock \/ UNCHANGED vars
  <2>1. proc' = proc /\ backup' = backup /\ pristine' = pristine /\ faults' = faults
    BY <1>3 DEF UserEdit, UserDropsReceipt, ClearStaleLock, vars, files, history
  <2>2. FilesStay \/ UserEdit \/ UserDropsReceipt
    BY <1>3 DEF ClearStaleLock, vars, files, history, FilesStay
  <2> QED BY <2>1, <2>2 DEF Away
<1> QED BY <1>1, <1>2, <1>3 DEF Next, Apply, Applying

\* Everyone who changes a file.
LEMMA Writers ==
    ASSUME TypeOK, [Next]_vars
    PROVE  (\E p \in Procs : Applying(p)) \/ UserEdit \/ UserDropsReceipt \/ FilesStay
<1>1. CASE ClearStaleLock \/ UNCHANGED vars
  BY <1>1 DEF ClearStaleLock, vars, files, history, FilesStay
<1> QED BY <1>1, Unlocked DEF Next, Apply, Applying

-----------------------------------------------------------------------------
(* An exact removal leaves nothing behind.                                 *)

\* The receipt is gone once apply gets to the backup, and both are gone after.
Cleared(q) ==
    /\ proc[q].pc = "remove_backup" /\ proc[q].plan.receipt_after = Absent => receipt = Absent
    /\ proc[q].pc = "release" /\ proc[q].outcome = "applied" /\ proc[q].plan.restore = "byte_identical"
         => receipt = Absent /\ backup = Absent

LEMMA RemoveFile ==
    ASSUME NEW old, NEW o \in atomic_remove(old), o.ok
    PROVE  o.file = Absent
BY DEF atomic_remove, atomic_write, Outcome

LEMMA RestoredFile ==
    ASSUME NEW old, NEW new, NEW o \in restore_snapshot(old, new), o.ok
    PROVE  o.file = new
BY DEF restore_snapshot, atomic_remove, atomic_write, Outcome

\* Only an exact removal removes the backup, and it always does.
LEMMA ExactPlan ==
    ASSUME NEW original, NEW r, NEW plan, Designed(plan, original, r), plan.restore = "byte_identical"
    PROVE  plan.remove_backup /\ plan.receipt_after = Absent
<1>1. ASSUME NEW desired, plan \in plan_connect(original, r, desired) PROVE FALSE
  BY <1>1 DEF plan_connect, Adopt, AddOrUpdate
<1>2. PICK b \in Bytes \cup {Absent} : plan \in plan_disconnect(original, b, r)
  BY <1>1 DEF Designed
<1> DEFINE structural(text) == IF r.created /\ text.rest = Empty THEN Remove ELSE Write(text)
           tier(text) == resolve_restore(original, b, r, structural(text))
<1>3. PICK text \in removed(Document(original), r) :
        plan = [write |-> tier(text).write, restore |-> tier(text).restore,
                remove_backup |-> tier(text).remove_backup, receipt_after |-> Absent]
  BY <1>2 DEF plan_disconnect
<1>4. tier(text).restore = "byte_identical" => tier(text).remove_backup
  BY DEF resolve_restore
<1> HIDE DEF tier
<1> QED BY <1>3, <1>4

LEMMA ClearedApplying ==
    ASSUME TypeOK, Planned, NEW q \in Procs, Cleared(q), Applying(q)
    PROVE  Cleared(q)'
<1>1. CASE AssertTarget(q) \/ AssertReceipt(q)
  BY <1>1 DEF AssertTarget, AssertReceipt, Goto, Finish, Cleared, TypeOK, ProcType
<1>2. CASE Backup(q)
  BY <1>2 DEF Backup, Goto, Finish, Cleared, TypeOK, ProcType
<1>3. CASE WriteTarget(q)
  BY <1>3 DEF WriteTarget, Goto, Finish, Cleared, TypeOK, ProcType
<1>4. CASE WriteReceipt(q)
  <2>1. PICK o \in restore_snapshot(receipt, proc[q].plan.receipt_after) :
          receipt' = o.file /\ Goto(q, IF o.ok THEN "remove_backup" ELSE "compare")
    BY <1>4 DEF WriteReceipt
  <2>2. proc'[q].plan = proc[q].plan /\ proc'[q].pc = IF o.ok THEN "remove_backup" ELSE "compare"
    BY <2>1 DEF Goto, TypeOK, ProcType
  <2>3. o.ok => receipt' = proc[q].plan.receipt_after
    BY <2>1, RestoredFile
  <2> QED BY <2>2, <2>3 DEF Cleared
<1>5. CASE Compare(q) \/ RestoreTarget(q)
  BY <1>5 DEF Compare, RestoreTarget, Goto, Finish, Cleared, TypeOK, ProcType
<1>6. CASE RemoveBackup(q)
  <2>1. proc'[q].pc = "release" /\ proc'[q].plan = proc[q].plan /\ receipt' = receipt
    BY <1>6 DEF RemoveBackup, Finish, TypeOK, ProcType
  <2>2. ASSUME proc[q].plan.restore = "byte_identical", proc'[q].outcome = "applied"
        PROVE  receipt = Absent /\ backup' = Absent
    <3>1. proc[q].plan.remove_backup /\ proc[q].plan.receipt_after = Absent
      BY <1>6, <2>2, ExactPlan DEF RemoveBackup, Planned, Planning
    <3>2. PICK o \in atomic_remove(backup) :
            backup' = o.file /\ Finish(q, IF o.ok THEN "applied" ELSE "kept_backup")
      BY <1>6, <3>1 DEF RemoveBackup
    <3>3. o.ok
      BY <2>2, <3>2 DEF Finish, TypeOK, ProcType
    <3>4. receipt = Absent
      BY <1>6, <3>1 DEF RemoveBackup, Cleared
    <3> QED BY <3>2, <3>3, <3>4, RemoveFile
  <2> QED BY <2>1, <2>2 DEF Cleared
<1>7. CASE DropLock(q)
  BY <1>7 DEF DropLock, Goto, Idle, Cleared, TypeOK, ProcType
<1> QED BY <1>1, <1>2, <1>3, <1>4, <1>5, <1>6, <1>7 DEF Applying

LEMMA NextCleared ==
    ASSUME TypeOK, LockMutex, Planned, \A q \in Procs : Cleared(q), [Next]_vars
    PROVE  \A q \in Procs : Cleared(q)'
<1> SUFFICES ASSUME NEW q \in Procs PROVE Cleared(q)'
  OBVIOUS
<1>1. CASE Applying(q)
  BY <1>1, ClearedApplying
<1>2. CASE Away(q)
  <2>1. receipt' \in {receipt, Absent}
    BY <1>2 DEF Away, FilesStay, UserEdit, UserDropsReceipt
  <2> QED BY <1>2, <2>1 DEF Away, Cleared
<1>3. CASE proc'[q].pc \notin {"remove_backup", "release"}
  BY <1>3 DEF Cleared
<1> QED BY <1>1, <1>2, <1>3, HolderSteps DEF Holding

\* A removal reported as byte_identical of a file the manager created leaves
\* neither the receipt nor the backup beside it, whatever failed or was
\* interrupted before.
THEOREM ExactRemovalIsClean == Spec => []NoResidue
<1> DEFINE Inv == TypeOK /\ LockMutex /\ Planned /\ \A q \in Procs : Cleared(q)
<1>1. Init => Inv
  BY InitType, PlannedInit DEF Init, LockMutex, Holding, Idle, Cleared
<1>2. Inv /\ [Next]_vars => Inv'
  BY NextType, NextMutex, NextPlanned, NextCleared
<1>3. Inv => NoResidue
  BY DEF NoResidue, Cleared
<1> QED BY <1>1, <1>2, <1>3, PTL DEF Spec

-----------------------------------------------------------------------------
(* The user's content.                                                     *)

\* From a comparison to the write it allows, what was compared stays.
Settled(q) ==
    /\ proc[q].pc \in {"backup", "write"} => receipt = proc[q].receipt_original
    /\ proc[q].pc = "restore" => target = snapshot_for_write(proc[q].plan.write, proc[q].original)

LEMMA SettledApplying ==
    ASSUME TypeOK, NEW q \in Procs, Settled(q), Applying(q)
    PROVE  Settled(q)'
<1>1. CASE AssertTarget(q) \/ AssertReceipt(q)
  BY <1>1 DEF AssertTarget, AssertReceipt, Goto, Finish, Settled, TypeOK, ProcType, files
<1>2. CASE Backup(q)
  BY <1>2 DEF Backup, Goto, Finish, Settled, TypeOK, ProcType
<1>3. CASE WriteTarget(q)
  BY <1>3 DEF WriteTarget, Goto, Finish, Settled, TypeOK, ProcType
<1>4. CASE WriteReceipt(q)
  <2>1. proc'[q].pc \in {"remove_backup", "compare"}
    BY <1>4 DEF WriteReceipt, Goto, TypeOK, ProcType
  <2> QED BY <2>1 DEF Settled
<1>5. CASE Compare(q)
  <2>1. /\ proc'[q].plan = proc[q].plan /\ proc'[q].original = proc[q].original /\ target' = target
        /\ proc'[q].pc \in {"restore", "release"}
        /\ proc'[q].pc = "restore" => target = snapshot_for_write(proc[q].plan.write, proc[q].original)
    BY <1>5 DEF Compare, Goto, Finish, TypeOK, ProcType, files
  <2> QED BY <2>1 DEF Settled
<1>6. CASE RestoreTarget(q) \/ RemoveBackup(q)
  <2>1. proc'[q].pc = "release"
    BY <1>6 DEF RestoreTarget, RemoveBackup, Finish, TypeOK, ProcType
  <2> QED BY <2>1 DEF Settled
<1>7. CASE DropLock(q)
  BY <1>7 DEF DropLock, Goto, Idle, Settled, TypeOK, ProcType
<1> QED BY <1>1, <1>2, <1>3, <1>4, <1>5, <1>6, <1>7 DEF Applying

LEMMA NextSettled ==
    ASSUME "edit_in_window" \notin UserMay,
           TypeOK, LockMutex, \A q \in Procs : Settled(q), [Next]_vars
    PROVE  \A q \in Procs : Settled(q)'
<1> SUFFICES ASSUME NEW q \in Procs PROVE Settled(q)'
  OBVIOUS
<1>1. CASE Applying(q)
  BY <1>1, SettledApplying
<1>2. CASE Away(q)
  <2>1. CASE FilesStay
    BY <1>2, <2>1 DEF Away, FilesStay, Settled
  <2>2. CASE UserEdit \/ UserDropsReceipt
    BY <1>2, <2>2 DEF Away, UserEdit, UserDropsReceipt, InWindow, Settled
  <2> QED BY <1>2, <2>1, <2>2 DEF Away
<1>3. CASE proc'[q].pc \notin {"backup", "write", "restore"}
  BY <1>3 DEF Settled
<1> QED BY <1>1, <1>2, <1>3, HolderSteps DEF Holding

\* doc is what the plan of p means to leave of a document.
Intended(p, doc) ==
    /\ doc.entry = Claimed(proc[p].plan.receipt_after)
    /\ OneEntry => doc.rest = Document(proc[p].original).rest

LEMMA WrittenDocument ==
    ASSUME TypeOK, AllRecorded, Planned, NEW p \in Procs, proc[p].pc \notin Planning,
           target = proc[p].original, NEW o \in WrittenTarget(p)
    PROVE  (o.file = target /\ ~o.ok) \/ Intended(p, Document(o.file))
<1> DEFINE w == proc[p].plan.write
           mode == IF proc[p].original = Absent THEN "private" ELSE proc[p].original.mode
           new == [bytes |-> w.bytes, mode |-> mode]
<1>1. Sensible(proc[p].plan, proc[p].original, proc[p].receipt_original)
  BY AppliesSensible
<1>2. w.kind \in {"write", "remove", "leave"} /\ w.bytes \in Bytes /\ mode \in Modes
  BY DEF TypeOK, ProcType, PlanType, Snapshots, Modes
<1>3. CASE w.kind = "write"
  <2>1. Document(new) = w.bytes
    BY <1>2, HostApplyAssumption DEF Document
  <2>2. (o.file = target /\ ~o.ok) \/ o.file = new
    BY <1>3 DEF WrittenTarget, atomic_write, Outcome
  <2>3. Intended(p, w.bytes)
    BY <1>1, <1>3 DEF Sensible, Intended
  <2> QED BY <2>1, <2>2, <2>3
<1>4. CASE w.kind = "remove"
  <2>1. (o.file = target /\ ~o.ok) \/ o.file = Absent
    BY <1>4 DEF WrittenTarget, atomic_remove, atomic_write, Outcome
  <2>2. Intended(p, Document(Absent))
    BY <1>1, <1>4 DEF Sensible, Intended, Document, NoBytes
  <2> QED BY <2>1, <2>2
<1>5. CASE w.kind = "leave"
  <2>1. o.file = target
    BY <1>5 DEF WrittenTarget, Outcome
  <2>2. Intended(p, Document(target))
    BY <1>1, <1>5 DEF Sensible, Intended
  <2> QED BY <2>1, <2>2
<1> QED BY <1>2, <1>3, <1>4, <1>5

\* What Compare recognises as this apply's own write.
LEMMA ComparedDocument ==
    ASSUME TypeOK, AllRecorded, Planned, NEW p \in Procs, proc[p].pc \notin Planning,
           target = snapshot_for_write(proc[p].plan.write, proc[p].original)
    PROVE  target = proc[p].original \/ Intended(p, Document(target))
<1> DEFINE w == proc[p].plan.write
<1>1. Sensible(proc[p].plan, proc[p].original, proc[p].receipt_original)
  BY AppliesSensible
<1>2. w.kind \in {"write", "remove", "leave"} /\ target \in Snapshots
  BY DEF TypeOK, ProcType, PlanType
<1>3. CASE w.kind = "write"
  <2>1. target = [bytes |-> w.bytes,
                  mode |-> IF proc[p].original = Absent THEN "none" ELSE proc[p].original.mode]
    BY <1>3 DEF snapshot_for_write
  <2>2. CASE target = Absent
    <3>1. proc[p].original = Absent
      BY <2>1, <2>2, HostApplyAssumption DEF TypeOK, ProcType, PlanType, Snapshots
    <3> QED BY <2>2, <3>1
  <2>3. CASE target # Absent
    <3>1. Document(target) = w.bytes
      BY <2>1, <2>3 DEF Document
    <3> QED BY <1>1, <1>3, <3>1 DEF Sensible, Intended
  <2> QED BY <2>2, <2>3
<1>4. CASE w.kind = "remove"
  <2>1. target = Absent
    BY <1>4 DEF snapshot_for_write
  <2> QED BY <1>1, <1>4, <2>1 DEF Sensible, Intended, Document, NoBytes
<1>5. CASE w.kind = "leave"
  BY <1>5 DEF snapshot_for_write
<1> QED BY <1>2, <1>3, <1>4, <1>5

LEMMA ClaimedType ==
    ASSUME NEW r \in Receipts \cup {Absent}
    PROVE  Claimed(r) \in Entries \cup {NoEntry}
BY DEF Claimed, Receipts

\* A plan that does what it means to changes nothing of the user's.
LEMMA IntendedUserPart ==
    ASSUME OneEntry, TypeOK, AllRecorded, Planned, NEW p \in Procs, proc[p].pc \notin Planning,
           NEW s, Intended(p, Document(s))
    PROVE  UserPart(s) = UserPart(proc[p].original)
<1>1. Document(proc[p].original).entry
        \in {Claimed(proc[p].receipt_original), Claimed(proc[p].plan.receipt_after)}
  BY AppliesSensible DEF Sensible
<1>2. /\ Claimed(proc[p].receipt_original) \in Entries \cup {NoEntry}
      /\ Claimed(proc[p].plan.receipt_after) \in Entries \cup {NoEntry}
  BY ClaimedType DEF TypeOK, ProcType, PlanType
<1> QED BY <1>1, <1>2, HostPlanAssumption DEF Intended, UserPart

\* Who changes the target, and into what.
LEMMA NextTarget ==
    ASSUME TypeOK, LockMutex, AllRecorded, Planned, Checked, \A q \in Procs : Settled(q),
           NEW p \in Procs, Applying(p)
    PROVE  /\ authored' = authored
           /\ \/ target' = target
              \/ /\ proc[p].pc = "write" /\ WriteTarget(p) /\ target = proc[p].original
                 /\ Intended(p, Document(target'))
              \/ /\ proc[p].pc = "restore" /\ RestoreTarget(p) /\ target' = proc[p].original
                 /\ Intended(p, Document(target))
<1>1. CASE WriteTarget(p)
  <2>1. target = proc[p].original /\ proc[p].pc = "write" /\ proc[p].pc \notin Planning
    BY <1>1 DEF WriteTarget, Checked, Planning
  <2>2. PICK o \in WrittenTarget(p) : target' = o.file
    BY <1>1 DEF WriteTarget
  <2> QED BY <1>1, <2>1, <2>2, WrittenDocument DEF WriteTarget
<1>2. CASE RestoreTarget(p)
  <2>1. /\ target = snapshot_for_write(proc[p].plan.write, proc[p].original)
        /\ proc[p].pc = "restore" /\ proc[p].pc \notin Planning
    BY <1>2 DEF RestoreTarget, Settled, Planning
  <2>2. target' = target \/ target' = proc[p].original
    BY <1>2, RestoreFile DEF RestoreTarget
  <2> QED BY <1>2, <2>1, <2>2, ComparedDocument DEF RestoreTarget, history
<1>3. CASE AssertTarget(p) \/ AssertReceipt(p) \/ Backup(p) \/ WriteReceipt(p) \/ Compare(p)
             \/ RemoveBackup(p) \/ DropLock(p)
  BY <1>3 DEF AssertTarget, AssertReceipt, Backup, WriteReceipt, Compare, RemoveBackup, DropLock,
              files, history
<1> QED BY <1>1, <1>2, <1>3 DEF Applying

LEMMA NextContent ==
    ASSUME OneEntry, TypeOK, LockMutex, AllRecorded, Planned, Checked,
           \A q \in Procs : Settled(q), UserContentPreserved, [Next]_vars
    PROVE  UserContentPreserved'
<1>1. ASSUME NEW p \in Procs, Applying(p) PROVE UserContentPreserved'
  <2>1. UserPart(target') = UserPart(target) /\ authored' = authored
    BY <1>1, NextTarget, IntendedUserPart DEF Planning
  <2> QED BY <2>1 DEF UserContentPreserved, UserPart
<1>2. CASE UserEdit
  BY <1>2 DEF UserEdit, UserContentPreserved, UserPart
<1>3. CASE UserDropsReceipt \/ FilesStay
  BY <1>3 DEF UserDropsReceipt, FilesStay, history, UserContentPreserved, UserPart
<1> QED BY <1>1, <1>2, <1>3, Writers

\* The inductive invariant of the file's history.
WindowInv ==
    TypeOK /\ LockMutex /\ AllRecorded /\ Planned /\ Checked /\ \A q \in Procs : Settled(q)

LEMMA WindowInit == PlainReceipts /\ Init => WindowInv
BY InitType, PlannedInit, RecordedInit DEF Init, WindowInv, LockMutex, Holding, Checked, Settled, Idle

LEMMA WindowNext ==
    ASSUME "edit_in_window" \notin UserMay
    PROVE  WindowInv /\ [Next]_vars => WindowInv'
BY NextType, NextMutex, NextPlanned, NextRecorded, NextChecked, NextSettled DEF WindowInv

\* Connect and disconnect keep the user's content and foreign entries, through
\* failures, crashes and concurrent managers.  Two hypotheses, both needed: the
\* user does not save between assert_unchanged and the rename, and the manager
\* wants one entry only (an update keeps the created flag and the digest of the
\* first original: the run host_update_loses_edit).
THEOREM UserContentSurvives ==
    ASSUME "edit_in_window" \notin UserMay, OneEntry, PlainReceipts
    PROVE  Spec => []UserContentPreserved
<1>1. Init => UserContentPreserved
  BY DEF Init, UserContentPreserved
<1>2. WindowInv /\ UserContentPreserved /\ [Next]_vars => UserContentPreserved'
  BY NextContent DEF WindowInv
<1> QED BY <1>1, <1>2, WindowInit, WindowNext, PTL DEF Spec

-----------------------------------------------------------------------------
(* Exact restores are exact.                                               *)

\* The digest in the receipt is that of the file before the manager's first
\* write.
Exact(r) == r # Absent /\ r.pre # NoDigest /\ ~r.adopted => r.pre = pristine

Traced(q) ==
    /\ proc[q].pc \in {"backup", "write"} => Exact(proc[q].receipt_original)
    /\ proc[q].pc = "write_receipt" => Exact(proc[q].plan.receipt_after)

LEMMA TracedApplying ==
    ASSUME WindowInv, Exact(receipt), NEW q \in Procs, Traced(q), Applying(q)
    PROVE  Traced(q)'
<1>1. CASE AssertTarget(q)
  <2>1. proc'[q].pc \in {"assert_receipt", "release"}
    BY <1>1 DEF AssertTarget, Goto, Finish, WindowInv, TypeOK, ProcType
  <2> QED BY <2>1 DEF Traced
<1>2. CASE AssertReceipt(q)
  <2>1. /\ proc'[q].receipt_original = proc[q].receipt_original /\ pristine' = pristine
        /\ proc'[q].pc = "release" \/ (proc'[q].pc = "backup" /\ receipt = proc[q].receipt_original)
    BY <1>2 DEF AssertReceipt, Goto, Finish, WindowInv, TypeOK, ProcType, history
  <2> QED BY <2>1 DEF Traced, Exact
<1>3. CASE Backup(q)
  <2>1. /\ proc'[q].receipt_original = proc[q].receipt_original /\ pristine' = pristine
        /\ proc'[q].pc \in {"write", "release"} /\ proc[q].pc = "backup"
    BY <1>3 DEF Backup, Goto, Finish, WindowInv, TypeOK, ProcType, history
  <2> QED BY <2>1 DEF Traced, Exact
<1>4. CASE WriteTarget(q)
  <2>1. /\ proc'[q].plan = proc[q].plan /\ proc'[q].pc \in {"write_receipt", "release"}
        /\ proc[q].pc = "write"
        /\ pristine' = IF proc[q].receipt_original = Absent THEN Digest(target) ELSE pristine
    BY <1>4 DEF WriteTarget, Goto, Finish, WindowInv, TypeOK, ProcType
  <2>2. target = proc[q].original /\ Exact(proc[q].receipt_original)
    BY <2>1 DEF WindowInv, Checked, Traced
  <2>3. Sensible(proc[q].plan, proc[q].original, proc[q].receipt_original)
    BY <2>1, AppliesSensible DEF WindowInv, Planning
  <2> DEFINE after == proc[q].plan.receipt_after
             r == proc[q].receipt_original
  <2>4. after # Absent /\ ~after.adopted =>
          after.pre = (IF r = Absent THEN Digest(proc[q].original) ELSE r.pre) /\ (r = Absent \/ ~r.adopted)
    BY <2>3 DEF Sensible
  <2>5. after # Absent /\ after.pre # NoDigest /\ ~after.adopted => after.pre = pristine'
    BY <2>1, <2>2, <2>4 DEF Exact
  <2> QED BY <2>1, <2>5 DEF Traced, Exact
<1>5. CASE WriteReceipt(q)
  <2>1. proc'[q].pc \in {"remove_backup", "compare"}
    BY <1>5 DEF WriteReceipt, Goto, WindowInv, TypeOK, ProcType
  <2> QED BY <2>1 DEF Traced
<1>6. CASE Compare(q) \/ RestoreTarget(q) \/ RemoveBackup(q)
  <2>1. proc'[q].pc \in {"restore", "release"}
    BY <1>6 DEF Compare, RestoreTarget, RemoveBackup, Goto, Finish, WindowInv, TypeOK, ProcType
  <2> QED BY <2>1 DEF Traced
<1>7. CASE DropLock(q)
  BY <1>7 DEF DropLock, Goto, Idle, Traced, WindowInv, TypeOK, ProcType
<1> QED BY <1>1, <1>2, <1>3, <1>4, <1>5, <1>6, <1>7 DEF Applying

LEMMA NextTraced ==
    ASSUME WindowInv, Exact(receipt), \A q \in Procs : Traced(q), [Next]_vars
    PROVE  Exact(receipt)' /\ \A q \in Procs : Traced(q)'
<1>1. ASSUME NEW q \in Procs PROVE Traced(q)'
  <2>1. CASE Applying(q)
    BY <2>1, TracedApplying
  <2>2. CASE Away(q)
    BY <2>2 DEF Away, Traced, Exact
  <2>3. CASE proc'[q].pc \notin {"backup", "write", "write_receipt"}
    BY <2>3 DEF Traced
  <2> QED BY <2>1, <2>2, <2>3, HolderSteps DEF Holding, WindowInv
<1>2. Exact(receipt)'
  <2>1. ASSUME NEW p \in Procs, WriteTarget(p) PROVE Exact(receipt)'
    <3>1. receipt = proc[p].receipt_original
      BY <2>1 DEF WriteTarget, WindowInv, Settled
    <3> QED BY <2>1, <3>1 DEF WriteTarget, Exact
  <2>2. ASSUME NEW p \in Procs, WriteReceipt(p) PROVE Exact(receipt)'
    <3>1. receipt' \in {receipt, proc[p].plan.receipt_after} /\ pristine' = pristine
      BY <2>2, RestoreFile DEF WriteReceipt, history
    <3>2. Exact(proc[p].plan.receipt_after)
      BY <2>2 DEF WriteReceipt, Traced
    <3> QED BY <3>1, <3>2 DEF Exact
  <2>3. ASSUME NEW p \in Procs, AssertTarget(p) \/ AssertReceipt(p) \/ Backup(p) \/ Compare(p)
                 \/ RestoreTarget(p) \/ RemoveBackup(p) \/ DropLock(p)
        PROVE  Exact(receipt)'
    BY <2>3 DEF AssertTarget, AssertReceipt, Backup, Compare, RestoreTarget, RemoveBackup, DropLock,
                files, history, Exact
  <2>4. CASE UserEdit \/ UserDropsReceipt \/ FilesStay
    BY <2>4 DEF UserEdit, UserDropsReceipt, FilesStay, history, Exact
  <2> QED BY <2>1, <2>2, <2>3, <2>4, Writers DEF Applying, WindowInv
<1> QED BY <1>1, <1>2

\* A removal reported as byte_identical puts back the very file, or the absence
\* of one, that the manager's first write replaced: however many updates there
\* were since, whatever failed and whoever crashed.
THEOREM ExactRestoresAreExact ==
    ASSUME "edit_in_window" \notin UserMay, PlainReceipts
    PROVE  Spec => []ByteIdenticalRestore
<1> DEFINE Inv == WindowInv /\ Exact(receipt) /\ \A q \in Procs : Traced(q)
<1>1. Init => Inv
  BY WindowInit DEF Init, PlainReceipts, Exact, Traced, Idle
<1>2. Inv /\ [Next]_vars => Inv'
  BY WindowNext, NextTraced
<1>3. Inv => ByteIdenticalRestore
  BY AppliesSensible DEF WindowInv, ByteIdenticalRestore, Traced, Exact, Sensible, Planning
<1> QED BY <1>1, <1>2, <1>3, PTL DEF Spec

-----------------------------------------------------------------------------
(* An apply that fails at its receipt is undone.                           *)

Undone(q) ==
    /\ proc[q].pc \in {"compare", "restore"} => faults > 0
    /\ /\ proc[q].pc = "release" /\ proc[q].outcome = "failed" /\ proc[q].original # Absent
       /\ target = snapshot_for_write(proc[q].plan.write, proc[q].original)
       => target = proc[q].original

LEMMA UndoneApplying ==
    ASSUME MaxFaults <= 1, TypeOK, NEW q \in Procs, Undone(q), Applying(q)
    PROVE  Undone(q)'
<1>1. CASE AssertTarget(q) \/ AssertReceipt(q)
  BY <1>1 DEF AssertTarget, AssertReceipt, Goto, Finish, Undone, TypeOK, ProcType
<1>2. CASE Backup(q)
  BY <1>2 DEF Backup, Goto, Finish, Undone, TypeOK, ProcType
<1>3. CASE WriteTarget(q)
  BY <1>3 DEF WriteTarget, Goto, Finish, Undone, TypeOK, ProcType
<1>4. CASE WriteReceipt(q)
  <2>1. PICK o : Attempt(o) /\ Goto(q, IF o.ok THEN "remove_backup" ELSE "compare")
    BY <1>4 DEF WriteReceipt
  <2>2. proc'[q].pc = IF o.ok THEN "remove_backup" ELSE "compare"
    BY <2>1 DEF Goto, TypeOK, ProcType
  <2>3. ~o.ok => faults' > 0
    BY <2>1 DEF Attempt, TypeOK
  <2> QED BY <2>2, <2>3 DEF Undone
<1>5. CASE Compare(q)
  <2>1. /\ target' = target /\ faults' = faults /\ proc[q].pc = "compare"
        /\ proc'[q].plan = proc[q].plan /\ proc'[q].original = proc[q].original
        /\ \/ proc'[q].pc = "restore"
           \/ proc'[q].pc = "release" /\ target # snapshot_for_write(proc[q].plan.write, proc[q].original)
    BY <1>5 DEF Compare, Goto, Finish, TypeOK, ProcType, files
  <2> QED BY <2>1 DEF Undone
<1>6. CASE RestoreTarget(q)
  <2>1. PICK o \in restore_snapshot(target, proc[q].original) : Attempt(o) /\ target' = o.file
    BY <1>6 DEF RestoreTarget
  <2>2. o.ok
    BY <1>6, <2>1, HostApplyAssumption DEF RestoreTarget, Attempt, Undone, TypeOK
  <2>3. target' = proc[q].original
    BY <2>1, <2>2, RestoredFile
  <2>4. proc'[q].pc = "release" /\ proc'[q].original = proc[q].original
    BY <1>6 DEF RestoreTarget, Finish, TypeOK, ProcType
  <2> QED BY <2>3, <2>4 DEF Undone
<1>7. CASE RemoveBackup(q)
  <2>1. proc'[q].pc = "release" /\ proc'[q].outcome \in {"applied", "kept_backup"}
    BY <1>7 DEF RemoveBackup, Finish, TypeOK, ProcType
  <2> QED BY <2>1 DEF Undone
<1>8. CASE DropLock(q)
  BY <1>8 DEF DropLock, Goto, Idle, Undone, TypeOK, ProcType
<1> QED BY <1>1, <1>2, <1>3, <1>4, <1>5, <1>6, <1>7, <1>8 DEF Applying

LEMMA NextUndone ==
    ASSUME MaxFaults <= 1, "edit" \notin UserMay,
           TypeOK, LockMutex, \A q \in Procs : Undone(q), [Next]_vars
    PROVE  \A q \in Procs : Undone(q)'
<1> SUFFICES ASSUME NEW q \in Procs PROVE Undone(q)'
  OBVIOUS
<1>1. CASE Applying(q)
  BY <1>1, UndoneApplying
<1>2. CASE Away(q)
  <2>1. target' = target
    BY <1>2 DEF Away, FilesStay, UserEdit, UserDropsReceipt
  <2> QED BY <1>2, <2>1 DEF Away, Undone
<1>3. CASE proc'[q].pc \notin {"compare", "restore", "release"}
  BY <1>3 DEF Undone
<1> QED BY <1>1, <1>2, <1>3, HolderSteps DEF Holding

\* An apply whose receipt cannot be written puts an existing file back as it
\* was, when that is the one failure (undoing it is one more write, which the
\* code does not retry) and nobody edits the file by hand.
THEOREM FailedApplyIsUndone ==
    ASSUME MaxFaults <= 1, "edit" \notin UserMay
    PROVE  Spec => []FailedStepRestores
<1> DEFINE Inv == TypeOK /\ LockMutex /\ \A q \in Procs : Undone(q)
<1>1. Init => Inv
  BY InitType DEF Init, LockMutex, Holding, Idle, Undone
<1>2. Inv /\ [Next]_vars => Inv'
  BY NextType, NextMutex, NextUndone
<1>3. Inv => FailedStepRestores
  BY DEF FailedStepRestores, Undone
<1> QED BY <1>1, <1>2, <1>3, PTL DEF Spec

-----------------------------------------------------------------------------
(* Between operations the receipt and the file agree.                      *)

\* No write reports a failure after it took effect, no process dies, and there
\* is at most one failure: after_publish leaves a written target without its
\* receipt, and so do a death before the receipt and a restore that fails.
Undoable == "after_publish" \notin Faults /\ "crash" \notin UserMay /\ MaxFaults <= 1

Agree == receipt # Absent => Document(target).entry = receipt.owned

UnsettledPCs == {"write_receipt", "compare", "restore"}

\* What the process that applies knows of the files it compared and wrote.
Aware(q) ==
    /\ proc[q].pc \in {"assert_receipt", "backup", "write"} => target = proc[q].original
    /\ proc[q].pc \in {"backup", "write"} => receipt = proc[q].receipt_original
    /\ proc[q].pc \in UnsettledPCs =>
         /\ receipt = proc[q].receipt_original
         /\ receipt # Absent => Document(proc[q].original).entry = receipt.owned
         /\ proc[q].plan.receipt_after # Absent
              => Document(target).entry = proc[q].plan.receipt_after.owned
         /\ proc[q].original # Absent
              => target = snapshot_for_write(proc[q].plan.write, proc[q].original)
    /\ proc[q].pc \in {"compare", "restore"} => faults > 0

\* The first part of the history, up to the user's first edit.
AgreeInv ==
    edits = 0 => /\ \A q \in Procs : Aware(q)
                 /\ (\A q \in Procs : proc[q].pc \notin UnsettledPCs) => Agree

\* With an undoable failure a write either took effect or did not happen.
LEMMA CleanWrite ==
    ASSUME Undoable, NEW old, NEW new, NEW o \in atomic_write(old, new)
    PROVE  o = Outcome(TRUE, new) \/ o = Outcome(FALSE, old)
BY DEF Undoable, atomic_write

LEMMA CleanRestore ==
    ASSUME Undoable, NEW old, NEW new, NEW o \in restore_snapshot(old, new)
    PROVE  (o.ok /\ o.file = new) \/ (~o.ok /\ o.file = old)
BY CleanWrite DEF restore_snapshot, atomic_remove, Outcome

LEMMA CleanTarget ==
    ASSUME Undoable, TypeOK, NEW p \in Procs, target = proc[p].original, NEW o \in WrittenTarget(p)
    PROVE  \/ ~o.ok /\ o.file = target
           \/ /\ o.ok
              /\ proc[p].original # Absent
                   => o.file = snapshot_for_write(proc[p].plan.write, proc[p].original)
<1> DEFINE w == proc[p].plan.write
<1>1. w.kind \in {"write", "remove", "leave"}
  BY DEF TypeOK, ProcType, PlanType
<1>2. CASE w.kind = "write"
  BY <1>2, CleanWrite DEF WrittenTarget, snapshot_for_write, Outcome
<1>3. CASE w.kind = "remove"
  BY <1>3, CleanWrite DEF WrittenTarget, atomic_remove, snapshot_for_write, Outcome
<1>4. CASE w.kind = "leave"
  BY <1>4 DEF WrittenTarget, snapshot_for_write, Outcome
<1> QED BY <1>1, <1>2, <1>3, <1>4

\* A plan that leaves a receipt leaves the entry the receipt records.
LEMMA PlanOwns ==
    ASSUME NEW original, NEW r, NEW plan, Designed(plan, original, r), plan.receipt_after # Absent
    PROVE  \/ plan.write.kind = "write" /\ plan.write.bytes.entry = plan.receipt_after.owned
           \/ plan.write.kind = "leave" /\ Document(original).entry = plan.receipt_after.owned
<1>1. ASSUME NEW b, plan \in plan_disconnect(original, b, r) PROVE FALSE
  BY <1>1 DEF plan_disconnect
<1>2. PICK desired \in Entries : plan \in plan_connect(original, r, desired)
  BY <1>1 DEF Designed
<1>3. CASE plan = Adopt(original, desired) /\ Document(original).entry = desired
  BY <1>3 DEF Adopt, Leave
<1>4. CASE plan = AddOrUpdate(original, r, desired)
  BY <1>4 DEF AddOrUpdate, Write, install
<1> QED BY <1>2, <1>3, <1>4 DEF plan_connect

LEMMA WrittenOwns ==
    ASSUME TypeOK, Planned, NEW p \in Procs, proc[p].pc \notin Planning,
           target = proc[p].original, NEW o \in WrittenTarget(p), o.ok,
           proc[p].plan.receipt_after # Absent
    PROVE  Document(o.file).entry = proc[p].plan.receipt_after.owned
<1> DEFINE w == proc[p].plan.write
           mode == IF proc[p].original = Absent THEN "private" ELSE proc[p].original.mode
           new == [bytes |-> w.bytes, mode |-> mode]
<1>1. \/ w.kind = "write" /\ w.bytes.entry = proc[p].plan.receipt_after.owned
      \/ w.kind = "leave" /\ Document(proc[p].original).entry = proc[p].plan.receipt_after.owned
  BY PlanOwns DEF Planned
<1>2. CASE w.kind = "write" /\ w.bytes.entry = proc[p].plan.receipt_after.owned
  <2>1. w.bytes \in Bytes /\ mode \in Modes
    BY DEF TypeOK, ProcType, PlanType, Snapshots, Modes
  <2>2. Document(new) = w.bytes
    BY <2>1, HostApplyAssumption DEF Document
  <2>3. o.file = new
    BY <1>2 DEF WrittenTarget, atomic_write, Outcome
  <2> QED BY <1>2, <2>2, <2>3
<1>3. CASE w.kind = "leave" /\ Document(proc[p].original).entry = proc[p].plan.receipt_after.owned
  BY <1>3 DEF WrittenTarget, Outcome
<1> QED BY <1>1, <1>2, <1>3

\* A step of the one process that applies.
LEMMA AwareApplying ==
    ASSUME Undoable, TypeOK, LockMutex, Planned, NEW q \in Procs, Applying(q), Aware(q),
           proc[q].pc \notin UnsettledPCs => Agree
    PROVE  Aware(q)' /\ (proc'[q].pc \notin UnsettledPCs => Agree')
<1>1. CASE AssertTarget(q)
  <2>1. /\ target' = target /\ receipt' = receipt /\ proc[q].pc = "assert_target"
        /\ proc'[q].original = proc[q].original
        /\ proc'[q].pc = "release" \/ (proc'[q].pc = "assert_receipt" /\ target = proc[q].original)
    BY <1>1 DEF AssertTarget, Goto, Finish, TypeOK, ProcType, files
  <2> QED BY <2>1 DEF Aware, Agree, UnsettledPCs
<1>2. CASE AssertReceipt(q)
  <2>1. /\ target' = target /\ receipt' = receipt /\ proc[q].pc = "assert_receipt"
        /\ proc'[q].original = proc[q].original
        /\ proc'[q].receipt_original = proc[q].receipt_original
        /\ proc'[q].pc = "release" \/ (proc'[q].pc = "backup" /\ receipt = proc[q].receipt_original)
    BY <1>2 DEF AssertReceipt, Goto, Finish, TypeOK, ProcType, files
  <2> QED BY <2>1 DEF Aware, Agree, UnsettledPCs
<1>3. CASE Backup(q)
  <2>1. /\ target' = target /\ receipt' = receipt /\ proc[q].pc = "backup"
        /\ proc'[q].original = proc[q].original
        /\ proc'[q].receipt_original = proc[q].receipt_original
        /\ proc'[q].pc \in {"release", "write"}
    BY <1>3 DEF Backup, Goto, Finish, TypeOK, ProcType
  <2> QED BY <2>1 DEF Aware, Agree, UnsettledPCs
<1>4. CASE WriteTarget(q)
  <2>1. /\ proc[q].pc = "write" /\ receipt' = receipt /\ target = proc[q].original
        /\ receipt = proc[q].receipt_original /\ Agree
    BY <1>4 DEF WriteTarget, Aware, UnsettledPCs
  <2>2. PICK o \in WrittenTarget(q) :
          /\ target' = o.file
          /\ IF o.ok THEN Goto(q, "write_receipt") ELSE Finish(q, "aborted")
    BY <1>4 DEF WriteTarget
  <2>3. /\ proc'[q].original = proc[q].original /\ proc'[q].plan = proc[q].plan
        /\ proc'[q].receipt_original = proc[q].receipt_original
        /\ proc'[q].pc = IF o.ok THEN "write_receipt" ELSE "release"
    BY <2>2 DEF Goto, Finish, TypeOK, ProcType
  <2>4. CASE ~o.ok
    <3>1. target' = target
      BY <2>1, <2>2, <2>4, CleanTarget
    <3> QED BY <2>1, <2>3, <2>4, <3>1 DEF Aware, Agree, UnsettledPCs
  <2>5. CASE o.ok
    <3>1. proc[q].original # Absent
            => target' = snapshot_for_write(proc[q].plan.write, proc[q].original)
      BY <2>1, <2>2, <2>5, CleanTarget
    <3>2. proc[q].plan.receipt_after # Absent
            => Document(target').entry = proc[q].plan.receipt_after.owned
      BY <2>1, <2>2, <2>5, WrittenOwns DEF Planning
    <3> QED BY <2>1, <2>3, <2>5, <3>1, <3>2 DEF Aware, Agree, UnsettledPCs
  <2> QED BY <2>4, <2>5
<1>5. CASE WriteReceipt(q)
  <2>1. PICK o \in restore_snapshot(receipt, proc[q].plan.receipt_after) :
          /\ Attempt(o) /\ receipt' = o.file
          /\ Goto(q, IF o.ok THEN "remove_backup" ELSE "compare")
    BY <1>5 DEF WriteReceipt
  <2>2. /\ proc[q].pc = "write_receipt" /\ target' = target
        /\ proc'[q].original = proc[q].original /\ proc'[q].plan = proc[q].plan
        /\ proc'[q].receipt_original = proc[q].receipt_original
        /\ proc'[q].pc = IF o.ok THEN "remove_backup" ELSE "compare"
    BY <1>5, <2>1 DEF WriteReceipt, Goto, TypeOK, ProcType
  <2>3. CASE ~o.ok
    <3>1. receipt' = receipt /\ faults' > 0
      BY <2>1, <2>3, CleanRestore DEF Attempt, TypeOK
    <3> QED BY <2>2, <2>3, <3>1 DEF Aware, UnsettledPCs
  <2>4. CASE o.ok
    <3>1. receipt' = proc[q].plan.receipt_after
      BY <2>1, <2>4, CleanRestore
    <3> QED BY <2>2, <2>4, <3>1 DEF Aware, Agree, UnsettledPCs
  <2> QED BY <2>3, <2>4
<1>6. CASE Compare(q)
  <2>1. /\ proc[q].pc = "compare" /\ target' = target /\ receipt' = receipt /\ faults' = faults
        /\ proc'[q].original = proc[q].original /\ proc'[q].plan = proc[q].plan
        /\ proc'[q].receipt_original = proc[q].receipt_original
        /\ proc'[q].pc = IF target = snapshot_for_write(proc[q].plan.write, proc[q].original)
                           THEN "restore" ELSE "release"
    BY <1>6 DEF Compare, Goto, Finish, TypeOK, ProcType, files
  <2>2. CASE target = snapshot_for_write(proc[q].plan.write, proc[q].original)
    BY <2>1, <2>2 DEF Aware, UnsettledPCs
  <2>3. CASE target # snapshot_for_write(proc[q].plan.write, proc[q].original)
    <3>1. proc[q].original = Absent
      BY <2>1, <2>3 DEF Aware, UnsettledPCs
    <3>2. receipt = Absent
      BY <2>1, <3>1, HostPlanAssumption DEF Aware, UnsettledPCs, Document, NoBytes, TypeOK, Receipts
    <3> QED BY <2>1, <2>3, <3>2 DEF Aware, Agree, UnsettledPCs
  <2> QED BY <2>2, <2>3
<1>7. CASE RestoreTarget(q)
  <2>1. PICK o \in restore_snapshot(target, proc[q].original) : Attempt(o) /\ target' = o.file
    BY <1>7 DEF RestoreTarget
  <2>2. proc[q].pc = "restore" /\ receipt' = receipt /\ proc'[q].pc = "release"
    BY <1>7 DEF RestoreTarget, Finish, TypeOK, ProcType
  <2>3. o.ok
    BY <2>1, <2>2, HostApplyAssumption DEF Attempt, Aware, TypeOK, Undoable
  <2>4. target' = proc[q].original
    BY <2>1, <2>3, RestoredFile
  <2> QED BY <2>2, <2>4 DEF Aware, Agree, UnsettledPCs
<1>8. CASE RemoveBackup(q) \/ DropLock(q)
  <2>1. /\ proc[q].pc \notin UnsettledPCs /\ target' = target /\ receipt' = receipt
        /\ proc'[q].pc \in {"release", "prune", "idle"}
    BY <1>8 DEF RemoveBackup, DropLock, Goto, Finish, Idle, TypeOK, ProcType, files, UnsettledPCs
  <2> QED BY <2>1 DEF Aware, Agree, UnsettledPCs
<1> QED BY <1>1, <1>2, <1>3, <1>4, <1>5, <1>6, <1>7, <1>8 DEF Applying

LEMMA NextAgree ==
    ASSUME Undoable, TypeOK, LockMutex, Planned, AgreeInv, [Next]_vars
    PROVE  AgreeInv'
<1> SUFFICES ASSUME edits' = 0
             PROVE  /\ \A q \in Procs : Aware(q)'
                    /\ (\A q \in Procs : proc'[q].pc \notin UnsettledPCs) => Agree'
  BY DEF AgreeInv
<1>1. ~UserEdit /\ ~UserDropsReceipt
  BY DEF UserEdit, UserDropsReceipt, TypeOK
<1>2. edits = 0
  <2>1. ASSUME NEW p \in Procs, Applying(p) PROVE edits' = edits
    BY <2>1 DEF Applying, AssertTarget, AssertReceipt, Backup, WriteTarget, WriteReceipt, Compare,
                RestoreTarget, RemoveBackup, DropLock
  <2> QED BY <1>1, <2>1, Writers DEF FilesStay
<1>3. /\ \A q \in Procs : Aware(q)
      /\ (\A q \in Procs : proc[q].pc \notin UnsettledPCs) => Agree
  BY <1>2 DEF AgreeInv
<1>4. ASSUME NEW p \in Procs, Applying(p), proc[p].pc \notin UnsettledPCs PROVE Agree
  <2>1. \A q \in Procs : q # p => proc[q].pc \notin UnsettledPCs
    <3>1. Holding(p)
      BY <1>4 DEF Applying, Holding, AssertTarget, AssertReceipt, Backup, WriteTarget, WriteReceipt,
                  Compare, RestoreTarget, RemoveBackup, DropLock
    <3> QED BY <3>1 DEF LockMutex, Holding, UnsettledPCs
  <2> QED BY <1>3, <1>4, <2>1
<1>5. ASSUME NEW q \in Procs PROVE Aware(q)'
  <2>1. CASE Applying(q)
    BY <1>3, <1>4, <2>1, AwareApplying
  <2>2. CASE Away(q)
    BY <1>1, <1>3, <2>2 DEF Away, FilesStay, Aware
  <2>3. CASE proc'[q].pc \notin UnsettledPCs \cup {"assert_receipt", "backup", "write"}
    BY <2>3 DEF Aware, UnsettledPCs
  <2> QED BY <2>1, <2>2, <2>3, HolderSteps DEF Holding, UnsettledPCs
<1>6. ASSUME \A q \in Procs : proc'[q].pc \notin UnsettledPCs PROVE Agree'
  <2>1. CASE \E p \in Procs : Applying(p)
    <3>1. PICK p \in Procs : Applying(p)
      BY <2>1
    <3> QED BY <1>3, <1>4, <1>6, <3>1, AwareApplying
  <2>2. CASE FilesStay /\ ~\E p \in Procs : Applying(p)
    <3>1. ASSUME NEW q \in Procs PROVE proc[q].pc \notin UnsettledPCs
      <4>1. ~Crash(q)
        BY DEF Undoable, Crash
      <4>2. proc[q].pc \in UnsettledPCs => Holding(q)
        BY DEF Holding, UnsettledPCs
      <4>3. Holding(q) => Away(q)
        BY <2>2, <4>1, HolderSteps
      <4> QED BY <1>6, <4>2, <4>3 DEF Away
    <3> QED BY <1>3, <2>2, <3>1 DEF FilesStay, Agree
  <2> QED BY <1>1, <2>1, <2>2, Writers
<1> QED BY <1>5, <1>6

\* As long as the user leaves the files alone, whenever nobody applies the
\* receipt records the entry that is in the file, so the next connect or
\* disconnect is not refused: through one failure of any write, with the
\* refused, aborted and undone applies of any number of managers.
THEOREM ReceiptMatchesFile ==
    ASSUME Undoable
    PROVE  Spec => []ReceiptAgrees
<1> DEFINE Inv == TypeOK /\ LockMutex /\ Planned /\ AgreeInv
<1>1. Init => Inv
  BY InitType, PlannedInit DEF Init, LockMutex, Holding, Idle, AgreeInv, Aware, Agree, UnsettledPCs
<1>2. Inv /\ [Next]_vars => Inv'
  BY NextType, NextMutex, NextPlanned, NextAgree
<1>3. Inv => ReceiptAgrees
  <2> SUFFICES ASSUME Inv, lock = NoLock, receipt # Absent, edits = 0
               PROVE  Document(target).entry = receipt.owned
    BY DEF ReceiptAgrees
  <2>1. \A q \in Procs : ~Holding(q)
    BY HostApplyAssumption DEF LockMutex
  <2>2. \A q \in Procs : proc[q].pc \notin UnsettledPCs
    BY <2>1 DEF Holding, UnsettledPCs
  <2> QED BY <2>2 DEF AgreeInv, Agree
<1> QED BY <1>1, <1>2, <1>3, PTL DEF Spec

-----------------------------------------------------------------------------
(* HostApply implements OwnedEntry.                                        *)

\* Pending as a function of the processes, for this state and the next.
UnsettledIn(pr) == {p \in Procs : pr[p].pc \in UnsettledPCs}

ChangeOf(c) == [from |-> Document(c.original).entry, to |-> Claimed(c.plan.receipt_after)]

PendingIn(pr) ==
    IF UnsettledIn(pr) = {} THEN Nothing ELSE ChangeOf(pr[CHOOSE q \in UnsettledIn(pr) : TRUE])

LEMMA PendingIsPendingIn == Pending = PendingIn(proc) /\ Pending' = PendingIn(proc')
BY DEF Pending, PendingIn, Unsettled, UnsettledIn, UnsettledPCs, ChangeOf

\* The lock leaves at most one change under way.
Alone(pr) == \A a, b \in Procs : pr[a].pc \in UnsettledPCs /\ pr[b].pc \in UnsettledPCs => a = b

LEMMA MutexAlone == (LockMutex => Alone(proc)) /\ (LockMutex' => Alone(proc'))
BY DEF LockMutex, Holding, Alone, UnsettledPCs

LEMMA PendingOf ==
    ASSUME NEW pr, Alone(pr), NEW p \in Procs, pr[p].pc \in UnsettledPCs
    PROVE  PendingIn(pr) = ChangeOf(pr[p])
<1>1. UnsettledIn(pr) = {p}
  BY DEF Alone, UnsettledIn
<1> QED BY <1>1 DEF PendingIn

LEMMA PendingNone ==
    ASSUME NEW pr, \A p \in Procs : pr[p].pc \notin UnsettledPCs
    PROVE  PendingIn(pr) = Nothing
BY DEF PendingIn, UnsettledIn

LEMMA ChangeIsSome ==
    ASSUME TypeOK, NEW p \in Procs
    PROVE  ChangeOf(proc[p]) # Nothing
<1>1. Document(proc[p].original).entry \in Entries \cup Foreign \cup {NoEntry}
  BY DocumentType DEF TypeOK, ProcType, Bytes
<1>2. Claimed(proc[p].plan.receipt_after) \in Entries \cup {NoEntry}
  BY ClaimedType DEF TypeOK, ProcType, PlanType
<1> QED BY <1>1, <1>2, NothingAssumption DEF ChangeOf

\* A step of p that neither begins a change nor touches another one's.
LEMMA PendingStays ==
    ASSUME LockMutex, LockMutex', NEW p \in Procs, \A q \in Procs : q # p => proc'[q] = proc[q],
           \/ proc'[p].pc \notin UnsettledPCs
           \/ proc[p].pc \in UnsettledPCs /\ Keeps(p)
    PROVE  Pending' \in {Pending, Nothing}
<1>1. Alone(proc) /\ Alone(proc')
  BY MutexAlone
<1>2. CASE \E q \in Procs : q # p /\ proc[q].pc \in UnsettledPCs
  <2>1. PICK q \in Procs : q # p /\ proc[q].pc \in UnsettledPCs
    BY <1>2
  <2>2. PendingIn(proc) = ChangeOf(proc[q]) /\ PendingIn(proc') = ChangeOf(proc'[q])
    BY <1>1, <2>1, PendingOf
  <2> QED BY <2>1, <2>2, PendingIsPendingIn
<1>3. CASE (\A q \in Procs : q # p => proc[q].pc \notin UnsettledPCs) /\ proc'[p].pc \notin UnsettledPCs
  <2>1. \A q \in Procs : proc'[q].pc \notin UnsettledPCs
    BY <1>3
  <2> QED BY <2>1, PendingNone, PendingIsPendingIn
<1>4. CASE proc'[p].pc \in UnsettledPCs
  <2>1. PendingIn(proc) = ChangeOf(proc[p]) /\ PendingIn(proc') = ChangeOf(proc'[p])
    BY <1>1, <1>4, PendingOf
  <2>2. ChangeOf(proc'[p]) = ChangeOf(proc[p])
    BY <1>4 DEF Keeps, ChangeOf
  <2> QED BY <2>1, <2>2, PendingIsPendingIn
<1> QED BY <1>2, <1>3, <1>4

\* Such a step of p, when it leaves the files alone too, abandons a change or
\* is not seen.
LEMMA QuietStep ==
    ASSUME target' = target, receipt' = receipt, edits' = edits, Pending' \in {Pending, Nothing}
    PROVE  [Owned!Next]_(Owned!view)
<1>1. CASE Pending' = Pending
  BY <1>1 DEF Owned!view, Document, Claimed
<1>2. CASE Pending' = Nothing
  BY <1>2 DEF Owned!Next, Owned!Abandon, Document, Claimed
<1> QED BY <1>1, <1>2

LEMMA WriteTargetStep ==
    ASSUME OneEntry, WindowInv, LockMutex', NEW p \in Procs, WriteTarget(p)
    PROVE  [Owned!Next]_(Owned!view)
<1>1. /\ proc[p].pc = "write" /\ proc[p].pc \notin Planning /\ receipt' = receipt /\ edits' = edits
      /\ target = proc[p].original /\ receipt = proc[p].receipt_original
  BY DEF WriteTarget, WindowInv, Checked, Settled, Planning
<1>2. PICK o \in WrittenTarget(p) :
        target' = o.file /\ IF o.ok THEN Goto(p, "write_receipt") ELSE Finish(p, "aborted")
  BY DEF WriteTarget
<1>3. /\ \A q \in Procs : q # p => proc'[q] = proc[q]
      /\ Keeps(p) /\ proc'[p].pc = IF o.ok THEN "write_receipt" ELSE "release"
  BY <1>2 DEF Goto, Finish, WindowInv, TypeOK, ProcType, Keeps
<1>4. \A q \in Procs : proc[q].pc \notin UnsettledPCs
  BY <1>1 DEF WindowInv, LockMutex, Holding, UnsettledPCs
<1>5. Pending = Nothing
  BY <1>4, PendingNone, PendingIsPendingIn
<1>6. Pending' = IF o.ok THEN ChangeOf(proc[p]) ELSE Nothing
  <2>1. CASE o.ok
    <3>1. PendingIn(proc') = ChangeOf(proc'[p])
      BY <1>3, <2>1, MutexAlone, PendingOf DEF UnsettledPCs
    <3> QED BY <1>3, <2>1, <3>1, PendingIsPendingIn DEF Keeps, ChangeOf
  <2>2. CASE ~o.ok
    <3>1. \A q \in Procs : proc'[q].pc \notin UnsettledPCs
      BY <1>3, <1>4, <2>2 DEF UnsettledPCs
    <3> QED BY <2>2, <3>1, PendingNone, PendingIsPendingIn
  <2> QED BY <2>1, <2>2
<1>7. CASE o.file = target /\ ~o.ok
  BY <1>1, <1>2, <1>5, <1>6, <1>7, QuietStep
<1>8. CASE Intended(p, Document(o.file))
  <2> DEFINE to == Claimed(proc[p].plan.receipt_after)
  <2>1. to \in Entries \cup {NoEntry}
    BY ClaimedType DEF WindowInv, TypeOK, ProcType, PlanType
  <2>2. Document(target).entry \in {Claimed(receipt), to}
    BY <1>1, AppliesSensible DEF WindowInv, Sensible
  <2>3. Document(target').entry = to /\ Document(target').rest = Document(target).rest
    BY <1>1, <1>2, <1>8 DEF Intended
  <2>4. Pending' \in {Nothing, [from |-> Document(target).entry, to |-> to]}
    BY <1>1, <1>6 DEF ChangeOf
  <2>5. Claimed(receipt') = Claimed(receipt)
    BY <1>1
  <2> HIDE DEF to
  <2>6. Owned!Change
    BY <1>1, <1>5, <2>1, <2>2, <2>3, <2>4, <2>5 DEF Owned!Change, Document, Claimed
  <2> QED BY <2>6 DEF Owned!Next
<1> QED BY <1>1, <1>2, <1>7, <1>8, WrittenDocument DEF WindowInv

LEMMA WriteReceiptStep ==
    ASSUME WindowInv, LockMutex', NEW p \in Procs, WriteReceipt(p)
    PROVE  [Owned!Next]_(Owned!view)
<1>1. proc[p].pc = "write_receipt" /\ target' = target /\ edits' = edits
  BY DEF WriteReceipt
<1>2. PICK o \in restore_snapshot(receipt, proc[p].plan.receipt_after) :
        receipt' = o.file /\ Goto(p, IF o.ok THEN "remove_backup" ELSE "compare")
  BY DEF WriteReceipt
<1>3. /\ \A q \in Procs : q # p => proc'[q] = proc[q]
      /\ Keeps(p)
  BY <1>2 DEF Goto, WindowInv, TypeOK, ProcType, Keeps
<1>4. Pending' \in {Pending, Nothing}
  BY <1>1, <1>3, PendingStays DEF WindowInv, UnsettledPCs
<1>5. CASE receipt' = receipt
  BY <1>1, <1>4, <1>5, QuietStep
<1>6. CASE receipt' = proc[p].plan.receipt_after
  <2>1. Pending = ChangeOf(proc[p])
    BY <1>1, MutexAlone, PendingOf, PendingIsPendingIn DEF WindowInv, UnsettledPCs
  <2>2. Pending # Nothing /\ Pending.to = Claimed(proc[p].plan.receipt_after)
    BY <2>1, ChangeIsSome DEF WindowInv, ChangeOf
  <2>3. Claimed(receipt') = Pending.to
    BY <1>6, <2>2
  <2>4. Owned!Claim
    BY <1>1, <1>4, <2>2, <2>3 DEF Owned!Claim, Document, Claimed
  <2> QED BY <2>4 DEF Owned!Next
<1> QED BY <1>2, <1>5, <1>6, RestoreFile

LEMMA RestoreStep ==
    ASSUME OneEntry, WindowInv, LockMutex', NEW p \in Procs, RestoreTarget(p)
    PROVE  [Owned!Next]_(Owned!view)
<1>1. proc[p].pc = "restore" /\ receipt' = receipt /\ edits' = edits
  BY DEF RestoreTarget
<1>2. /\ \A q \in Procs : q # p => proc'[q] = proc[q]
      /\ proc'[p].pc = "release"
  BY DEF RestoreTarget, Finish, WindowInv, TypeOK, ProcType
<1>3. Alone(proc) /\ Alone(proc')
  BY MutexAlone DEF WindowInv
<1>4. Pending = ChangeOf(proc[p])
  BY <1>1, <1>3, PendingOf, PendingIsPendingIn DEF UnsettledPCs
<1>5. Pending' = Nothing
  <2>1. \A q \in Procs : proc'[q].pc \notin UnsettledPCs
    BY <1>1, <1>2, <1>3 DEF Alone, UnsettledPCs
  <2> QED BY <2>1, PendingNone, PendingIsPendingIn
<1>6. CASE target' = target
  BY <1>1, <1>5, <1>6, QuietStep
<1>7. CASE target' = proc[p].original /\ Intended(p, Document(target))
  <2>1. Pending # Nothing
    BY <1>4, ChangeIsSome DEF WindowInv
  <2>2. /\ Document(target).entry = Pending.to /\ Document(target').entry = Pending.from
        /\ Document(target').rest = Document(target).rest
    BY <1>4, <1>7 DEF Intended, ChangeOf
  <2>3. Owned!Undo
    BY <1>1, <1>5, <2>1, <2>2 DEF Owned!Undo, Document, Claimed
  <2> QED BY <2>3 DEF Owned!Next
<1> QED BY <1>1, <1>6, <1>7, NextTarget DEF WindowInv, Applying

\* Every step of HostApply is a step of OwnedEntry or changes nothing of it.
LEMMA StepSimulation ==
    ASSUME OneEntry, WindowInv, LockMutex', [Next]_vars
    PROVE  [Owned!Next]_(Owned!view)
<1>1. ASSUME NEW p \in Procs,
             \/ ReadTarget(p) \/ ReadReceipt(p) \/ Plan(p) \/ EnsureParent(p) \/ CreateLock(p)
             \/ Prune(p) \/ Crash(p)
      PROVE  [Owned!Next]_(Owned!view)
  <2>1. FilesStay /\ (\A q \in Procs : q # p => proc'[q] = proc[q]) /\ proc'[p].pc \notin UnsettledPCs
    BY <1>1, Unlocked DEF WindowInv, UnsettledPCs
  <2>2. Pending' \in {Pending, Nothing}
    BY <2>1, PendingStays DEF WindowInv
  <2> QED BY <2>1, <2>2, QuietStep DEF FilesStay
<1>2. ASSUME NEW p \in Procs,
             AssertTarget(p) \/ AssertReceipt(p) \/ Backup(p) \/ Compare(p) \/ RemoveBackup(p) \/ DropLock(p)
      PROVE  [Owned!Next]_(Owned!view)
  <2>1. target' = target /\ receipt' = receipt /\ edits' = edits
    BY <1>2 DEF AssertTarget, AssertReceipt, Backup, Compare, RemoveBackup, DropLock, files
  <2>2. \A q \in Procs : q # p => proc'[q] = proc[q]
    BY <1>2, OthersKept DEF WindowInv, Applying
  <2>3. proc'[p].pc \notin UnsettledPCs \/ (proc[p].pc \in UnsettledPCs /\ Keeps(p))
    <3>1. CASE Compare(p)
      BY <3>1 DEF Compare, Goto, Finish, UnsettledPCs, Keeps, WindowInv, TypeOK, ProcType
    <3>2. CASE AssertTarget(p) \/ AssertReceipt(p) \/ Backup(p) \/ RemoveBackup(p) \/ DropLock(p)
      BY <3>2 DEF AssertTarget, AssertReceipt, Backup, RemoveBackup, DropLock, Goto, Finish, Idle,
                  UnsettledPCs, WindowInv, TypeOK, ProcType
    <3> QED BY <1>2, <3>1, <3>2
  <2>4. Pending' \in {Pending, Nothing}
    BY <2>2, <2>3, PendingStays DEF WindowInv
  <2> QED BY <2>1, <2>4, QuietStep
<1>3. ASSUME NEW p \in Procs, WriteTarget(p) \/ WriteReceipt(p) \/ RestoreTarget(p)
      PROVE  [Owned!Next]_(Owned!view)
  BY <1>3, WriteTargetStep, WriteReceiptStep, RestoreStep
<1>4. CASE UserEdit \/ UserDropsReceipt
  <2>1. proc' = proc /\ edits' = edits + 1 /\ receipt' \in {receipt, Absent}
    BY <1>4 DEF UserEdit, UserDropsReceipt
  <2>2. Pending' = Pending
    BY <2>1, PendingIsPendingIn
  <2>3. Owned!User
    BY <2>1, <2>2 DEF Owned!User, Claimed
  <2> QED BY <2>3 DEF Owned!Next
<1>5. CASE ClearStaleLock \/ UNCHANGED vars
  <2>1. proc' = proc /\ target' = target /\ receipt' = receipt /\ edits' = edits
    BY <1>5 DEF ClearStaleLock, vars, files
  <2>2. Pending' = Pending
    BY <2>1, PendingIsPendingIn
  <2> QED BY <2>1, <2>2, QuietStep
<1> QED BY <1>1, <1>2, <1>3, <1>4, <1>5 DEF Next, Apply

\* Connecting an editor keeps its promise: whatever the interleaving of
\* managers, failures, deaths and edits outside the compared window, every step
\* is one of OwnedEntry's, under the hypotheses of UserContentSurvives.
THEOREM HostImplementsOwnedEntry ==
    ASSUME "edit_in_window" \notin UserMay, OneEntry, PlainReceipts
    PROVE  Spec => ImplementsOwnedEntry
<1>1. Init => Owned!Init
  <2> SUFFICES ASSUME Init PROVE Owned!Init
    OBVIOUS
  <2>1. Pending = Nothing
    <3>1. \A p \in Procs : proc[p].pc \notin UnsettledPCs
      BY DEF Init, Idle, UnsettledPCs
    <3> QED BY <3>1, PendingNone, PendingIsPendingIn
  <2>2. Claimed(receipt) \in {NoEntry, Document(target).entry}
    BY DEF Init, Claimed
  <2> QED BY <2>1, <2>2 DEF Owned!Init, Init
<1>2. WindowInv /\ WindowInv' /\ [Next]_vars => [Owned!Next]_(Owned!view)
  BY StepSimulation DEF WindowInv
<1> QED BY <1>1, <1>2, WindowInit, WindowNext, PTL DEF Spec, ImplementsOwnedEntry, Owned!Spec

=============================================================================
