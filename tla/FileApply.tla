----------------------------- MODULE FileApply -----------------------------
(***************************************************************************)
(* Applying a plan to an instruction file, the skill or settings.json      *)
(* (InstructionPlan::apply of src/instructions.rs and HookPlan::apply of   *)
(* src/hooks.rs): compare the file and the receipt with what the plan was  *)
(* made from, write the backup, the target and the receipt, put the target *)
(* back when the receipt cannot be written, and drop a redundant backup.   *)
(* The user edits between any two steps; a write can fail before or after  *)
(* it is published, and the process can die.                               *)
(***************************************************************************)
EXTENDS InstructionPlan, HookPlan

CONSTANTS
    UserMay,    \* what the user does, per kind of file
    Faults,     \* what can fail, per kind of file
    MaxEdits,   \* bound on what the user does
    MaxEntries  \* bound on the entries in settings that are installed into

\* "edit_at_work" is new text saved while a command is at work; everything else
\* the user does falls between two commands or between a plan and its first look.
AllUserActs == {"edit", "edit_at_work", "edit_gap", "edit_block", "break_block",
                "duplicate_block", "drop_block", "delete", "drop_receipt", "paste", "crash"}
AllFaults == {"before_publish", "after_publish"}

ASSUME FileApplyAssumption ==
    /\ DOMAIN UserMay \subseteq Kinds /\ DOMAIN Faults = DOMAIN UserMay
    /\ \A k \in DOMAIN UserMay : UserMay[k] \subseteq AllUserActs /\ Faults[k] \subseteq AllFaults
    /\ MaxEdits \in Nat /\ MaxEdits < MaxText /\ MaxEntries \in Nat

VARIABLES
    kind,       \* what file it is
    target,     \* the file
    receipt,    \* the owner receipt beside it
    backup,     \* the backup beside it
    proc,       \* the command: where it is, its plan and what the plan was made from
    edits,      \* what the user did so far
    pristine,   \* history: the file before the install the receipt goes back to
    since       \* history: what happened since: edits, another install, an edit
                \* saved after the command's last look at the file

vars == <<kind, target, receipt, backup, proc, edits, pristine, since>>

\* The outcomes of a write, a removal and a restore.
Fs == INSTANCE FsSafe WITH Faults <- Faults[kind]

Idle == [pc |-> "idle", plan |-> NoPlan, original |-> Absent, receipt |-> NoReceipt,
         status |-> "none"]
Untouched == [edited |-> "no", again |-> FALSE, unseen |-> FALSE]

\* The user's file, with any ending, or none.
Init ==
    /\ kind \in DOMAIN UserMay
    /\ target \in {Absent} \cup {[exists |-> TRUE, body |-> 1, gap |-> g, blocks |-> <<>>] :
                                   g \in IF kind \in Marked THEN 0..2 ELSE {0}}
    /\ receipt = NoReceipt /\ backup = Absent
    /\ proc = Idle /\ edits = 0
    /\ pristine = Absent /\ since = Untouched

-----------------------------------------------------------------------------
(* The command.                                                            *)

\* What the command plans: an install of v, or a removal.
PlanFor(v, force, c, old, kept) ==
    CASE v # "none" /\ kind = "settings" -> hook_install_at(v, c, old)
      [] v # "none" /\ kind # "settings" -> plan_install_at(kind, v, c, old, force)
      [] v = "none" /\ kind = "settings" -> hook_remove_at(c, old, kept, force)
      [] OTHER -> plan_remove_at(kind, c, old, kept, force)

\* plan_install or plan_remove, then the confirmation: a refusal or a plan with
\* nothing to do ends here.
Plan ==
    /\ proc.pc = "idle"
    /\ \E force \in BOOLEAN, v \in Versions \cup {"none"} :
         LET plan == PlanFor(v, force, target, receipt, backup)
         IN  /\ kind = "settings" /\ v # "none" => Len(target.blocks) <= MaxEntries
             /\ proc' = IF plan.act = "apply"
                          THEN [pc |-> "planned", plan |-> plan, original |-> target,
                                receipt |-> receipt, status |-> "none"]
                          ELSE Idle
    /\ UNCHANGED <<kind, target, receipt, backup, edits, pristine, since>>

End(status) == proc' = [Idle EXCEPT !.status = status]
Goto(pc) == proc' = [proc EXCEPT !.pc = pc]

\* A file or a receipt that is not as planned is refused.
AssertTarget ==
    /\ proc.pc = "planned"
    /\ IF target = proc.original
         THEN Goto("assert_receipt") /\ since' = [since EXCEPT !.unseen = FALSE]
         ELSE End("changed") /\ UNCHANGED since
    /\ UNCHANGED <<kind, target, receipt, backup, edits, pristine>>

AssertReceipt ==
    /\ proc.pc = "assert_receipt"
    /\ IF receipt = proc.receipt THEN Goto("backup") ELSE End("changed")
    /\ UNCHANGED <<kind, target, receipt, backup, edits, pristine, since>>

MutBacksUp(plan, original) == plan.write # "leave" /\ original.exists

\* A removal keeps the backup it has, and an adoption overwrites nothing.
BacksUp(plan, original) == plan.tier = "none" /\ plan.write # "leave" /\ original.exists

\* The bytes about to be overwritten.  An error of this write or of the next
\* returns at once.  History: an install over one that has a receipt has come to
\* its backup.
WriteBackup ==
    /\ proc.pc = "backup"
    /\ IF BacksUp(proc.plan, proc.original)
         THEN \E o \in Fs!atomic_write(backup, proc.original) :
                /\ backup' = o.file
                /\ IF o.ok THEN Goto("write") ELSE End("aborted")
         ELSE Goto("write") /\ UNCHANGED backup
    /\ since' = [since EXCEPT !.again = @ \/ (proc.plan.tier = "none" /\ proc.receipt # NoReceipt)]
    /\ UNCHANGED <<kind, target, receipt, edits, pristine>>

\* What a plan leaves where nobody else writes.
After(plan, original) ==
    CASE plan.write = "write" -> plan.bytes
      [] plan.write = "remove" -> Absent
      [] plan.write = "leave" -> original

WrittenTarget ==
    CASE proc.plan.write = "write" -> Fs!atomic_write(target, proc.plan.bytes)
      [] proc.plan.write = "remove" -> Fs!atomic_remove(target)
      [] proc.plan.write = "leave" -> {Fs!Outcome(TRUE, target)}

\* Nobody looks at the file again before it is replaced.  A write that was
\* published and is reported as failed is not undone.
WriteTarget ==
    /\ proc.pc = "write"
    /\ \E o \in WrittenTarget :
         /\ target' = o.file
         /\ \/ o.ok /\ Goto("write_receipt")
            \/ ~o.ok /\ o.file = target /\ End("aborted")
            \/ ~o.ok /\ o.file # target /\ End("unsynced")
    /\ since' = [since EXCEPT !.unseen = FALSE]
    /\ UNCHANGED <<kind, receipt, backup, edits, pristine>>

\* The receipt; when that fails the target is put back, the settings without
\* another look.  A receipt that was published stays.
WriteReceipt ==
    /\ proc.pc = "write_receipt"
    /\ \E o \in Fs!atomic_write(receipt, proc.plan.receipt) :
         /\ receipt' = o.file
         /\ \/ o.ok /\ Goto("remove_backup")
            \/ ~o.ok /\ kind # "settings" /\ Goto("compare")
            \/ ~o.ok /\ kind = "settings" /\ proc.plan.write # "leave" /\ Goto("restore")
            \/ ~o.ok /\ kind = "settings" /\ proc.plan.write = "leave" /\ End("failed")
    /\ IF proc.receipt = NoReceipt /\ receipt' = proc.plan.receipt
         THEN /\ pristine' = proc.original
              /\ since' = [since EXCEPT !.again = FALSE,
                     !.edited = IF target = After(proc.plan, proc.original) THEN "no" ELSE "body"]
         ELSE UNCHANGED <<pristine, since>>
    /\ UNCHANGED <<kind, target, backup, edits>>

MutCompare ==
    /\ proc.pc = "compare"
    /\ End("failed")
    /\ UNCHANGED <<kind, target, receipt, backup, edits, pristine, since>>

\* The instruction files are only put back if they are still what was written;
\* a file just created never compares equal, because its mode is not the absent
\* file's.
Compare ==
    /\ proc.pc = "compare"
    /\ IF /\ target = After(proc.plan, proc.original)
          /\ proc.plan.write # "write" \/ proc.original.exists
         THEN Goto("restore") ELSE End("failed")
    /\ UNCHANGED <<kind, target, receipt, backup, edits, pristine, since>>

Restore ==
    /\ proc.pc = "restore"
    /\ \E o \in Fs!restore_snapshot(target, proc.original) :
         /\ target' = o.file
         /\ End(IF o.ok THEN "failed" ELSE "undo_failed")
    /\ UNCHANGED <<kind, receipt, backup, edits, pristine, since>>

\* The backup that is no longer needed; everything else is done when this fails.
RemoveBackup ==
    /\ proc.pc = "remove_backup"
    /\ IF proc.plan.remove_backup
         THEN \E o \in Fs!atomic_remove(backup) :
                backup' = o.file /\ End(IF o.ok THEN "applied" ELSE "kept_backup")
         ELSE End("applied") /\ UNCHANGED backup
    /\ UNCHANGED <<kind, target, receipt, edits, pristine, since>>

Crash ==
    /\ "crash" \in UserMay[kind] /\ proc.pc # "idle"
    /\ proc' = Idle
    /\ UNCHANGED <<kind, target, receipt, backup, edits, pristine, since>>

-----------------------------------------------------------------------------
(* The user.                                                               *)

Does(name) == name \in UserMay[kind] /\ edits < MaxEdits /\ edits' = edits + 1

Act(name) == proc.pc \in {"idle", "planned"} /\ Does(name)

Touch(how) ==
    since' = [since EXCEPT !.edited = IF @ = "no" \/ @ = how THEN how ELSE "more"]

\* The command will replace the file, or put it back, without another look.
InWindow ==
    \/ proc.pc \in {"assert_receipt", "backup", "write", "restore"}
    \/ proc.pc = "write_receipt" /\ kind = "settings"

\* New text; a skill file is replaced as a whole.
NewText == [target EXCEPT !.exists = TRUE, !.body = edits + 2,
                          !.blocks = IF kind = "skill" THEN <<>> ELSE @]

Edit ==
    /\ Act("edit")
    /\ target' = NewText /\ Touch("body")
    /\ UNCHANGED <<kind, receipt, backup, proc, pristine>>

EditAtWork ==
    /\ proc.pc \notin {"idle", "planned"} /\ Does("edit_at_work")
    /\ target' = NewText
    /\ since' = [since EXCEPT !.edited = IF @ \in {"no", "body"} THEN "body" ELSE "more",
                              !.unseen = @ \/ InWindow]
    /\ UNCHANGED <<kind, receipt, backup, proc, pristine>>

EditGap ==
    /\ Act("edit_gap") /\ target.exists
    /\ \E g \in 0..2 \ {target.gap} : target' = [target EXCEPT !.gap = g]
    /\ Touch("more")
    /\ UNCHANGED <<kind, receipt, backup, proc, pristine>>

\* Change a block, spoil one of its markers, copy it, or take it out.
EditBlocks ==
    /\ Len(target.blocks) = 1
    /\ LET b == target.blocks[1]
       IN  \/ Act("edit_block") /\ target' = [target EXCEPT !.blocks = <<[b EXCEPT !.state = "edited"]>>]
           \/ Act("break_block") /\ target' = [target EXCEPT !.blocks = <<[b EXCEPT !.state = "broken"]>>]
           \/ Act("duplicate_block") /\ target' = [target EXCEPT !.blocks = <<b, b>>]
           \/ Act("drop_block") /\ target' = [target EXCEPT !.blocks = <<>>]
    /\ Touch("more")
    /\ UNCHANGED <<kind, receipt, backup, proc, pristine>>

Delete ==
    /\ Act("delete") /\ target.exists
    /\ target' = Absent /\ Touch("more")
    /\ UNCHANGED <<kind, receipt, backup, proc, pristine>>

DropReceipt ==
    /\ Act("drop_receipt") /\ receipt # NoReceipt
    /\ receipt' = NoReceipt /\ Touch("more")
    /\ UNCHANGED <<kind, target, backup, proc, pristine>>

\* A block pasted from the documentation.
Paste ==
    /\ Act("paste") /\ receipt = NoReceipt /\ target.blocks = <<>>
    /\ \E v \in Versions :
         target' = IF kind = "skill" THEN Whole(v)
                   ELSE [target EXCEPT !.exists = TRUE, !.blocks = <<Exact(v)>>]
    /\ Touch("more")
    /\ UNCHANGED <<kind, receipt, backup, proc, pristine>>

User == Edit \/ EditAtWork \/ EditGap \/ EditBlocks \/ Delete \/ DropReceipt \/ Paste

Apply ==
    \/ AssertTarget \/ AssertReceipt \/ WriteBackup \/ WriteTarget \/ WriteReceipt
    \/ Compare \/ Restore \/ RemoveBackup

Next == Plan \/ Apply \/ Crash \/ User

Spec == Init /\ [][Next]_vars

-----------------------------------------------------------------------------

ManagerStep == edits' = edits

\* A command that puts back what it replaced itself takes nothing of the user's.
LosesText ==
    /\ ManagerStep /\ target.body # 0 /\ target'.body # target.body
    /\ ~(/\ proc.pc = "restore"
         /\ target = After(proc.plan, proc.original) /\ target' = proc.original)

\* No command loses a text it could have seen: what the user typed is in the file
\* after every step as it was before, unless the plan disclosed it as discarded.
\* That covers restores from a backup that is older than an edit, edits between
\* a plan and its application, and edits beside a command that goes on to fail.
\* What is lost is what is saved between the last look at the file and its
\* replacement, which is a look before the write and, for settings.json, none
\* before the undo; and the text of a file the manager created and then installed
\* into again: the flag that it was created outlives the user's additions.
UserTextPreserved ==
    [][LosesText => proc.plan.discards \/ (receipt.created /\ since.again) \/ since.unseen]_vars

\* What the command itself has left in the file so far.
AsLeft ==
    IF proc.pc \in {"backup", "write"} THEN proc.original ELSE After(proc.plan, proc.original)

\* A command that fails at its backup, its target or its receipt leaves the file
\* as it found it, unless somebody edited it meanwhile.  The exceptions are an
\* instruction file it has just created, a write of the target that was published
\* and yet reported as failed ("unsynced"), and an undo that itself fails
\* ("undo_failed").
FailedStepRestores ==
    [][ManagerStep /\ proc'.status \in {"aborted", "failed"} /\ proc.pc # "idle" /\ target = AsLeft
       => target' = proc.original \/ (kind # "settings" /\ ~proc.original.exists)]_vars

\* Removing undoes installing, unless it was forced to discard something or
\* there was another install.  With nothing done to the file since, it is what
\* it was before the first install, byte for byte; with the user's text edited,
\* it is that with the new text.
RemovalRestores ==
    [][proc.pc = "write_receipt" /\ proc'.pc = "remove_backup" /\ proc.plan.tier # "none"
         /\ ~receipt.adopted /\ ~since.again /\ ~proc.plan.discards
       => /\ since.edited = "no" => target = pristine
          /\ since.edited = "body" /\ kind \in Marked /\ target.exists /\ pristine.blocks = <<>>
               => target = [pristine EXCEPT !.exists = TRUE, !.body = target.body]]_vars

\* No install, removal or undo leaves a second copy of an entry, which a removal
\* would refuse for ever, where the file it was planned from had one, even when
\* the receipt of the first was lost.  Two cases are excepted: an exact restore,
\* which brings back whatever was there before the install, and an update from
\* another profile's entry, which only looks for the entry it replaces.
NeverDuplicates ==
    [][ManagerStep => \A v \in Versions :
         Cardinality(identical_indices(target', v)) > 1 =>
           \/ Cardinality(identical_indices(target, v)) > 1
           \/ Cardinality(identical_indices(proc.original, v)) > 1
           \/ proc.pc = "write" /\ proc.plan.tier = "exact" /\ target' = receipt.pre
           \/ /\ proc.pc = "write" /\ proc.plan.tier = "none" /\ kind = "settings"
              /\ receipt.owned \notin {"none", v}]_vars

\* An owned block can always be taken out with --force, whatever the user has
\* done to its text or its markers, as long as one of them is left.
ForceRemoves ==
    kind \in Marked /\ receipt # NoReceipt /\ target.blocks # <<>> =>
      LET plan == plan_remove_at(kind, target, receipt, backup, TRUE)
      IN  /\ plan.act = "apply"
          /\ After(plan, target).blocks # <<>> => After(plan, target) = receipt.pre

=============================================================================
