-------------------------- MODULE FileApplyProofs --------------------------
(***************************************************************************)
(* What installing and removing in a file shared with the user guarantees, *)
(* for every set of versions, whatever the user does and whatever fails.   *)
(***************************************************************************)
EXTENDS FileApply, FiniteSetTheorems, SequenceTheorems,
        WellFoundedInduction, TLAPS

Receipts ==
    [owned : Versions \cup {"none"}, pre : Content, post : Content, separator : 0..2,
     created : BOOLEAN, adopted : BOOLEAN]

Plans ==
    [act : {"none", "refused", "noop", "apply"}, write : {"write", "remove", "leave"},
     bytes : Content, receipt : Receipts, tier : {"none", "exact", "structural", "left"},
     remove_backup : BOOLEAN, discards : BOOLEAN]

PCs == {"idle", "planned", "assert_receipt", "backup", "write", "write_receipt", "compare",
        "restore", "remove_backup"}

Commands ==
    [pc : PCs, plan : Plans, original : Content, receipt : Receipts,
     status : {"none", "changed", "aborted", "unsynced", "failed", "undo_failed", "kept_backup",
               "applied"}]

Histories == [edited : {"no", "body", "more"}, again : BOOLEAN, unseen : BOOLEAN]

Types ==
    /\ kind \in DOMAIN UserMay /\ target \in Content /\ backup \in Content
    /\ receipt \in Receipts /\ proc \in Commands
    /\ edits \in 0..MaxEdits /\ pristine \in Content
    /\ since \in Histories

\* Before the backup is written, and in a removal before the target is.
BackupAsPlanned ==
    \/ proc.pc \in {"planned", "assert_receipt", "backup"}
    \/ proc.pc = "write" /\ proc.plan.tier # "none"

\* A command at work has no outcome yet, and its plan was made from what it
\* remembers and from the backup that was there then.
AtWork ==
    proc.pc # "idle" =>
      /\ proc.status = "none" /\ proc.plan.act = "apply"
      /\ proc.pc = "compare" => kind # "settings"
      /\ \E force \in BOOLEAN, v \in Versions \cup {"none"}, kept \in Content :
           /\ proc.plan = PlanFor(v, force, proc.original, proc.receipt, kept)
           /\ BackupAsPlanned => kept = backup

IInv == Types /\ AtWork

-----------------------------------------------------------------------------
(* The types of what the planners make.                                    *)

LEMMA AbsentTyped == Absent \in Content /\ NoReceipt \in Receipts /\ NoPlan \in Plans
  <1>1. Absent \in Content
    BY ProjectFileAssumption DEF Absent, Content
  <1>2. NoReceipt \in Receipts
    BY <1>1 DEF NoReceipt, Receipts
  <1>3. NoPlan \in Plans
    BY <1>1, <1>2 DEF NoPlan, Plans
  <1> QED BY <1>1, <1>2, <1>3

LEMMA RefusalsTyped ==
    /\ Refused \in Plans /\ Refused.act = "refused"
    /\ Noop \in Plans /\ Noop.act = "noop"
BY AbsentTyped DEF Refused, Noop, NoPlan, Plans

LEMMA InstallTyped ==
    ASSUME NEW w \in {"write", "remove", "leave"}, NEW c \in Content, NEW r \in Receipts,
           NEW d \in BOOLEAN
    PROVE  /\ Install(w, c, r, d) \in Plans
           /\ Install(w, c, r, d).act = "apply" /\ Install(w, c, r, d).write = w
           /\ Install(w, c, r, d).bytes = c /\ Install(w, c, r, d).receipt = r
           /\ Install(w, c, r, d).tier = "none" /\ Install(w, c, r, d).discards = d
BY AbsentTyped DEF Install, NoPlan, Plans

LEMMA RemovalTyped ==
    ASSUME NEW w \in {"write", "remove", "leave"}, NEW c \in Content,
           NEW t \in {"exact", "structural", "left"}, NEW b \in BOOLEAN, NEW d \in BOOLEAN
    PROVE  /\ Removal(w, c, t, b, d) \in Plans
           /\ Removal(w, c, t, b, d).act = "apply" /\ Removal(w, c, t, b, d).write = w
           /\ Removal(w, c, t, b, d).bytes = c /\ Removal(w, c, t, b, d).tier = t
           /\ Removal(w, c, t, b, d).discards = d
BY AbsentTyped DEF Removal, NoPlan, Plans

LEMMA ExactTyped ==
    ASSUME NEW v \in Versions
    PROVE  Exact(v) \in Block /\ <<Exact(v)>> \in Seq(Block) /\ Whole(v) \in Content
  <1>1. Exact(v) \in Block /\ <<Exact(v)>> \in Seq(Block)
    BY DEF Exact, Block
  <1> QED BY <1>1, ProjectFileAssumption DEF Whole, Content

LEMMA ReceiptsTyped ==
    ASSUME NEW v \in Versions, NEW c \in Content, NEW u \in Content, NEW s \in 0..2,
           NEW old \in Receipts
    PROVE  NextReceipt(v, c, u, s, old) \in Receipts /\ Adopted(v, c) \in Receipts
  <1>1. c.exists \in BOOLEAN
    BY DEF Content
  <1>2. old.pre \in Content /\ old.created \in BOOLEAN /\ old.adopted \in BOOLEAN
    BY DEF Receipts
  <1>3. NextReceipt(v, c, u, s, old) \in Receipts
    <2>1. CASE old = NoReceipt
      BY <1>1, <1>2, <2>1 DEF NextReceipt, Receipts
    <2>2. CASE old # NoReceipt
      BY <1>1, <1>2, <2>2 DEF NextReceipt, Receipts
    <2> QED BY <2>1, <2>2
  <1>4. Adopted(v, c) \in Receipts
    BY DEF Adopted, Receipts
  <1> QED BY <1>3, <1>4

LEMMA RestoredTyped ==
    ASSUME NEW r \in Receipts, NEW b \in Content, NEW d \in BOOLEAN
    PROVE  Restored(r, b, d) \in Plans /\ Restored(r, b, d).act = "apply"
  <1>1. /\ Removal("remove", Absent, "exact", TRUE, d) \in Plans
        /\ Removal("remove", Absent, "exact", TRUE, d).act = "apply"
    BY AbsentTyped DEF Removal, NoPlan, Plans
  <1>2. /\ Removal("write", b, "exact", TRUE, d) \in Plans
        /\ Removal("write", b, "exact", TRUE, d).act = "apply"
    BY AbsentTyped DEF Removal, NoPlan, Plans
  <1> QED BY <1>1, <1>2 DEF Restored

LEMMA StructuralTyped ==
    ASSUME NEW r \in Receipts, NEW c \in Content, NEW d \in BOOLEAN
    PROVE  Structural(r, c, d) \in Plans /\ Structural(r, c, d).act = "apply"
  <1>1. /\ Removal("remove", Absent, "structural", FALSE, d) \in Plans
        /\ Removal("remove", Absent, "structural", FALSE, d).act = "apply"
    BY AbsentTyped DEF Removal, NoPlan, Plans
  <1>2. /\ Removal("write", c, "structural", FALSE, d) \in Plans
        /\ Removal("write", c, "structural", FALSE, d).act = "apply"
    BY AbsentTyped DEF Removal, NoPlan, Plans
  <1> QED BY <1>1, <1>2 DEF Structural

LEMMA InstallBlockTyped ==
    ASSUME NEW k, NEW c \in Content, NEW current, NEW v \in Versions
    PROVE  /\ install_block(k, c, current, v).text \in Content
           /\ install_block(k, c, current, v).separator \in 0..2
  <1>1. [c EXCEPT !.blocks = <<Exact(v)>>] \in Content
    BY ExactTyped DEF Content
  <1>2. Separator(c) \in 0..2 /\ c.gap + Separator(c) \in 0..2
    BY DEF Separator, IsEmpty, Content
  <1>3. [exists |-> TRUE, body |-> c.body, gap |-> c.gap + Separator(c),
         blocks |-> <<Exact(v)>>] \in Content
    BY <1>2, ExactTyped DEF Content
  <1> QED BY <1>1, <1>2, <1>3, ExactTyped DEF install_block

LEMMA RemoveBlockTyped ==
    ASSUME NEW k, NEW c \in Content, NEW s \in 0..2
    PROVE  remove_block(k, c, s) \in Content
  <1>1. [Absent EXCEPT !.exists = TRUE] \in Content
    BY AbsentTyped DEF Content
  <1>2. <<>> \in Seq(Block)
    OBVIOUS
  <1>3. (IF c.gap >= s THEN c.gap - s ELSE c.gap) \in 0..2
    BY DEF Content
  <1>4. [c EXCEPT !.blocks = <<>>, !.gap = IF @ >= s THEN @ - s ELSE @] \in Content
    BY <1>2, <1>3 DEF Content
  <1> QED BY <1>1, <1>4 DEF remove_block

LEMMA PlanInstallTyped ==
    ASSUME NEW k \in Kinds, NEW v \in Versions, NEW c \in Content, NEW r \in Receipts,
           NEW force \in BOOLEAN
    PROVE  plan_install_at(k, v, c, r, force) \in Plans
  <1> DEFINE current == current_owned(k, c, r, force)
             new == install_block(k, c, current, v)
             gone == Foreign(k, c, r, current) \/ current \notin {"none", r.owned}
  <1>1. new.text \in Content /\ new.separator \in 0..2
    BY InstallBlockTyped
  <1>2. gone \in BOOLEAN
    OBVIOUS
  <1>3. NextReceipt(v, c, new.text, new.separator, r) \in Receipts /\ Adopted(v, c) \in Receipts
    BY <1>1, ReceiptsTyped
  <1>4. Install("write", new.text, NextReceipt(v, c, new.text, new.separator, r), gone) \in Plans
    <2> HIDE DEF new, gone
    <2> QED BY <1>1, <1>2, <1>3, InstallTyped
  <1>5. Install("leave", c, Adopted(v, c), FALSE) \in Plans
    BY <1>3, InstallTyped
  <1> QED BY <1>4, <1>5, RefusalsTyped DEF plan_install_at

LEMMA PlanRemoveTyped ==
    ASSUME NEW k \in Kinds, NEW c \in Content, NEW r \in Receipts, NEW b \in Content,
           NEW force \in BOOLEAN
    PROVE  plan_remove_at(k, c, r, b, force) \in Plans
  <1> DEFINE current == current_owned(k, c, r, force)
             gone == current # r.owned
             rest == remove_block(k, c, r.separator)
  <1>1. rest \in Content
    BY RemoveBlockTyped DEF Receipts
  <1>2. gone \in BOOLEAN
    OBVIOUS
  <1>3. Restored(r, b, gone) \in Plans /\ Structural(r, rest, gone) \in Plans
    <2> HIDE DEF rest, gone
    <2> QED BY <1>1, <1>2, RestoredTyped, StructuralTyped
  <1>4. /\ Removal("write", b, "exact", TRUE, FALSE) \in Plans
        /\ Removal("leave", c, "left", FALSE, FALSE) \in Plans
    BY AbsentTyped DEF Removal, NoPlan, Plans
  <1> QED BY <1>3, <1>4, RefusalsTyped DEF plan_remove_at

-----------------------------------------------------------------------------
(* Entries of the settings.                                                *)

LEMMA IndicesFinite ==
    ASSUME NEW c \in Content, NEW v, NEW state
    PROVE  /\ Indices(c, v, state) \subseteq 1..Len(c.blocks) /\ Len(c.blocks) \in Nat
           /\ IsFiniteSet(Indices(c, v, state)) /\ Cardinality(Indices(c, v, state)) \in Nat
  <1>1. c.blocks \in Seq(Block)
    BY DEF Content
  <1>2. DOMAIN c.blocks = 1..Len(c.blocks) /\ Len(c.blocks) \in Nat
    BY <1>1
  <1>3. Indices(c, v, state) \subseteq 1..Len(c.blocks)
    BY <1>2 DEF Indices
  <1>4. IsFiniteSet(1..Len(c.blocks))
    <2>1. 1 \in Int /\ Len(c.blocks) \in Int
      BY <1>2
    <2> QED BY <2>1, FS_Interval, Zenon
  <1> QED BY <1>2, <1>3, <1>4, FS_Subset, FS_CardinalityType

LEMMA FirstIsOne ==
    ASSUME NEW c \in Content, NEW S \in SUBSET (1..Len(c.blocks)), S # {}
    PROVE  First(S) \in S /\ \A j \in S : First(S) <= j
  <1>1. S \subseteq Nat
    BY DEF Content
  <1> DEFINE less == {ss \in Nat \X Nat : ss[1] < ss[2]}
  <1>0. IsWellFoundedOn(less, Nat)
    BY NatLessThanWellFounded, Zenon DEF OpToRel
  <1>2. PICK i \in S : \A j \in S : ~(<<j, i>> \in less)
    <2> HIDE DEF less
    <2> QED BY <1>0, <1>1, WFMin
  <1>3. \A j \in S : ~(j < i)
    BY <1>1, <1>2, Zenon
  <1>4. \A j \in S : i <= j
    BY <1>1, <1>3
  <1> QED BY <1>4 DEF First

LEMMA RemoveEntryTyped ==
    ASSUME NEW c \in Content, NEW i \in 1..Len(c.blocks)
    PROVE  remove_entry(c, i) \in Content
  <1>1. c.blocks \in Seq(Block)
    BY DEF Content
  <1>2. SubSeq(c.blocks, 1, i - 1) \in Seq(Block)
    BY <1>1
  <1>3. SubSeq(c.blocks, i + 1, Len(c.blocks)) \in Seq(Block)
    BY <1>1
  <1>4. SubSeq(c.blocks, 1, i - 1) \o SubSeq(c.blocks, i + 1, Len(c.blocks)) \in Seq(Block)
    BY <1>2, <1>3
  <1> QED BY <1>4 DEF remove_entry, Content

LEMMA EntriesTyped ==
    ASSUME NEW c \in Content, NEW v \in Versions
    PROVE  /\ push_entry(c, v) \in Content
           /\ \A i \in 1..Len(c.blocks) : replace_entry(c, i, v) \in Content
  <1>1. c.blocks \in Seq(Block) /\ c.body \in 0..MaxText
    BY DEF Content
  <1>2. Append(c.blocks, Exact(v)) \in Seq(Block)
    BY <1>1, ExactTyped
  <1>3. ASSUME NEW i \in 1..Len(c.blocks)
        PROVE  replace_entry(c, i, v) \in Content
    <2>1. [c.blocks EXCEPT ![i] = Exact(v)] \in Seq(Block)
      BY <1>1, ExactTyped
    <2> QED BY <1>1, <2>1 DEF replace_entry, encode_settings, Content
  <1>4. push_entry(c, v) \in Content
    BY <1>1, <1>2 DEF push_entry, encode_settings, Content
  <1> QED BY <1>3, <1>4

LEMMA HookInstallTyped ==
    ASSUME NEW v \in Versions, NEW c \in Content, NEW r \in Receipts
    PROVE  hook_install_at(v, c, r) \in Plans
  <1> DEFINE matches == matching_indices(c, r)
             i == First(matches)
  <1>1. ASSUME NEW u \in Content
        PROVE  Install("write", u, NextReceipt(v, c, u, 0, r), FALSE) \in Plans
    <2>1. NextReceipt(v, c, u, 0, r) \in Receipts
      BY ReceiptsTyped
    <2> QED BY <2>1, AbsentTyped DEF Install, NoPlan, Plans
  <1>2. Install("leave", c, Adopted(v, c), FALSE) \in Plans
    <2>1. Adopted(v, c) \in Receipts
      BY ReceiptsTyped
    <2> QED BY <2>1, AbsentTyped DEF Install, NoPlan, Plans
  <1>3. Cardinality(matches) = 1 => replace_entry(c, i, v) \in Content
    <2>1. matches \subseteq 1..Len(c.blocks)
      BY IndicesFinite DEF matching_indices
    <2>2. Cardinality(matches) = 1 => matches # {}
      BY FS_EmptySet
    <2> HIDE DEF matches
    <2> QED BY <2>1, <2>2, FirstIsOne, EntriesTyped
  <1>4. push_entry(c, v) \in Content
    BY EntriesTyped
  <1> QED BY <1>1, <1>2, <1>3, <1>4, RefusalsTyped DEF hook_install_at

LEMMA HookRemoveTyped ==
    ASSUME NEW c \in Content, NEW r \in Receipts, NEW b \in Content, NEW force \in BOOLEAN
    PROVE  hook_remove_at(c, r, b, force) \in Plans
  <1> DEFINE matches == matching_indices(c, r)
             found == IF matches # {} THEN matches ELSE resembling_indices(c, r.owned)
             rest == remove_entry(c, First(found))
             gone == matches = {}
  <1>1. found \subseteq 1..Len(c.blocks)
    BY IndicesFinite DEF matching_indices, resembling_indices
  <1>2. ASSUME found # {}  PROVE  rest \in Content
    <2>1. First(found) \in found
      <3> HIDE DEF found
      <3> QED BY <1>1, <1>2, FirstIsOne
    <2>2. First(found) \in 1..Len(c.blocks)
      BY <1>1, <2>1
    <2> QED BY <2>2, RemoveEntryTyped
  <1>3. gone \in BOOLEAN
    OBVIOUS
  <1>4. Restored(r, b, gone) \in Plans
    <2> HIDE DEF gone
    <2> QED BY <1>3, RestoredTyped
  <1>5. found # {} => Structural(r, rest, gone) \in Plans
    <2> HIDE DEF gone, found, rest
    <2> QED BY <1>2, <1>3, StructuralTyped
  <1> QED BY <1>4, <1>5, RefusalsTyped DEF hook_remove_at

LEMMA PlanForTyped ==
    ASSUME kind \in Kinds, NEW v \in Versions \cup {"none"}, NEW force \in BOOLEAN,
           NEW c \in Content, NEW r \in Receipts, NEW b \in Content
    PROVE  PlanFor(v, force, c, r, b) \in Plans
  <1>1. v # "none" => v \in Versions
    OBVIOUS
  <1> QED BY <1>1, HookInstallTyped, HookRemoveTyped, PlanInstallTyped, PlanRemoveTyped
          DEF PlanFor

LEMMA AfterTyped ==
    ASSUME NEW p \in Plans, NEW c \in Content
    PROVE  After(p, c) \in Content
BY AbsentTyped DEF After, Plans

-----------------------------------------------------------------------------
(* The inductive invariant.                                                *)

LEMMA InitIInv == Init => IInv
  <1> SUFFICES ASSUME Init  PROVE IInv
    OBVIOUS
  <1>1. target \in Content
    <2>1. 1 \in 0..MaxText /\ <<>> \in Seq(Block)
      BY ProjectFileAssumption, FileApplyAssumption
    <2>2. [exists |-> TRUE, body |-> 1, gap |-> 0, blocks |-> <<>>] \in Content
      BY <2>1 DEF Content
    <2>3. \A g \in 0..2 : [exists |-> TRUE, body |-> 1, gap |-> g, blocks |-> <<>>] \in Content
      BY <2>1 DEF Content
    <2>4. CASE kind \in Marked
      BY <2>3, <2>4, AbsentTyped DEF Init
    <2>5. CASE kind \notin Marked
      BY <2>2, <2>5, AbsentTyped DEF Init
    <2> QED BY <2>4, <2>5
  <1>2. proc \in Commands /\ proc.pc = "idle"
    BY AbsentTyped DEF Init, Idle, Commands, PCs
  <1>3. edits \in 0..MaxEdits /\ kind \in DOMAIN UserMay
    BY FileApplyAssumption DEF Init
  <1>4. since \in Histories
    BY DEF Init, Untouched, Histories
  <1>5. receipt \in Receipts /\ backup \in Content /\ pristine \in Content
    BY AbsentTyped DEF Init
  <1> QED BY <1>1, <1>2, <1>3, <1>4, <1>5 DEF IInv, Types, AtWork, Init, Idle

-----------------------------------------------------------------------------
(* Writes and what the process sees of them.                               *)

LEMMA WriteOutcome ==
    ASSUME NEW old, NEW new, NEW o \in Fs!atomic_write(old, new)
    PROVE  o.file \in {old, new} /\ (o.ok => o.file = new)
BY DEF Fs!atomic_write, Fs!Outcome

LEMMA RemoveOutcome ==
    ASSUME NEW old, NEW o \in Fs!atomic_remove(old)
    PROVE  o.file \in {old, Absent} /\ (o.ok => o.file = Absent)
BY DEF Fs!atomic_remove, Fs!atomic_write, Fs!Outcome

LEMMA RestoreOutcome ==
    ASSUME NEW old, NEW snapshot, NEW o \in Fs!restore_snapshot(old, snapshot)
    PROVE  o.file \in {old, snapshot} /\ (o.ok => o.file = snapshot)
BY DEF Fs!restore_snapshot, Fs!atomic_remove, Fs!atomic_write, Fs!Outcome

\* A plan that leaves the file alone leaves it as it now is.
LEMMA TargetOutcome ==
    ASSUME IInv, NEW o \in WrittenTarget
    PROVE  /\ proc.plan.write = "leave" => o.ok /\ o.file = target
           /\ proc.plan.write # "leave" =>
                /\ o.file \in {target, After(proc.plan, proc.original)}
                /\ o.ok => o.file = After(proc.plan, proc.original)
  <1>1. proc.plan.write \in {"write", "remove", "leave"}
    BY DEF IInv, Types, Commands, Plans
  <1>2. CASE proc.plan.write = "write"
    BY <1>2, WriteOutcome DEF WrittenTarget, After
  <1>3. CASE proc.plan.write = "remove"
    BY <1>3, RemoveOutcome DEF WrittenTarget, After
  <1>4. CASE proc.plan.write = "leave"
    BY <1>4 DEF WrittenTarget, Fs!Outcome
  <1> QED BY <1>1, <1>2, <1>3, <1>4

\* How a command ends, and how it goes on.
LEMMA EndTyped ==
    ASSUME NEW status \in {"changed", "aborted", "unsynced", "failed", "undo_failed",
                           "kept_backup", "applied"},
           End(status)
    PROVE  proc' \in Commands /\ proc'.pc = "idle" /\ proc'.status = status
BY AbsentTyped DEF End, Idle, Commands, PCs

LEMMA GoesOn ==
    ASSUME IInv, proc.pc # "idle", NEW pc \in PCs \ {"idle"}, Goto(pc), kind' = kind,
           \/ backup' = backup
           \/ pc \notin {"planned", "assert_receipt", "backup"} /\ proc.plan.tier = "none",
           pc \in {"planned", "assert_receipt", "backup", "write"} => BackupAsPlanned,
           pc = "compare" => kind # "settings"
    PROVE  /\ proc' \in Commands /\ proc'.pc = pc /\ proc'.plan = proc.plan
           /\ proc'.original = proc.original /\ proc'.receipt = proc.receipt
           /\ AtWork'
  <1>1. /\ proc' \in Commands /\ proc'.pc = pc /\ proc'.plan = proc.plan
        /\ proc'.original = proc.original /\ proc'.receipt = proc.receipt
        /\ proc'.status = proc.status
    BY DEF Goto, IInv, Types, Commands
  <1>2. AtWork'
    <2>1. PICK force \in BOOLEAN, v \in Versions \cup {"none"}, kept \in Content :
            /\ proc.plan = PlanFor(v, force, proc.original, proc.receipt, kept)
            /\ BackupAsPlanned => kept = backup
      BY DEF IInv, AtWork
    <2>2. PlanFor(v, force, proc.original, proc.receipt, kept)' =
            PlanFor(v, force, proc.original, proc.receipt, kept)
      BY <1>1 DEF PlanFor
    <2>3. BackupAsPlanned' => kept = backup'
      BY <1>1, <2>1 DEF BackupAsPlanned
    <2> QED BY <1>1, <2>1, <2>2, <2>3 DEF IInv, AtWork
  <1> QED BY <1>1, <1>2

LEMMA PlanStep == IInv /\ Plan => IInv'
  <1> SUFFICES ASSUME IInv, Plan  PROVE IInv'
    OBVIOUS
  <1>1. PICK force \in BOOLEAN, v \in Versions \cup {"none"} :
          LET plan == PlanFor(v, force, target, receipt, backup)
          IN  proc' = IF plan.act = "apply"
                        THEN [pc |-> "planned", plan |-> plan, original |-> target,
                              receipt |-> receipt, status |-> "none"]
                        ELSE Idle
    BY Zenon DEF Plan
  <1> DEFINE plan == PlanFor(v, force, target, receipt, backup)
  <1>2. kind \in Kinds /\ target \in Content /\ receipt \in Receipts /\ backup \in Content
    BY FileApplyAssumption DEF IInv, Types
  <1>3. plan \in Plans
    BY <1>2, PlanForTyped
  <1>4. Types'
    <2>1. proc' \in Commands
      BY <1>1, <1>2, <1>3, AbsentTyped DEF Commands, PCs, Idle
    <2> QED BY <2>1 DEF IInv, Types, Plan
  <1>5. PlanFor(v, force, target, receipt, backup)' = plan
    BY DEF Plan, PlanFor
  <1>6. AtWork'
    <2>1. CASE plan.act # "apply"
      BY <1>1, <2>1 DEF AtWork, Idle
    <2>2. CASE plan.act = "apply"
      <3>1. /\ proc'.plan = plan /\ proc'.original = target' /\ proc'.receipt = receipt'
            /\ proc'.status = "none" /\ backup' = backup /\ backup' \in Content
            /\ proc'.pc = "planned"
        BY <1>1, <1>2, <2>2 DEF Plan
      <3>2. proc'.plan = PlanFor(v, force, proc.original, proc.receipt, backup)'
        BY <1>5, <3>1 DEF PlanFor
      <3> HIDE DEF plan
      <3> QED BY <2>2, <3>1, <3>2 DEF AtWork
    <2> QED BY <2>1, <2>2
  <1> QED BY <1>4, <1>6 DEF IInv

LEMMA AssertStep == IInv /\ (AssertTarget \/ AssertReceipt) => IInv'
  <1> SUFFICES ASSUME IInv, AssertTarget \/ AssertReceipt  PROVE IInv'
    OBVIOUS
  <1>1. /\ UNCHANGED <<kind, target, receipt, backup, edits, pristine>>
        /\ proc.pc \in {"planned", "assert_receipt"}
        /\ Goto("assert_receipt") \/ Goto("backup") \/ End("changed")
    BY DEF AssertTarget, AssertReceipt
  <1>2. since' \in Histories
    BY DEF AssertTarget, AssertReceipt, IInv, Types, Histories
  <1>3. proc' \in Commands /\ AtWork'
    <2>1. CASE End("changed")
      BY <2>1, EndTyped DEF AtWork
    <2>2. CASE Goto("assert_receipt")
      BY <1>1, <2>2, GoesOn DEF PCs, BackupAsPlanned
    <2>3. CASE Goto("backup")
      BY <1>1, <2>3, GoesOn DEF PCs, BackupAsPlanned
    <2> QED BY <1>1, <2>1, <2>2, <2>3
  <1> QED BY <1>1, <1>2, <1>3 DEF IInv, Types

\* What writing the backup does to it.
LEMMA BackupOutcome ==
    ASSUME IInv, WriteBackup
    PROVE  /\ proc.pc = "backup" /\ UNCHANGED <<kind, target, receipt, edits, pristine>>
           /\ backup' = backup \/ (BacksUp(proc.plan, proc.original) /\ backup' = proc.original)
           /\ \/ End("aborted")
              \/ /\ Goto("write")
                 /\ BacksUp(proc.plan, proc.original) => backup' = proc.original
           /\ since' \in Histories /\ since'.edited = since.edited /\ since'.unseen = since.unseen
           /\ since'.again = (since.again \/ (proc.plan.tier = "none" /\ proc.receipt # NoReceipt))
  <1>1. CASE BacksUp(proc.plan, proc.original)
    <2>1. PICK o \in Fs!atomic_write(backup, proc.original) :
            backup' = o.file /\ IF o.ok THEN Goto("write") ELSE End("aborted")
      BY <1>1 DEF WriteBackup
    <2>2. o.file \in {backup, proc.original} /\ (o.ok => o.file = proc.original)
      BY <2>1, WriteOutcome
    <2> QED BY <1>1, <2>1, <2>2 DEF WriteBackup, IInv, Types, Histories
  <1>2. CASE ~BacksUp(proc.plan, proc.original)
    BY <1>2 DEF WriteBackup, IInv, Types, Histories
  <1> QED BY <1>1, <1>2

LEMMA WriteBackupStep == IInv /\ WriteBackup => IInv'
  <1> SUFFICES ASSUME IInv, WriteBackup  PROVE IInv'
    OBVIOUS
  <1>1. backup' \in Content
    BY BackupOutcome DEF IInv, Types, Commands
  <1>2. backup' = backup \/ proc.plan.tier = "none"
    BY BackupOutcome DEF BacksUp
  <1>3. proc' \in Commands /\ AtWork'
    <2>1. CASE End("aborted")
      BY <2>1, EndTyped DEF AtWork
    <2>2. CASE Goto("write")
      BY <1>2, <2>2, BackupOutcome, GoesOn DEF PCs, BackupAsPlanned
    <2> QED BY <2>1, <2>2, BackupOutcome
  <1> QED BY <1>1, <1>3, BackupOutcome DEF IInv, Types

\* What writing the target does to it.
LEMMA WriteOutcomes ==
    ASSUME IInv, WriteTarget
    PROVE  /\ proc.pc = "write" /\ UNCHANGED <<kind, receipt, backup, edits, pristine>>
           /\ \/ /\ Goto("write_receipt")
                 /\ target' = IF proc.plan.write = "leave" THEN target
                              ELSE After(proc.plan, proc.original)
              \/ End("aborted") /\ target' = target
              \/ End("unsynced") /\ target' = After(proc.plan, proc.original)
           /\ since' \in Histories /\ since'.edited = since.edited /\ since'.again = since.again
           /\ ~since'.unseen
  <1>1. PICK o \in WrittenTarget :
          /\ target' = o.file
          /\ \/ o.ok /\ Goto("write_receipt")
             \/ ~o.ok /\ o.file = target /\ End("aborted")
             \/ ~o.ok /\ o.file # target /\ End("unsynced")
    BY DEF WriteTarget
  <1>2. /\ proc.plan.write = "leave" => o.ok /\ o.file = target
        /\ proc.plan.write # "leave" =>
             /\ o.file \in {target, After(proc.plan, proc.original)}
             /\ o.ok => o.file = After(proc.plan, proc.original)
    BY TargetOutcome
  <1> QED BY <1>1, <1>2 DEF WriteTarget, IInv, Types, Histories

LEMMA WriteTargetStep == IInv /\ WriteTarget => IInv'
  <1> SUFFICES ASSUME IInv, WriteTarget  PROVE IInv'
    OBVIOUS
  <1>1. target' \in Content
    BY WriteOutcomes, AfterTyped DEF IInv, Types, Commands
  <1>2. proc' \in Commands /\ AtWork'
    <2>1. CASE End("aborted") \/ End("unsynced")
      BY <2>1, EndTyped DEF AtWork
    <2>2. CASE Goto("write_receipt")
      BY <2>2, WriteOutcomes, GoesOn DEF PCs
    <2> QED BY <2>1, <2>2, WriteOutcomes
  <1> QED BY <1>1, <1>2, WriteOutcomes DEF IInv, Types

\* What writing the receipt does, and the history it makes.
LEMMA ReceiptOutcomes ==
    ASSUME IInv, WriteReceipt
    PROVE  /\ proc.pc = "write_receipt" /\ UNCHANGED <<kind, target, backup, edits>>
           /\ receipt' \in {receipt, proc.plan.receipt}
           /\ \/ Goto("remove_backup") /\ receipt' = proc.plan.receipt
              \/ Goto("compare") /\ kind # "settings"
              \/ Goto("restore") /\ kind = "settings" /\ proc.plan.write # "leave"
              \/ End("failed") /\ kind = "settings" /\ proc.plan.write = "leave"
           /\ since' \in Histories /\ since'.unseen = since.unseen
           /\ IF proc.receipt = NoReceipt /\ receipt' = proc.plan.receipt
                THEN /\ pristine' = proc.original /\ ~since'.again
                     /\ since'.edited = IF target = After(proc.plan, proc.original) THEN "no"
                                        ELSE "body"
                ELSE UNCHANGED <<pristine, since>>
  <1>1. PICK o \in Fs!atomic_write(receipt, proc.plan.receipt) :
          /\ receipt' = o.file
          /\ \/ o.ok /\ Goto("remove_backup")
             \/ ~o.ok /\ kind # "settings" /\ Goto("compare")
             \/ ~o.ok /\ kind = "settings" /\ proc.plan.write # "leave" /\ Goto("restore")
             \/ ~o.ok /\ kind = "settings" /\ proc.plan.write = "leave" /\ End("failed")
    BY DEF WriteReceipt
  <1>2. o.file \in {receipt, proc.plan.receipt} /\ (o.ok => o.file = proc.plan.receipt)
    BY <1>1, WriteOutcome
  <1>3. since \in Histories
    BY DEF IInv, Types
  <1> DEFINE how == IF target = After(proc.plan, proc.original) THEN "no" ELSE "body"
  <1>4. CASE proc.receipt = NoReceipt /\ receipt' = proc.plan.receipt
    <2>1. /\ pristine' = proc.original
          /\ since' = [since EXCEPT !.again = FALSE, !.edited = how]
      BY <1>4 DEF WriteReceipt
    <2>2. how \in {"no", "body"}
      OBVIOUS
    <2> HIDE DEF how
    <2>3. /\ since' \in Histories /\ since'.unseen = since.unseen /\ ~since'.again
          /\ since'.edited = how
      BY <1>3, <2>1, <2>2 DEF Histories
    <2> QED BY <1>1, <1>2, <1>4, <2>1, <2>3 DEF WriteReceipt, how
  <1>5. CASE ~(proc.receipt = NoReceipt /\ receipt' = proc.plan.receipt)
    <2>1. UNCHANGED <<pristine, since>>
      BY <1>5 DEF WriteReceipt
    <2> HIDE DEF how
    <2> QED BY <1>1, <1>2, <1>3, <1>5, <2>1 DEF WriteReceipt
  <1> QED BY <1>4, <1>5

LEMMA WriteReceiptStep == IInv /\ WriteReceipt => IInv'
  <1> SUFFICES ASSUME IInv, WriteReceipt  PROVE IInv'
    OBVIOUS
  <1>1. receipt' \in Receipts /\ pristine' \in Content
    BY ReceiptOutcomes DEF IInv, Types, Commands, Plans
  <1>2. proc' \in Commands /\ AtWork'
    <2>1. CASE End("failed")
      BY <2>1, EndTyped DEF AtWork
    <2>2. ASSUME NEW pc \in {"remove_backup", "compare", "restore"}, Goto(pc),
                 pc = "compare" => kind # "settings"
          PROVE  proc' \in Commands /\ AtWork'
      BY <2>2, ReceiptOutcomes, GoesOn DEF PCs
    <2> QED BY <2>1, <2>2, ReceiptOutcomes
  <1> QED BY <1>1, <1>2, ReceiptOutcomes DEF IInv, Types

\* What comes after a receipt that could not be written.
LEMMA UndoOutcomes ==
    ASSUME IInv, Compare \/ Restore
    PROVE  /\ UNCHANGED <<kind, receipt, backup, edits, pristine, since>>
           /\ Compare => /\ proc.pc = "compare" /\ target' = target
                         /\ \/ End("failed")
                               /\ \/ target # After(proc.plan, proc.original)
                                  \/ proc.plan.write = "write" /\ ~proc.original.exists
                            \/ Goto("restore") /\ target = After(proc.plan, proc.original)
           /\ Restore => /\ proc.pc = "restore" /\ target' \in {target, proc.original}
                         /\ \/ End("failed") /\ target' = proc.original
                            \/ End("undo_failed")
  <1>1. CASE Restore
    <2>1. PICK o \in Fs!restore_snapshot(target, proc.original) :
            target' = o.file /\ End(IF o.ok THEN "failed" ELSE "undo_failed")
      BY <1>1 DEF Restore
    <2>2. o.file \in {target, proc.original} /\ (o.ok => o.file = proc.original)
      BY <2>1, RestoreOutcome
    <2>3. (End("failed") /\ target' = proc.original) \/ End("undo_failed")
      <3>1. CASE o.ok
        BY <2>1, <2>2, <3>1
      <3>2. CASE ~o.ok
        BY <2>1, <3>2
      <3> QED BY <3>1, <3>2
    <2> QED BY <1>1, <2>1, <2>2, <2>3 DEF Restore, Compare
  <1>2. CASE Compare
    BY <1>2 DEF Restore, Compare
  <1> QED BY <1>1, <1>2

LEMMA UndoStep == IInv /\ (Compare \/ Restore) => IInv'
  <1> SUFFICES ASSUME IInv, Compare \/ Restore  PROVE IInv'
    OBVIOUS
  <1>1. target' \in Content
    BY UndoOutcomes DEF IInv, Types, Commands
  <1>2. proc' \in Commands /\ AtWork'
    <2>1. CASE End("failed") \/ End("undo_failed")
      BY <2>1, EndTyped DEF AtWork
    <2>2. CASE Goto("restore") /\ proc.pc # "idle"
      BY <2>2, UndoOutcomes, GoesOn DEF PCs
    <2> QED BY <2>1, <2>2, UndoOutcomes
  <1> QED BY <1>1, <1>2, UndoOutcomes DEF IInv, Types

LEMMA LastOutcomes ==
    ASSUME IInv, RemoveBackup
    PROVE  /\ proc.pc = "remove_backup"
           /\ UNCHANGED <<kind, target, receipt, edits, pristine, since>>
           /\ backup' = backup \/ (proc.plan.remove_backup /\ backup' = Absent)
           /\ End("applied") \/ End("kept_backup")
  <1>1. CASE proc.plan.remove_backup
    <2>1. PICK o \in Fs!atomic_remove(backup) :
            backup' = o.file /\ End(IF o.ok THEN "applied" ELSE "kept_backup")
      BY <1>1 DEF RemoveBackup
    <2>2. o.file \in {backup, Absent}
      BY <2>1, RemoveOutcome
    <2>3. End("applied") \/ End("kept_backup")
      <3>1. CASE o.ok
        BY <2>1, <3>1
      <3>2. CASE ~o.ok
        BY <2>1, <3>2
      <3> QED BY <3>1, <3>2
    <2> QED BY <1>1, <2>1, <2>2, <2>3 DEF RemoveBackup
  <1>2. CASE ~proc.plan.remove_backup
    BY <1>2 DEF RemoveBackup
  <1> QED BY <1>1, <1>2

LEMMA RemoveBackupStep == IInv /\ RemoveBackup => IInv'
  <1> SUFFICES ASSUME IInv, RemoveBackup  PROVE IInv'
    OBVIOUS
  <1>1. backup' \in Content
    BY LastOutcomes, AbsentTyped DEF IInv, Types
  <1>2. proc' \in Commands /\ AtWork'
    BY LastOutcomes, EndTyped DEF AtWork
  <1> QED BY <1>1, <1>2, LastOutcomes DEF IInv, Types

LEMMA CrashStep == IInv /\ Crash => IInv'
BY AbsentTyped DEF Crash, Idle, IInv, Types, AtWork, Commands, PCs

\* The user leaves the command and what it planned from alone.
LEMMA UserStep == IInv /\ User => IInv'
  <1> SUFFICES ASSUME IInv, User  PROVE IInv'
    OBVIOUS
  <1>1. /\ UNCHANGED <<kind, backup, proc, pristine>>
        /\ edits' = edits + 1 /\ edits < MaxEdits
    BY DEF User, Edit, EditAtWork, EditGap, EditBlocks, Delete, DropReceipt, Paste, Act, Does
  <1>2. edits' \in 0..MaxEdits /\ edits + 2 \in 0..MaxText
    BY <1>1, ProjectFileAssumption, FileApplyAssumption DEF IInv, Types
  <1>3. since' \in Histories
    <2>1. EditAtWork \/ \E how \in {"body", "more"} : Touch(how)
      BY DEF User, Edit, EditGap, EditBlocks, Delete, DropReceipt, Paste
    <2>2. CASE EditAtWork
      BY <2>2 DEF EditAtWork, IInv, Types, Histories
    <2>3. ASSUME NEW how \in {"body", "more"}, Touch(how)  PROVE since' \in Histories
      BY <2>3 DEF Touch, IInv, Types, Histories
    <2> QED BY <2>1, <2>2, <2>3
  <1>4. receipt' \in Receipts
    BY AbsentTyped DEF User, Edit, EditAtWork, EditGap, EditBlocks, Delete, DropReceipt, Paste, IInv, Types
  <1>5. target' \in Content
    <2>1. target \in Content /\ target.blocks \in Seq(Block) /\ <<>> \in Seq(Block)
      BY DEF IInv, Types, Content
    <2>2. CASE Edit \/ EditAtWork
      BY <1>2, <2>1, <2>2 DEF Edit, EditAtWork, NewText, Content
    <2>3. CASE EditGap
      BY <2>1, <2>3 DEF EditGap, Content
    <2>4. CASE EditBlocks
      <3> DEFINE b == target.blocks[1]
      <3>1. b \in Block
        BY <2>1, <2>4 DEF EditBlocks
      <3>2. [b EXCEPT !.state = "edited"] \in Block /\ [b EXCEPT !.state = "broken"] \in Block
        BY <3>1 DEF Block
      <3>3. \E s \in Seq(Block) : target' = [target EXCEPT !.blocks = s]
        <4>1. /\ <<[b EXCEPT !.state = "edited"]>> \in Seq(Block)
              /\ <<[b EXCEPT !.state = "broken"]>> \in Seq(Block)
              /\ <<b, b>> \in Seq(Block)
          <5> HIDE DEF b
          <5> QED BY <3>1, <3>2
        <4> QED BY <2>1, <2>4, <4>1 DEF EditBlocks
      <3> QED BY <2>1, <3>3 DEF Content
    <2>5. CASE Delete
      BY <2>5, AbsentTyped DEF Delete
    <2>6. CASE DropReceipt
      BY <2>1, <2>6 DEF DropReceipt
    <2>7. CASE Paste
      BY <2>1, <2>7, ExactTyped DEF Paste, Content
    <2> QED BY <2>2, <2>3, <2>4, <2>5, <2>6, <2>7 DEF User
  <1>6. Types'
    BY <1>1, <1>2, <1>3, <1>4, <1>5 DEF IInv, Types
  <1>7. AtWork'
    BY <1>1 DEF IInv, AtWork, BackupAsPlanned, PlanFor
  <1> QED BY <1>6, <1>7 DEF IInv

LEMMA NextIInv == IInv /\ [Next]_vars => IInv'
  <1>1. IInv /\ UNCHANGED vars => IInv'
    BY DEF vars, IInv, Types, AtWork, BackupAsPlanned, PlanFor
  <1> QED BY <1>1, PlanStep, AssertStep, WriteBackupStep, WriteTargetStep, WriteReceiptStep,
             UndoStep, RemoveBackupStep, CrashStep, UserStep DEF Next, Apply

LEMMA FileInvariant == Spec => []IInv
BY InitIInv, NextIInv, PTL DEF Spec

\* From the comparison on the receipt is the one the plan was made from, until
\* it is replaced.
ReceiptAsPlanned ==
    proc.pc \in {"backup", "write", "write_receipt"} => receipt = proc.receipt

LEMMA NextReceiptAsPlanned == IInv /\ ReceiptAsPlanned /\ [Next]_vars => ReceiptAsPlanned'
  <1> SUFFICES ASSUME IInv, ReceiptAsPlanned, [Next]_vars,
                      proc'.pc \in {"backup", "write", "write_receipt"}
               PROVE  receipt' = proc'.receipt
    BY DEF ReceiptAsPlanned
  <1>0. \A pc : Goto(pc) => proc'.pc = pc /\ proc'.receipt = proc.receipt
    BY DEF Goto, IInv, Types, Commands
  <1>1. CASE AssertTarget \/ AssertReceipt
    BY <1>0, <1>1, EndTyped DEF AssertTarget, AssertReceipt
  <1>2. CASE WriteBackup
    BY <1>0, <1>2, BackupOutcome, EndTyped DEF ReceiptAsPlanned
  <1>3. CASE WriteTarget
    BY <1>0, <1>3, WriteOutcomes, EndTyped DEF ReceiptAsPlanned
  <1>4. CASE WriteReceipt
    BY <1>0, <1>4, ReceiptOutcomes, EndTyped
  <1>5. CASE Compare \/ Restore
    BY <1>0, <1>5, UndoOutcomes, EndTyped
  <1>6. CASE RemoveBackup
    BY <1>6, LastOutcomes, EndTyped
  <1>7. CASE Plan \/ Crash
    BY <1>7 DEF Plan, Crash, Idle
  <1>8. CASE User
    <2>1. proc' = proc /\ (proc.pc \notin {"idle", "planned"} => receipt' = receipt)
      BY <1>8 DEF User, Edit, EditAtWork, EditGap, EditBlocks, Delete, DropReceipt, Paste, Act
    <2> QED BY <2>1 DEF ReceiptAsPlanned
  <1>9. CASE UNCHANGED vars
    BY <1>9 DEF vars, ReceiptAsPlanned
  <1> QED BY <1>1, <1>2, <1>3, <1>4, <1>5, <1>6, <1>7, <1>8, <1>9 DEF Next, Apply

LEMMA ReceiptInvariant == Spec => []ReceiptAsPlanned
  <1>1. Init => ReceiptAsPlanned
    BY DEF Init, Idle, ReceiptAsPlanned
  <1> QED BY <1>1, NextReceiptAsPlanned, FileInvariant, PTL DEF Spec

-----------------------------------------------------------------------------
(* The theorems.                                                           *)

\* A block that is there is read as one when removal is forced.
LEMMA ForcedReading ==
    ASSUME NEW k \in Marked, NEW c \in Content, NEW r, c.blocks # <<>>
    PROVE  current_owned(k, c, r, TRUE) \notin {"none", "unreadable"}
  <1>1. c.blocks \in Seq(Block) /\ Len(c.blocks) \in Nat /\ Len(c.blocks) # 0
    BY DEF Content
  <1>2. find_owned_block(c) # "none"
    <2>1. CASE Len(c.blocks) = 1
      <3>1. c.blocks[1] \in Block
        BY <1>1, <2>1
      <3> QED BY <2>1, <3>1, ProjectFileAssumption DEF find_owned_block, Block
    <2>2. CASE Len(c.blocks) # 1
      BY <1>1, <2>2 DEF find_owned_block
    <2> QED BY <2>1, <2>2
  <1> QED BY <1>2 DEF current_owned, Marked

\* An owned block can always be taken out with --force: plan_remove_at never
\* refuses one, however many markers the user broke or copied, and what it
\* writes has no block left unless it is the file from before the install.
THEOREM ForcedRemovalAlwaysWorks == Spec => []ForceRemoves
  <1>1. IInv => ForceRemoves
    <2> SUFFICES ASSUME IInv, kind \in Marked, receipt # NoReceipt, target.blocks # <<>>
                 PROVE  LET plan == plan_remove_at(kind, target, receipt, backup, TRUE)
                        IN  /\ plan.act = "apply"
                            /\ After(plan, target).blocks # <<>> => After(plan, target) = receipt.pre
      BY DEF ForceRemoves
    <2> DEFINE current == current_owned(kind, target, receipt, TRUE)
               gone == current # receipt.owned
               rest == remove_block(kind, target, receipt.separator)
               plan == plan_remove_at(kind, target, receipt, backup, TRUE)
    <2>1. target \in Content /\ receipt \in Receipts /\ backup \in Content /\ gone \in BOOLEAN
      BY DEF IInv, Types
    <2>2. current \notin {"none", "unreadable"} /\ kind # "skill"
      BY <2>1, ForcedReading DEF Marked
    <2>3. plan = IF ExactRestore(target, receipt, backup) THEN Restored(receipt, backup, gone)
                 ELSE Structural(receipt, rest, gone)
      BY <2>2 DEF plan_remove_at
    <2>4. rest \in Content /\ rest.blocks = <<>>
      BY <2>1, <2>2, RemoveBlockTyped DEF remove_block, Content, Receipts
    <2> SUFFICES plan.act = "apply"
                 /\ (After(plan, target).blocks # <<>> => After(plan, target) = receipt.pre)
      OBVIOUS
    <2> HIDE DEF current, gone, rest, plan
    <2>5. CASE ExactRestore(target, receipt, backup)
      <3>1. plan = Restored(receipt, backup, gone)
        BY <2>3, <2>5
      <3>2. plan.act = "apply" /\ (After(plan, target) = Absent \/ After(plan, target) = receipt.pre)
        BY <2>1, <2>5, <3>1 DEF ExactRestore, Restored, Removal, NoPlan, After
      <3> QED BY <3>2 DEF Absent
    <2>6. CASE ~ExactRestore(target, receipt, backup)
      <3>1. plan = Structural(receipt, rest, gone)
        BY <2>3, <2>6
      <3>2. plan.act = "apply" /\ (After(plan, target) = Absent \/ After(plan, target) = rest)
        BY <2>1, <2>4, <3>1 DEF Structural, Removal, NoPlan, After
      <3> QED BY <2>4, <3>2 DEF Absent
    <2> QED BY <2>5, <2>6
  <1> QED BY <1>1, FileInvariant, PTL

\* The user changes nothing without an edit.
LEMMA UserCounts == User => edits' = edits + 1
BY DEF User, Edit, EditAtWork, EditGap, EditBlocks, Delete, DropReceipt, Paste, Act, Does

\* A command that fails at the backup, the target or the receipt leaves a file
\* nobody edited meanwhile as it found it, whatever its plan and whatever the user
\* did before.  An instruction file just created is the one exception among the
\* outcomes the statement speaks of; a target that was published and reported as
\* failed and an undo that fails are outcomes it does not speak of.
THEOREM FailuresAreUndone == Spec => FailedStepRestores
  <1> DEFINE Undone ==
        ManagerStep /\ proc'.status \in {"aborted", "failed"} /\ proc.pc # "idle" /\ target = AsLeft
        => target' = proc.original \/ (kind # "settings" /\ ~proc.original.exists)
  <1>1. IInv /\ [Next]_vars => [Undone]_vars
    <2> SUFFICES ASSUME IInv, Next, edits' = edits, proc'.status \in {"aborted", "failed"},
                        proc.pc # "idle", target = AsLeft,
                        ~(kind # "settings" /\ ~proc.original.exists)
                 PROVE  target' = proc.original
      BY DEF ManagerStep
    <2>1. edits \in Nat /\ proc.status = "none" /\ proc \in Commands
      BY FileApplyAssumption DEF IInv, Types, AtWork
    <2>2. CASE Plan
      BY <2>2 DEF Plan
    <2>3. CASE AssertTarget \/ AssertReceipt
      BY <2>1, <2>3, EndTyped DEF AssertTarget, AssertReceipt, Goto, Commands
    <2>4. CASE WriteBackup
      BY <2>4, BackupOutcome DEF AsLeft
    <2>5. CASE WriteTarget
      <3>1. proc'.status = "aborted" => target' = target
        <4>1. Goto("write_receipt") => proc'.status = "none"
          BY <2>1 DEF Goto, Commands
        <4> QED BY <2>5, <4>1, WriteOutcomes, EndTyped
      <3>2. proc'.status # "failed"
        <4>1. Goto("write_receipt") => proc'.status = "none"
          BY <2>1 DEF Goto, Commands
        <4> QED BY <2>5, <4>1, WriteOutcomes, EndTyped
      <3> QED BY <2>5, <3>1, <3>2, WriteOutcomes DEF AsLeft
    <2>6. CASE WriteReceipt
      <3>1. \A pc : Goto(pc) => proc'.status = "none"
        BY <2>1 DEF Goto, Commands
      <3>2. proc.plan.write = "leave"
        BY <2>6, <3>1, ReceiptOutcomes
      <3> QED BY <2>6, <3>2, ReceiptOutcomes DEF AsLeft, After
    <2>7. CASE Compare
      <3>1. Goto("restore") => proc'.status = "none"
        BY <2>1 DEF Goto, Commands
      <3>2. /\ proc.pc = "compare"
            /\ target # After(proc.plan, proc.original)
                 \/ (proc.plan.write = "write" /\ ~proc.original.exists)
        BY <2>7, <3>1, UndoOutcomes
      <3>3. kind # "settings" /\ ~proc.original.exists
        BY <2>7, <3>2 DEF AsLeft, IInv, AtWork
      <3> QED BY <3>3
    <2>8. CASE Restore
      BY <2>8, UndoOutcomes, EndTyped
    <2>9. CASE RemoveBackup
      BY <2>9, LastOutcomes, EndTyped
    <2>10. CASE Crash
      BY <2>10 DEF Crash, Idle
    <2>11. CASE User
      BY <2>1, <2>11, UserCounts
    <2> QED BY <2>2, <2>3, <2>4, <2>5, <2>6, <2>7, <2>8, <2>9, <2>10, <2>11 DEF Next, Apply
  <1> QED BY <1>1, FileInvariant, PTL DEF Spec, FailedStepRestores

-----------------------------------------------------------------------------
(* Second copies.                                                          *)

Twice(c, v) ==
    \E i, j \in 1..Len(c.blocks) : i # j /\ c.blocks[i] = Exact(v) /\ c.blocks[j] = Exact(v)

\* A plan that makes a second copy of an entry replaces another profile's, or
\* puts back what was there before the install.
Harmless(plan, c, r) ==
    \A v \in Versions : Twice(After(plan, c), v) =>
      \/ Twice(c, v)
      \/ plan.tier = "exact" /\ After(plan, c) = r.pre
      \/ kind = "settings" /\ plan.tier = "none" /\ r.owned \notin {"none", v}

LEMMA CopiesAreTwice ==
    ASSUME NEW c \in Content, NEW v
    PROVE  Cardinality(identical_indices(c, v)) > 1 <=> Twice(c, v)
  <1> DEFINE S == identical_indices(c, v)
  <1>1. /\ IsFiniteSet(S) /\ Cardinality(S) \in Nat
        /\ \A i : i \in S <=> i \in 1..Len(c.blocks) /\ c.blocks[i] = Exact(v)
    <2>1. DOMAIN c.blocks = 1..Len(c.blocks)
      BY DEF Content
    <2> QED BY <2>1, IndicesFinite DEF identical_indices, Indices, Exact
  <1>2. \A i \in S : /\ IsFiniteSet(S \ {i}) /\ Cardinality(S \ {i}) = Cardinality(S) - 1
                     /\ (Cardinality(S \ {i}) = 0 <=> S \ {i} = {})
    <2> HIDE DEF S
    <2> QED BY <1>1, FS_RemoveElement, FS_EmptySet
  <1>3. Cardinality(S) = 0 <=> S = {}
    <2> HIDE DEF S
    <2> QED BY <1>1, FS_EmptySet
  <1> HIDE DEF S
  <1>4. Cardinality(S) > 1 <=> \E i, j \in S : i # j
    <2>1. ASSUME Cardinality(S) > 1  PROVE  \E i, j \in S : i # j
      <3>1. PICK i \in S : TRUE
        BY <1>3, <2>1
      <3>2. Cardinality(S \ {i}) = Cardinality(S) - 1 /\ (Cardinality(S \ {i}) = 0 <=> S \ {i} = {})
        BY <1>2
      <3>3. Cardinality(S \ {i}) # 0
        BY <1>1, <2>1, <3>2
      <3> QED BY <3>2, <3>3
    <2>2. ASSUME NEW i \in S, NEW j \in S, i # j  PROVE  Cardinality(S) > 1
      <3>1. S \ {i} # {}
        BY <2>2
      <3>2. Cardinality(S \ {i}) # 0 /\ Cardinality(S \ {i}) = Cardinality(S) - 1
        BY <1>2, <3>1
      <3>3. Cardinality(S) # 0
        BY <1>3
      <3> QED BY <1>1, <3>2, <3>3
    <2> QED BY <2>1, <2>2
  <1>5. (\E i, j \in S : i # j) <=> Twice(c, v)
    BY <1>1 DEF Twice
  <1> QED BY <1>4, <1>5 DEF S

LEMMA ShortIsOnce ==
    ASSUME NEW c, NEW v, NEW x, c.blocks = <<>> \/ c.blocks = <<x>>
    PROVE  ~Twice(c, v)
BY DEF Twice

LEMMA PushMakesOne ==
    ASSUME NEW c \in Content, NEW w \in Versions, NEW v \in Versions,
           \A i \in 1..Len(c.blocks) : c.blocks[i] # Exact(w),
           Twice(push_entry(c, w), v)
    PROVE  Twice(c, v)
  <1> DEFINE n == Len(c.blocks)
             new == push_entry(c, w).blocks
  <1>1. /\ n \in Nat /\ Len(new) = n + 1 /\ new[n + 1] = Exact(w)
        /\ \A i \in 1..n : new[i] = c.blocks[i]
    <2>1. c.blocks \in Seq(Block)
      BY DEF Content
    <2> QED BY <2>1, ExactTyped DEF push_entry, encode_settings
  <1>2. PICK i \in 1..Len(new), j \in 1..Len(new) :
          i # j /\ new[i] = Exact(v) /\ new[j] = Exact(v)
    BY DEF Twice
  <1> HIDE DEF new
  <1>3. i # n + 1 /\ j # n + 1
    <2>1. ASSUME NEW a \in 1..n, new[a] = Exact(v), new[n + 1] = Exact(v)  PROVE FALSE
      BY <1>1, <2>1
    <2> QED BY <1>1, <1>2, <2>1
  <1> QED BY <1>1, <1>2, <1>3 DEF Twice

LEMMA ReplaceMakesOne ==
    ASSUME NEW c \in Content, NEW w \in Versions, NEW v \in Versions \ {w},
           NEW k \in 1..Len(c.blocks), Twice(replace_entry(c, k, w), v)
    PROVE  Twice(c, v)
  <1> DEFINE new == replace_entry(c, k, w).blocks
  <1>1. /\ Len(new) = Len(c.blocks) /\ new[k] = Exact(w)
        /\ \A i \in 1..Len(c.blocks) : i # k => new[i] = c.blocks[i]
    <2>1. c.blocks \in Seq(Block)
      BY DEF Content
    <2> QED BY <2>1, ExactTyped DEF replace_entry, encode_settings
  <1>2. PICK i \in 1..Len(new), j \in 1..Len(new) :
          i # j /\ new[i] = Exact(v) /\ new[j] = Exact(v)
    BY DEF Twice
  <1>3. Exact(v) # Exact(w)
    BY DEF Exact
  <1> HIDE DEF new
  <1> QED BY <1>1, <1>2, <1>3 DEF Twice

LEMMA RemoveMakesNone ==
    ASSUME NEW c \in Content, NEW v, NEW k \in 1..Len(c.blocks), Twice(remove_entry(c, k), v)
    PROVE  Twice(c, v)
  <1> DEFINE n == Len(c.blocks)
             new == remove_entry(c, k).blocks
             at(i) == IF i < k THEN i ELSE i + 1
  <1>1. c.blocks \in Seq(Block) /\ n \in Nat
    BY DEF Content
  <1>2. new = SubSeq(c.blocks, 1, k - 1) \o SubSeq(c.blocks, k + 1, n)
    BY DEF remove_entry, Content
  <1>3. /\ Len(SubSeq(c.blocks, 1, k - 1)) = k - 1
        /\ Len(SubSeq(c.blocks, k + 1, n)) = n - k
        /\ \A i \in 1..(k - 1) : SubSeq(c.blocks, 1, k - 1)[i] = c.blocks[i]
        /\ \A i \in 1..(n - k) : SubSeq(c.blocks, k + 1, n)[i] = c.blocks[k + i]
    BY <1>1
  <1>4. /\ SubSeq(c.blocks, 1, k - 1) \in Seq(Block)
        /\ SubSeq(c.blocks, k + 1, n) \in Seq(Block)
    BY <1>1
  <1>5. Len(new) = n - 1 /\ \A i \in 1..(n - 1) : new[i] = c.blocks[at(i)]
    <2> DEFINE front == SubSeq(c.blocks, 1, k - 1)
               back == SubSeq(c.blocks, k + 1, n)
    <2>1. front \in Seq(Block) /\ back \in Seq(Block) /\ new = front \o back
      BY <1>2, <1>4
    <2>2. Len(front) = k - 1 /\ Len(back) = n - k
      BY <1>3
    <2> HIDE DEF front, back, new
    <2>3. Len(new) = n - 1
      <3>1. Len(new) = Len(front) + Len(back)
        BY <2>1, ConcatProperties
      <3> QED BY <1>1, <2>2, <3>1
    <2>4. ASSUME NEW i \in 1..(n - 1)  PROVE  new[i] = c.blocks[at(i)]
      <3>1. CASE i < k
        <4>1. new[i] = front[i] /\ i \in 1..(k - 1)
          BY <1>1, <2>1, <2>2, <3>1
        <4> QED BY <1>3, <3>1, <4>1 DEF front
      <3>2. CASE ~(i < k)
        <4> DEFINE j == i - (k - 1)
        <4>1. j \in 1..(n - k) /\ k + j = i + 1 /\ i - Len(front) = j
          BY <1>1, <2>2, <3>2
        <4>2. i > Len(front) /\ i \in 1..(Len(front) + Len(back))
          BY <1>1, <2>2, <3>2
        <4>3. new[i] = back[i - Len(front)]
          BY <2>1, <4>2, ConcatProperties
        <4> HIDE DEF j
        <4>4. back[j] = c.blocks[i + 1]
          BY <1>3, <4>1 DEF back
        <4> QED BY <3>2, <4>1, <4>3, <4>4
      <3> QED BY <3>1, <3>2
    <2> QED BY <2>3, <2>4
  <1>6. PICK i \in 1..Len(new), j \in 1..Len(new) :
          i # j /\ new[i] = Exact(v) /\ new[j] = Exact(v)
    BY DEF Twice
  <1> HIDE DEF new
  <1>7. at(i) \in 1..n /\ at(j) \in 1..n /\ at(i) # at(j)
    BY <1>1, <1>5, <1>6
  <1>8. c.blocks[at(i)] = Exact(v) /\ c.blocks[at(j)] = Exact(v)
    BY <1>5, <1>6
  <1> HIDE DEF at
  <1> QED BY <1>7, <1>8 DEF Twice

\* What follows from the outcome alone.
LEMMA HarmlessAfter ==
    ASSUME NEW plan, NEW c, NEW r, NEW x,
           \/ After(plan, c) = c
           \/ plan.tier = "exact" /\ After(plan, c) = r.pre
           \/ After(plan, c).blocks = <<>>
           \/ After(plan, c).blocks = <<x>>
    PROVE  Harmless(plan, c, r)
BY ShortIsOnce DEF Harmless

LEMMA RefusalsHarmless ==
    ASSUME NEW c, NEW r
    PROVE  Harmless(Refused, c, r) /\ Harmless(Noop, c, r)
  <1>1. After(Refused, c) = c /\ After(Noop, c) = c
    BY DEF After, Refused, Noop, NoPlan
  <1> QED BY <1>1, HarmlessAfter

LEMMA RestoredHarmless ==
    ASSUME NEW c, NEW r \in Receipts, NEW b, NEW d \in BOOLEAN, ExactRestore(c, r, b)
    PROVE  Harmless(Restored(r, b, d), c, r)
  <1>1. /\ Restored(r, b, d).tier = "exact"
        /\ After(Restored(r, b, d), c) \in {Absent, r.pre}
    BY DEF After, Restored, Removal, NoPlan, ExactRestore
  <1>2. Absent.blocks = <<>>
    BY DEF Absent
  <1> QED BY <1>1, <1>2, HarmlessAfter

LEMMA StructuralAfter ==
    ASSUME NEW c, NEW r, NEW rest, NEW d \in BOOLEAN
    PROVE  After(Structural(r, rest, d), c) \in {Absent, rest}
BY DEF After, Structural, Removal, NoPlan

LEMMA PlanInstallHarmless ==
    ASSUME NEW k \in Kinds, NEW w \in Versions, NEW c \in Content, NEW r \in Receipts,
           NEW force \in BOOLEAN
    PROVE  Harmless(plan_install_at(k, w, c, r, force), c, r)
  <1> DEFINE current == current_owned(k, c, r, force)
             new == install_block(k, c, current, w)
             gone == Foreign(k, c, r, current) \/ current \notin {"none", r.owned}
             next == NextReceipt(w, c, new.text, new.separator, r)
  <1>1. new.text.blocks = <<Exact(w)>>
    BY DEF install_block, Whole, Content
  <1>2. After(Install("write", new.text, next, gone), c) = new.text
    <2> HIDE DEF new, next, gone
    <2> QED BY DEF After, Install, NoPlan
  <1>3. After(Install("leave", c, Adopted(w, c), FALSE), c) = c
    BY DEF After, Install, NoPlan
  <1>4. /\ Harmless(Install("write", new.text, next, gone), c, r)
        /\ Harmless(Install("leave", c, Adopted(w, c), FALSE), c, r)
    <2> HIDE DEF new, next, gone
    <2> QED BY <1>1, <1>2, <1>3, HarmlessAfter
  <1> QED BY <1>4, RefusalsHarmless DEF plan_install_at

LEMMA PlanRemoveHarmless ==
    ASSUME NEW k \in Kinds, NEW c \in Content, NEW r \in Receipts, NEW b \in Content,
           NEW force \in BOOLEAN
    PROVE  Harmless(plan_remove_at(k, c, r, b, force), c, r)
  <1> DEFINE current == current_owned(k, c, r, force)
             gone == current # r.owned
             rest == remove_block(k, c, r.separator)
  <1>1. rest.blocks = <<>> /\ Absent.blocks = <<>>
    BY DEF remove_block, Absent, Content
  <1>2. /\ Harmless(Structural(r, rest, gone), c, r)
        /\ ExactRestore(c, r, b) => Harmless(Restored(r, b, gone), c, r)
    <2>1. gone \in BOOLEAN
      OBVIOUS
    <2> HIDE DEF rest, gone
    <2> QED BY <1>1, <2>1, StructuralAfter, RestoredHarmless, HarmlessAfter
  <1>3. /\ b = r.pre => Harmless(Removal("write", b, "exact", TRUE, FALSE), c, r)
        /\ Harmless(Removal("leave", c, "left", FALSE, FALSE), c, r)
    <2>1. /\ Removal("write", b, "exact", TRUE, FALSE).tier = "exact"
          /\ After(Removal("write", b, "exact", TRUE, FALSE), c) = b
          /\ After(Removal("leave", c, "left", FALSE, FALSE), c) = c
      BY DEF After, Removal, NoPlan
    <2> QED BY <2>1, HarmlessAfter
  <1> QED BY <1>2, <1>3, RefusalsHarmless DEF plan_remove_at

LEMMA HookInstallHarmless ==
    ASSUME kind = "settings", NEW w \in Versions, NEW c \in Content, NEW r \in Receipts
    PROVE  Harmless(hook_install_at(w, c, r), c, r)
  <1> DEFINE matches == matching_indices(c, r)
             i == First(matches)
  <1>1. ASSUME NEW u
        PROVE  /\ After(Install("write", u, NextReceipt(w, c, u, 0, r), FALSE), c) = u
               /\ Install("write", u, NextReceipt(w, c, u, 0, r), FALSE).tier = "none"
    BY DEF After, Install, NoPlan
  <1>2. Harmless(Install("leave", c, Adopted(w, c), FALSE), c, r)
    <2>1. After(Install("leave", c, Adopted(w, c), FALSE), c) = c
      BY DEF After, Install, NoPlan
    <2> QED BY <2>1, HarmlessAfter
  <1>3. ASSUME Cardinality(identical_indices(c, w)) = 0
        PROVE  Harmless(Install("write", push_entry(c, w),
                                NextReceipt(w, c, push_entry(c, w), 0, r), FALSE), c, r)
    <2>1. identical_indices(c, w) = {}
      BY <1>3, IndicesFinite, FS_EmptySet DEF identical_indices
    <2>2. DOMAIN c.blocks = 1..Len(c.blocks)
      BY DEF Content
    <2>3. \A j \in 1..Len(c.blocks) : c.blocks[j] # Exact(w)
      BY <2>1, <2>2 DEF identical_indices, Indices, Exact
    <2>4. \A v \in Versions : Twice(push_entry(c, w), v) => Twice(c, v)
      BY <2>3, PushMakesOne
    <2>5. After(Install("write", push_entry(c, w),
                        NextReceipt(w, c, push_entry(c, w), 0, r), FALSE), c) = push_entry(c, w)
      BY <1>1
    <2> QED BY <2>4, <2>5 DEF Harmless
  <1>4. ASSUME Cardinality(matches) = 1, r.owned # w
        PROVE  Harmless(Install("write", replace_entry(c, i, w),
                                NextReceipt(w, c, replace_entry(c, i, w), 0, r), FALSE), c, r)
    <2>1. matches \subseteq 1..Len(c.blocks) /\ matches # {}
      BY <1>4, IndicesFinite, FS_EmptySet DEF matching_indices
    <2>2. i \in matches
      <3> HIDE DEF matches
      <3> QED BY <2>1, FirstIsOne
    <2>3. i \in 1..Len(c.blocks) /\ c.blocks[i] = [of |-> r.owned, state |-> "exact"]
      BY <2>1, <2>2 DEF matching_indices, Indices
    <2>4. r.owned # "none"
      <3>1. c.blocks[i] \in Block
        BY <2>3 DEF Content
      <3> QED BY <2>3, <3>1, ProjectFileAssumption DEF Block
    <2>5. \A v \in Versions : Twice(replace_entry(c, i, w), v) =>
            Twice(c, v) \/ r.owned \notin {"none", v}
      <3> HIDE DEF i
      <3> QED BY <1>4, <2>3, <2>4, ReplaceMakesOne
    <2> HIDE DEF i
    <2> QED BY <1>1, <2>5 DEF Harmless
  <1> QED BY <1>2, <1>3, <1>4, RefusalsHarmless DEF hook_install_at

LEMMA HookRemoveHarmless ==
    ASSUME NEW c \in Content, NEW r \in Receipts, NEW b \in Content, NEW force \in BOOLEAN
    PROVE  Harmless(hook_remove_at(c, r, b, force), c, r)
  <1> DEFINE matches == matching_indices(c, r)
             found == IF matches # {} THEN matches ELSE resembling_indices(c, r.owned)
             rest == remove_entry(c, First(found))
             gone == matches = {}
  <1>1. found \subseteq 1..Len(c.blocks) /\ gone \in BOOLEAN
    BY IndicesFinite DEF matching_indices, resembling_indices
  <1>2. ASSUME found # {}  PROVE  Harmless(Structural(r, rest, gone), c, r)
    <2>1. First(found) \in 1..Len(c.blocks)
      <3> HIDE DEF found
      <3> QED BY <1>1, <1>2, FirstIsOne
    <2>2. \A v : Twice(rest, v) => Twice(c, v)
      BY <2>1, RemoveMakesNone
    <2>3. \A v : ~Twice(Absent, v)
      BY ShortIsOnce DEF Absent
    <2>4. After(Structural(r, rest, gone), c) \in {Absent, rest}
      <3> HIDE DEF rest, gone
      <3> QED BY <1>1, StructuralAfter
    <2> HIDE DEF rest, gone
    <2> QED BY <2>2, <2>3, <2>4 DEF Harmless
  <1>3. ExactRestore(c, r, b) => Harmless(Restored(r, b, gone), c, r)
    <2> HIDE DEF gone
    <2> QED BY <1>1, RestoredHarmless
  <1> QED BY <1>2, <1>3, RefusalsHarmless DEF hook_remove_at

LEMMA PlanForHarmless ==
    ASSUME kind \in Kinds, NEW v \in Versions \cup {"none"}, NEW force \in BOOLEAN,
           NEW c \in Content, NEW r \in Receipts, NEW b \in Content
    PROVE  Harmless(PlanFor(v, force, c, r, b), c, r)
BY HookInstallHarmless, HookRemoveHarmless, PlanInstallHarmless, PlanRemoveHarmless DEF PlanFor

\* No install, removal or undo writes a second copy of an entry into a file that
\* was planned from one without, whatever the user pasted, copied or edited in
\* between, also when a receipt was lost, and wherever the command failed or
\* died.  The statement excepts two writes that may: the exact restore of a file
\* that had the copies before the install, and the update of settings.json from
\* another profile's entry.
THEOREM NoSecondCopy == Spec => NeverDuplicates
  <1> DEFINE Single ==
        ManagerStep => \A v \in Versions :
          Cardinality(identical_indices(target', v)) > 1 =>
            \/ Cardinality(identical_indices(target, v)) > 1
            \/ Cardinality(identical_indices(proc.original, v)) > 1
            \/ proc.pc = "write" /\ proc.plan.tier = "exact" /\ target' = receipt.pre
            \/ /\ proc.pc = "write" /\ proc.plan.tier = "none" /\ kind = "settings"
               /\ receipt.owned \notin {"none", v}
  <1>1. IInv /\ ReceiptAsPlanned /\ IInv' /\ [Next]_vars => [Single]_vars
    <2> SUFFICES ASSUME IInv, ReceiptAsPlanned, IInv', Next, edits' = edits, NEW v \in Versions,
                        Cardinality(identical_indices(target', v)) > 1,
                        target' # target, target' # proc.original
                 PROVE  \/ Cardinality(identical_indices(proc.original, v)) > 1
                        \/ proc.pc = "write" /\ proc.plan.tier = "exact" /\ target' = receipt.pre
                        \/ /\ proc.pc = "write" /\ proc.plan.tier = "none" /\ kind = "settings"
                           /\ receipt.owned \notin {"none", v}
      BY DEF ManagerStep
    <2>1. /\ kind \in Kinds /\ receipt \in Receipts /\ edits \in Nat /\ target' \in Content
          /\ proc.original \in Content /\ proc.receipt \in Receipts
      BY FileApplyAssumption DEF IInv, Types, Commands
    <2>2. CASE WriteTarget
      <3>1. /\ proc.pc = "write" /\ receipt = proc.receipt
            /\ target' = After(proc.plan, proc.original)
        BY <2>2, WriteOutcomes DEF ReceiptAsPlanned
      <3>2. Harmless(proc.plan, proc.original, receipt)
        BY <2>1, <3>1, PlanForHarmless DEF IInv, AtWork
      <3>3. Twice(target', v)
        BY <2>1, CopiesAreTwice
      <3>4. \/ Twice(proc.original, v)
            \/ proc.plan.tier = "exact" /\ target' = receipt.pre
            \/ kind = "settings" /\ proc.plan.tier = "none" /\ receipt.owned \notin {"none", v}
        BY <3>1, <3>2, <3>3 DEF Harmless
      <3> QED BY <2>1, <3>1, <3>4, CopiesAreTwice
    <2>3. CASE Compare \/ Restore
      BY <2>3, UndoOutcomes
    <2>4. CASE AssertTarget \/ AssertReceipt \/ WriteBackup \/ WriteReceipt \/ RemoveBackup
      BY <2>4 DEF AssertTarget, AssertReceipt, WriteBackup, WriteReceipt, RemoveBackup
    <2>5. CASE Plan \/ Crash
      BY <2>5 DEF Plan, Crash
    <2>6. CASE User
      BY <2>1, <2>6, UserCounts
    <2> QED BY <2>2, <2>3, <2>4, <2>5, <2>6 DEF Next, Apply
  <1> QED BY <1>1, FileInvariant, ReceiptInvariant, PTL DEF Spec, NeverDuplicates

-----------------------------------------------------------------------------
(* What a plan does, by what it is for.                                    *)

Sound(c) == ~c.exists => c = Absent

\* An install takes over a block that is there, or writes its own.
Installs(p, w, c, r) ==
    /\ p.tier = "none"
    /\ \/ /\ p.write = "leave" /\ p.bytes = c /\ r = NoReceipt /\ p.receipt = Adopted(w, c)
          /\ kind = "skill" => c.body = 0
       \/ /\ p.write = "write" /\ p.bytes \in Content /\ p.bytes.exists
          /\ p.bytes.body = IF kind = "skill" THEN 0 ELSE c.body
          /\ \E s \in 0..2 : p.receipt = NextReceipt(w, c, p.bytes, s, r)
          /\ kind = "skill" /\ c.body # 0 => p.discards

\* A removal puts the file back, takes the owned part out, or leaves the file.
Removes(p, c, r, b) ==
    /\ p.receipt = NoReceipt /\ r # NoReceipt
    /\ \/ p.tier = "left" /\ p.write = "leave" /\ p.bytes = c
       \/ /\ p.tier = "exact" /\ c = r.post
          /\ \/ p.write = "remove" /\ p.bytes = Absent /\ r.created
             \/ p.write = "write" /\ p.bytes = b /\ b.exists /\ (kind = "skill" \/ ~r.adopted)
       \/ /\ p.tier = "structural" /\ p.write = "remove" /\ p.bytes = Absent
          /\ c.body = 0 \/ (kind = "skill" /\ p.discards)
       \/ /\ p.tier = "structural" /\ p.write = "write" /\ p.bytes \in Content /\ p.bytes.exists
          /\ p.bytes.body = IF kind = "skill" THEN 0 ELSE c.body
          /\ kind = "skill" /\ c.body # 0 => p.discards

LEMMA NotApplied == Refused.act # "apply" /\ Noop.act # "apply"
BY RefusalsTyped

\* A skill file with text of the user's is nobody's version of the skill.
LEMMA SkillWithText ==
    ASSUME NEW c \in Content, c.body # 0, NEW r, NEW force
    PROVE  current_owned("skill", c, r, force) = IF r = NoReceipt THEN "none" ELSE "edited"
  <1>1. ~IsEmpty(c) /\ \A v \in Versions : c # Whole(v)
    BY DEF IsEmpty, IsBlank, Whole
  <1> QED BY <1>1 DEF current_owned

\* What is read as no block is none, in a file with markers.
LEMMA NoneIsNone ==
    ASSUME NEW k \in Marked, NEW c \in Content, NEW r, NEW force
    PROVE  current_owned(k, c, r, force) = "none" <=> c.blocks = <<>>
  <1>1. c.blocks \in Seq(Block) /\ Len(c.blocks) \in Nat
    BY DEF Content
  <1>2. CASE c.blocks = <<>>
    BY <1>2 DEF current_owned, find_owned_block, Marked
  <1>3. CASE c.blocks # <<>>
    <2>1. Len(c.blocks) # 0
      BY <1>1, <1>3
    <2>2. find_owned_block(c) # "none"
      <3>1. CASE Len(c.blocks) = 1
        <4>1. c.blocks[1] \in Block
          BY <1>1, <3>1
        <4> QED BY <3>1, <4>1, ProjectFileAssumption DEF find_owned_block, Block
      <3>2. CASE Len(c.blocks) # 1
        BY <2>1, <3>2 DEF find_owned_block
      <3> QED BY <3>1, <3>2
    <2> QED BY <1>3, <2>2 DEF current_owned, Marked
  <1> QED BY <1>2, <1>3

LEMMA SoundBlocks ==
    ASSUME NEW c \in Content, Sound(c), c.blocks # <<>> \/ c.body # 0
    PROVE  c.exists
BY DEF Sound, Absent, Content

LEMMA PlanInstallShape ==
    ASSUME kind \in Kinds \ {"settings"}, NEW w \in Versions, NEW c \in Content, Sound(c),
           NEW r \in Receipts, NEW force \in BOOLEAN,
           plan_install_at(kind, w, c, r, force).act = "apply"
    PROVE  Installs(plan_install_at(kind, w, c, r, force), w, c, r)
  <1> DEFINE current == current_owned(kind, c, r, force)
             new == install_block(kind, c, current, w)
             gone == Foreign(kind, c, r, current) \/ current \notin {"none", r.owned}
             next == NextReceipt(w, c, new.text, new.separator, r)
             adopted == Install("leave", c, Adopted(w, c), FALSE)
             written == Install("write", new.text, next, gone)
             Fine(p) == p.act = "apply" => Installs(p, w, c, r)
  <1>1. Fine(Refused) /\ Fine(Noop)
    BY NotApplied
  <1>2. r = NoReceipt /\ (kind = "skill" => c = Whole(w)) => Fine(adopted)
    BY DEF Installs, Install, NoPlan, Whole
  <1>3. Installs(written, w, c, r)
    <2>1. /\ new.text \in Content /\ new.separator \in 0..2
          /\ new.text.body = IF kind = "skill" THEN 0 ELSE c.body
      <3>1. new.text.body = IF kind = "skill" THEN 0 ELSE c.body
        BY DEF install_block, Whole, Content
      <3> QED BY <3>1, InstallBlockTyped
    <2>2. new.text.exists
      <3>1. CASE kind = "skill"
        BY <3>1 DEF install_block, Whole
      <3>2. CASE kind # "skill"
        <4>1. kind \in Marked
          BY <3>2 DEF Kinds
        <4>2. current # "none" => c.exists
          BY <4>1, NoneIsNone, SoundBlocks
        <4> QED BY <3>2, <4>2 DEF install_block, Content
      <3> QED BY <3>1, <3>2
    <2>3. gone \in BOOLEAN /\ (kind = "skill" /\ c.body # 0 => gone)
      <3>1. ASSUME kind = "skill", c.body # 0  PROVE gone
        <4>1. current = IF r = NoReceipt THEN "none" ELSE "edited"
          BY <3>1, SkillWithText
        <4>2. r.owned # "edited"
          BY ProjectFileAssumption DEF Receipts
        <4> HIDE DEF current
        <4> QED BY <3>1, <4>1, <4>2 DEF Foreign, IsBlank
      <3> QED BY <3>1
    <2> HIDE DEF new, gone
    <2>4. /\ written.tier = "none" /\ written.write = "write" /\ written.bytes = new.text
          /\ written.receipt = next /\ written.discards = gone
      BY <2>3 DEF Install, NoPlan
    <2> HIDE DEF written
    <2> QED BY <2>1, <2>2, <2>3, <2>4 DEF Installs
  <1>4. Fine(written)
    BY <1>3
  <1> HIDE DEF Fine
  <1>5. Fine(plan_install_at(kind, w, c, r, force))
    BY <1>1, <1>2, <1>4 DEF plan_install_at
  <1> QED BY <1>5 DEF Fine

LEMMA HookInstallShape ==
    ASSUME kind = "settings", NEW w \in Versions, NEW c \in Content, NEW r \in Receipts,
           hook_install_at(w, c, r).act = "apply"
    PROVE  Installs(hook_install_at(w, c, r), w, c, r)
  <1> DEFINE i == First(matching_indices(c, r))
             write(u) == Install("write", u, NextReceipt(w, c, u, 0, r), FALSE)
             adopted == Install("leave", c, Adopted(w, c), FALSE)
             Fine(p) == p.act = "apply" => Installs(p, w, c, r)
  <1>1. Fine(Refused) /\ Fine(Noop)
    BY NotApplied
  <1>2. r = NoReceipt => Fine(adopted)
    BY DEF Installs, Install, NoPlan
  <1>3. ASSUME NEW u \in Content, u.exists, u.body = c.body
        PROVE  Fine(write(u))
    BY <1>3 DEF Installs, Install, NoPlan
  <1>4. push_entry(c, w) \in Content /\ push_entry(c, w).exists /\ push_entry(c, w).body = c.body
    BY EntriesTyped DEF push_entry, encode_settings
  <1>5. ASSUME Cardinality(matching_indices(c, r)) = 1
        PROVE  /\ replace_entry(c, i, w) \in Content /\ replace_entry(c, i, w).exists
               /\ replace_entry(c, i, w).body = c.body
    <2>1. /\ matching_indices(c, r) \subseteq 1..Len(c.blocks)
          /\ matching_indices(c, r) # {}
      BY <1>5, IndicesFinite, FS_EmptySet DEF matching_indices
    <2>2. i \in 1..Len(c.blocks)
      BY <2>1, FirstIsOne
    <2> HIDE DEF i
    <2> QED BY <2>2, EntriesTyped DEF replace_entry, encode_settings
  <1>6. /\ Fine(write(push_entry(c, w)))
        /\ Cardinality(matching_indices(c, r)) = 1 => Fine(write(replace_entry(c, i, w)))
    <2> HIDE DEF i, write, Fine
    <2> QED BY <1>3, <1>4, <1>5
  <1> HIDE DEF Fine
  <1>7. Fine(hook_install_at(w, c, r))
    BY <1>1, <1>2, <1>6 DEF hook_install_at
  <1> QED BY <1>7 DEF Fine

LEMMA RestoredShape ==
    ASSUME NEW c, NEW r \in Receipts, r # NoReceipt, NEW b, NEW d \in BOOLEAN,
           ExactRestore(c, r, b)
    PROVE  Removes(Restored(r, b, d), c, r, b)
BY DEF Removes, ExactRestore, Restored, Removal, NoPlan

LEMMA StructuralShape ==
    ASSUME NEW c \in Content, NEW r \in Receipts, r # NoReceipt, NEW b, NEW rest \in Content,
           NEW d \in BOOLEAN, rest.exists, rest.body = IF kind = "skill" THEN 0 ELSE c.body,
           kind = "skill" /\ c.body # 0 => d
    PROVE  Removes(Structural(r, rest, d), c, r, b)
  <1>1. CASE r.created /\ IsBlank(rest)
    <2>1. Structural(r, rest, d) = Removal("remove", Absent, "structural", FALSE, d)
      BY <1>1 DEF Structural
    <2>2. c.body = 0 \/ (kind = "skill" /\ d)
      BY <1>1 DEF IsBlank
    <2> QED BY <2>1, <2>2 DEF Removes, Removal, NoPlan
  <1>2. CASE ~(r.created /\ IsBlank(rest))
    <2>1. Structural(r, rest, d) = Removal("write", rest, "structural", FALSE, d)
      BY <1>2 DEF Structural
    <2> QED BY <2>1 DEF Removes, Removal, NoPlan
  <1> QED BY <1>1, <1>2

LEMMA PlanRemoveShape ==
    ASSUME kind \in Kinds \ {"settings"}, NEW c \in Content, Sound(c), NEW r \in Receipts,
           NEW b \in Content, NEW force \in BOOLEAN,
           plan_remove_at(kind, c, r, b, force).act = "apply"
    PROVE  Removes(plan_remove_at(kind, c, r, b, force), c, r, b)
  <1> DEFINE current == current_owned(kind, c, r, force)
             gone == current # r.owned
             rest == remove_block(kind, c, r.separator)
             Fine(p) == p.act = "apply" => Removes(p, c, r, b)
  <1>1. Fine(Refused) /\ Fine(Noop)
    BY NotApplied
  <1>2. ASSUME r # NoReceipt
        PROVE  Fine(Removal("leave", c, "left", FALSE, FALSE))
    BY <1>2 DEF Removes, Removal, NoPlan
  <1>3. ASSUME kind = "skill", r # NoReceipt, c = r.post, b.exists
        PROVE  Fine(Removal("write", b, "exact", TRUE, FALSE))
    BY <1>3 DEF Removes, Removal, NoPlan
  <1>4. gone \in BOOLEAN
    OBVIOUS
  <1>5. ASSUME r # NoReceipt, ExactRestore(c, r, b)  PROVE  Fine(Restored(r, b, gone))
    <2> HIDE DEF gone
    <2> QED BY <1>4, <1>5, RestoredShape
  <1>6. ASSUME r # NoReceipt, current # "none"  PROVE  Fine(Structural(r, rest, gone))
    <2>1. rest \in Content
      BY RemoveBlockTyped DEF Receipts
    <2>2. CASE kind = "skill"
      <3>1. rest.exists /\ rest.body = 0
        BY <2>2 DEF remove_block, Absent
      <3>2. c.body # 0 => gone
        <4>1. c.body # 0 => current = "edited"
          BY <1>6, <2>2, SkillWithText
        <4>2. r.owned # "edited"
          BY ProjectFileAssumption DEF Receipts
        <4> HIDE DEF current
        <4> QED BY <4>1, <4>2
      <3> HIDE DEF gone, rest
      <3> QED BY <1>4, <1>6, <2>1, <2>2, <3>1, <3>2, StructuralShape
    <2>3. CASE kind # "skill"
      <3>1. kind \in Marked
        BY <2>3 DEF Kinds
      <3>2. c.exists
        BY <1>6, <3>1, NoneIsNone, SoundBlocks
      <3>3. rest.exists /\ rest.body = c.body
        BY <2>3, <3>2 DEF remove_block, Content
      <3> HIDE DEF gone, rest
      <3> QED BY <1>4, <1>6, <2>1, <2>3, <3>3, StructuralShape
    <2> QED BY <2>2, <2>3
  <1> HIDE DEF Fine
  <1>7. Fine(plan_remove_at(kind, c, r, b, force))
    BY <1>1, <1>2, <1>3, <1>5, <1>6 DEF plan_remove_at
  <1> QED BY <1>7 DEF Fine

LEMMA HookRemoveShape ==
    ASSUME kind = "settings", NEW c \in Content, Sound(c), NEW r \in Receipts,
           NEW b \in Content, NEW force \in BOOLEAN,
           hook_remove_at(c, r, b, force).act = "apply"
    PROVE  Removes(hook_remove_at(c, r, b, force), c, r, b)
  <1> DEFINE matches == matching_indices(c, r)
             found == IF matches # {} THEN matches ELSE resembling_indices(c, r.owned)
             rest == remove_entry(c, First(found))
             gone == matches = {}
             Fine(p) == p.act = "apply" => Removes(p, c, r, b)
  <1>1. Fine(Refused) /\ Fine(Noop)
    BY NotApplied
  <1>2. found \subseteq 1..Len(c.blocks) /\ gone \in BOOLEAN
    BY IndicesFinite DEF matching_indices, resembling_indices
  <1>3. ASSUME r # NoReceipt, ExactRestore(c, r, b)  PROVE  Fine(Restored(r, b, gone))
    <2> HIDE DEF gone
    <2> QED BY <1>2, <1>3, RestoredShape
  <1>4. ASSUME r # NoReceipt, found # {}  PROVE  Fine(Structural(r, rest, gone))
    <2>1. First(found) \in 1..Len(c.blocks)
      <3> HIDE DEF found
      <3> QED BY <1>2, <1>4, FirstIsOne
    <2>2. c.exists
      <3>1. c.blocks # <<>>
        BY <2>1
      <3> QED BY <3>1, SoundBlocks
    <2>3. rest \in Content /\ rest.exists /\ rest.body = c.body
      <3>1. rest \in Content
        BY <2>1, RemoveEntryTyped
      <3> QED BY <2>2, <3>1 DEF remove_entry, Content
    <2> HIDE DEF gone, rest
    <2> QED BY <1>2, <1>4, <2>3, StructuralShape
  <1> HIDE DEF Fine
  <1>5. Fine(hook_remove_at(c, r, b, force))
    BY <1>1, <1>3, <1>4 DEF hook_remove_at
  <1> QED BY <1>5 DEF Fine

LEMMA PlanShape ==
    ASSUME kind \in Kinds, NEW v \in Versions \cup {"none"}, NEW force \in BOOLEAN,
           NEW c \in Content, Sound(c), NEW r \in Receipts, NEW b \in Content,
           PlanFor(v, force, c, r, b).act = "apply"
    PROVE  /\ v # "none" => v \in Versions /\ Installs(PlanFor(v, force, c, r, b), v, c, r)
           /\ v = "none" => Removes(PlanFor(v, force, c, r, b), c, r, b)
  <1>1. CASE v # "none" /\ kind = "settings"
    BY <1>1, HookInstallShape DEF PlanFor
  <1>2. CASE v # "none" /\ kind # "settings"
    BY <1>2, PlanInstallShape DEF PlanFor
  <1>3. CASE v = "none" /\ kind = "settings"
    BY <1>3, HookRemoveShape DEF PlanFor
  <1>4. CASE v = "none" /\ kind # "settings"
    BY <1>4, PlanRemoveShape DEF PlanFor
  <1> QED BY <1>1, <1>2, <1>3, <1>4

-----------------------------------------------------------------------------
(* The user's text.                                                        *)

\* Texts are typed once: none is newer than the last edit.
Bounded ==
    /\ target.body <= edits + 1 /\ backup.body <= edits + 1 /\ receipt.post.body <= edits + 1
    /\ proc.original.body <= edits + 1 /\ proc.plan.bytes.body <= edits + 1
    /\ proc.plan.receipt.post.body <= edits + 1

\* The file was looked at, and not replaced since; it was looked at.
Compared == {"assert_receipt", "backup", "write"}
Looked == Compared \cup {"write_receipt", "compare", "restore"}

\* Once the backup holds another text than the one the receipt speaks of, that
\* one does not come back: the file never again is what the receipt recorded.
OldText ==
    ~receipt.adopted /\ receipt.post.body # 0 /\ backup.exists /\ backup.body # receipt.post.body =>
      /\ target.body # receipt.post.body
      /\ proc.pc \in Looked => proc.original.body # receipt.post.body

\* What was saved after the look is new.
Newer ==
    proc.pc \in Compared =>
      target.body = proc.original.body \/ target.body # receipt.post.body

\* A file the manager made has text in it only from a later install.
MadeAgain == receipt.created /\ receipt.post.body # 0 => since.again

\* Between the backup and the receipt of an install.
Saved ==
    proc.pc \in {"write", "write_receipt"} /\ proc.plan.tier = "none" =>
      /\ proc.receipt # NoReceipt => since.again
      /\ proc.plan.write = "write" /\ proc.original.exists => backup = proc.original

TextInv ==
    /\ Sound(target) /\ Sound(backup) /\ Sound(proc.original)
    /\ kind = "skill" => receipt.post.body = 0
    /\ Bounded /\ OldText /\ Newer /\ MadeAgain /\ Saved

\* The file is what the command saw, or what it wrote, unless somebody saved it
\* since the command looked.
NothingUnseen ==
    ~since.unseen =>
      /\ proc.pc \in Compared => target = proc.original
      /\ \/ proc.pc = "restore"
         \/ proc.pc = "write_receipt" /\ kind = "settings" /\ proc.plan.write # "leave"
         => target = After(proc.plan, proc.original)

\* The plan at hand.
LEMMA WorkShape ==
    ASSUME IInv, Sound(proc.original), proc.pc # "idle"
    PROVE  \/ \E v \in Versions : Installs(proc.plan, v, proc.original, proc.receipt)
           \/ \E kept \in Content : /\ Removes(proc.plan, proc.original, proc.receipt, kept)
                                    /\ proc.pc = "write" => kept = backup
  <1>1. kind \in Kinds /\ proc.original \in Content /\ proc.receipt \in Receipts
    BY FileApplyAssumption DEF IInv, Types, Commands
  <1>2. PICK force \in BOOLEAN, v \in Versions \cup {"none"}, kept \in Content :
          /\ proc.plan = PlanFor(v, force, proc.original, proc.receipt, kept)
          /\ BackupAsPlanned => kept = backup
    BY DEF IInv, AtWork
  <1>3. proc.plan.act = "apply"
    BY DEF IInv, AtWork
  <1>4. CASE v # "none"
    BY <1>1, <1>2, <1>3, <1>4, PlanShape
  <1>5. CASE v = "none"
    <2>1. Removes(proc.plan, proc.original, proc.receipt, kept)
      BY <1>1, <1>2, <1>3, <1>5, PlanShape
    <2>2. proc.plan.tier # "none"
      BY <2>1 DEF Removes
    <2> QED BY <1>2, <2>1, <2>2 DEF BackupAsPlanned
  <1> QED BY <1>4, <1>5

\* What a plan leaves, and the texts in it.
LEMMA ShapeAfter ==
    ASSUME NEW c \in Content, Sound(c), NEW r \in Receipts, NEW b \in Content, Sound(b), NEW p,
           Removes(p, c, r, b) \/ \E v \in Versions : Installs(p, v, c, r)
    PROVE  /\ Sound(After(p, c)) /\ After(p, c).body \in {0, c.body, b.body}
           /\ p.tier = "none" => After(p, c).body \in {0, c.body}
           /\ p.bytes.body \in {0, c.body, b.body} /\ p.receipt.post.body \in {0, c.body}
  <1>1. Absent.body = 0 /\ Sound(Absent) /\ NoReceipt.post = Absent
    BY DEF Absent, Sound, NoReceipt
  <1>2. CASE Removes(p, c, r, b)
    BY <1>1, <1>2 DEF Removes, After, Sound
  <1>3. ASSUME NEW v \in Versions, Installs(p, v, c, r)
        PROVE  /\ Sound(After(p, c)) /\ After(p, c).body \in {0, c.body}
               /\ p.bytes.body \in {0, c.body} /\ p.receipt.post.body \in {0, c.body}
    BY <1>3 DEF Installs, After, Sound, Adopted, NextReceipt
  <1> QED BY <1>2, <1>3

LEMMA TextInit == Init => TextInv
  <1> SUFFICES ASSUME Init  PROVE TextInv
    OBVIOUS
  <1>1. Sound(target) /\ target.body \in {0, 1} /\ edits = 0
    BY DEF Init, Sound, Absent
  <1>2. /\ backup = Absent /\ receipt = NoReceipt /\ proc.original = Absent /\ proc.pc = "idle"
        /\ proc.plan.bytes = Absent /\ proc.plan.receipt = NoReceipt
    BY DEF Init, Idle, NoPlan
  <1>3. Absent.body = 0 /\ Sound(Absent) /\ NoReceipt.post = Absent /\ ~NoReceipt.created
    BY DEF Absent, Sound, NoReceipt
  <1> QED BY <1>1, <1>2, <1>3 DEF TextInv, Bounded, OldText, Newer, MadeAgain, Saved, Looked,
                                  Compared

LEMMA IdleText ==
    /\ Idle.original = Absent /\ Sound(Absent) /\ Absent.body = 0 /\ Idle.pc = "idle"
    /\ Idle.plan.bytes = Absent /\ Idle.plan.receipt.post = Absent
BY DEF Idle, NoPlan, NoReceipt, Absent, Sound

LEMMA EndText ==
    ASSUME NEW status, End(status)
    PROVE  /\ proc'.original = Absent /\ Sound(Absent) /\ Absent.body = 0 /\ proc'.pc = "idle"
           /\ proc'.plan.bytes = Absent /\ proc'.plan.receipt.post = Absent
BY DEF End, Idle, NoPlan, NoReceipt, Absent, Sound

LEMMA GotoText ==
    ASSUME IInv, NEW pc, Goto(pc)
    PROVE  /\ proc'.pc = pc /\ proc'.plan = proc.plan /\ proc'.original = proc.original
           /\ proc'.receipt = proc.receipt
BY DEF Goto, IInv, Types, Commands

\* Steps of a command put no new text anywhere.
LEMMA NoNewText ==
    ASSUME IInv, TextInv, edits' = edits,
           \/ \E pc : Goto(pc)
           \/ \E status : End(status),
           target'.body \in {0, target.body, proc.original.body, proc.plan.bytes.body},
           backup'.body \in {0, backup.body, proc.original.body},
           receipt'.post.body \in {receipt.post.body, proc.plan.receipt.post.body}
    PROVE  Bounded'
  <1>1. edits \in Nat
    BY FileApplyAssumption DEF IInv, Types
  <1>2. /\ proc'.original.body \in {0, proc.original.body}
        /\ proc'.plan.bytes.body \in {0, proc.plan.bytes.body}
        /\ proc'.plan.receipt.post.body \in {0, proc.plan.receipt.post.body}
    <2>1. ASSUME NEW pc, Goto(pc)
          PROVE  proc'.original = proc.original /\ proc'.plan = proc.plan
      BY <2>1, GotoText
    <2>2. ASSUME NEW status, End(status)
          PROVE  /\ proc'.original.body = 0 /\ proc'.plan.bytes.body = 0
                 /\ proc'.plan.receipt.post.body = 0
      BY <2>2, EndText
    <2> QED BY <2>1, <2>2
  <1> QED BY <1>1, <1>2 DEF TextInv, Bounded

LEMMA PlanText == IInv /\ TextInv /\ Plan => TextInv'
  <1> SUFFICES ASSUME IInv, TextInv, Plan  PROVE TextInv'
    OBVIOUS
  <1>1. PICK force \in BOOLEAN, v \in Versions \cup {"none"} :
          LET plan == PlanFor(v, force, target, receipt, backup)
          IN  proc' = IF plan.act = "apply"
                        THEN [pc |-> "planned", plan |-> plan, original |-> target,
                              receipt |-> receipt, status |-> "none"]
                        ELSE Idle
    BY Zenon DEF Plan
  <1> DEFINE plan == PlanFor(v, force, target, receipt, backup)
  <1>2. /\ kind \in Kinds /\ target \in Content /\ receipt \in Receipts /\ backup \in Content
        /\ edits \in Nat
    BY FileApplyAssumption DEF IInv, Types
  <1>3. CASE plan.act # "apply"
    BY <1>1, <1>2, <1>3, IdleText DEF TextInv, Plan, Sound, Bounded, OldText, Newer, MadeAgain,
                                      Saved, Looked, Compared
  <1>4. CASE plan.act = "apply"
    <2>1. /\ plan.bytes.body \in {0, target.body, backup.body}
          /\ plan.receipt.post.body \in {0, target.body}
      <3>1. Sound(target) /\ Sound(backup)
        BY DEF TextInv
      <3>2. \/ v \in Versions /\ Installs(plan, v, target, receipt)
            \/ Removes(plan, target, receipt, backup)
        BY <1>2, <1>4, <3>1, PlanShape
      <3> HIDE DEF plan
      <3> QED BY <1>2, <3>1, <3>2, ShapeAfter
    <2>2. proc'.pc = "planned" /\ proc'.original = target /\ proc'.plan = plan
      BY <1>1, <1>4
    <2> HIDE DEF plan
    <2>3. UNCHANGED <<kind, target, receipt, backup, edits, since>>
      BY DEF Plan
    <2>4. target.body \in Nat /\ backup.body \in Nat
      BY <1>2 DEF Content
    <2>5. Bounded'
      BY <1>2, <2>1, <2>2, <2>3, <2>4 DEF TextInv, Bounded
    <2> QED BY <2>2, <2>3, <2>5 DEF TextInv, Sound, OldText, Newer, MadeAgain, Saved, Looked,
                                    Compared
  <1> QED BY <1>3, <1>4

LEMMA AssertText == IInv /\ TextInv /\ (AssertTarget \/ AssertReceipt) => TextInv'
  <1> SUFFICES ASSUME IInv, TextInv, AssertTarget \/ AssertReceipt  PROVE TextInv'
    OBVIOUS
  <1>1. /\ UNCHANGED <<kind, target, receipt, backup, edits>> /\ since'.again = since.again
        /\ \/ proc.pc = "planned" /\ Goto("assert_receipt") /\ target = proc.original
           \/ proc.pc = "assert_receipt" /\ Goto("backup")
           \/ End("changed")
    BY DEF AssertTarget, AssertReceipt, IInv, Types, Histories
  <1>2. Bounded'
    BY <1>1, NoNewText
  <1>3. CASE End("changed")
    BY <1>1, <1>2, <1>3, EndText DEF TextInv, Sound, OldText, Newer, MadeAgain, Saved, Looked, Compared
  <1>4. CASE proc.pc = "planned" /\ Goto("assert_receipt") /\ target = proc.original
    BY <1>1, <1>2, <1>4, GotoText
       DEF TextInv, Sound, OldText, Newer, MadeAgain, Saved, Looked, Compared
  <1>5. CASE proc.pc = "assert_receipt" /\ Goto("backup")
    BY <1>1, <1>2, <1>5, GotoText
       DEF TextInv, Sound, OldText, Newer, MadeAgain, Saved, Looked, Compared
  <1> QED BY <1>1, <1>3, <1>4, <1>5

LEMMA WriteBackupText == IInv /\ TextInv /\ WriteBackup => TextInv'
  <1> SUFFICES ASSUME IInv, TextInv, WriteBackup  PROVE TextInv'
    OBVIOUS
  <1>1. /\ proc.pc = "backup" /\ UNCHANGED <<kind, target, receipt, edits>>
        /\ backup' \in {backup, proc.original} /\ (since.again => since'.again)
        /\ End("aborted") \/ Goto("write")
    BY BackupOutcome
  <1>2. Bounded' /\ Sound(backup)'
    BY <1>1, NoNewText DEF TextInv, Sound
  <1>3. OldText'
    <2>1. proc.original.body # receipt.post.body /\ receipt.post.body # 0
            => target.body # receipt.post.body
      BY <1>1 DEF TextInv, Newer, Compared
    <2>2. proc'.pc \in Looked => proc'.original = proc.original
      BY <1>1, GotoText, EndText DEF Looked, Compared
    <2> QED BY <1>1, <2>1, <2>2 DEF TextInv, OldText, Looked, Compared
  <1>4. MadeAgain'
    BY <1>1 DEF TextInv, MadeAgain
  <1>5. CASE End("aborted")
    BY <1>1, <1>2, <1>3, <1>4, <1>5, EndText DEF TextInv, Sound, Newer, Saved, Compared
  <1>6. CASE Goto("write") /\ (BacksUp(proc.plan, proc.original) => backup' = proc.original)
    <2>1. Saved'
      BY <1>6, GotoText, BackupOutcome DEF Saved, BacksUp
    <2>2. Newer' /\ Sound(proc.original)'
      BY <1>1, <1>6, GotoText DEF TextInv, Newer, Compared, Sound
    <2> QED BY <1>1, <1>2, <1>3, <1>4, <2>1, <2>2 DEF TextInv, Sound
  <1> QED BY <1>5, <1>6, BackupOutcome

LEMMA WriteTargetText == IInv /\ TextInv /\ WriteTarget => TextInv'
  <1> SUFFICES ASSUME IInv, TextInv, WriteTarget  PROVE TextInv'
    OBVIOUS
  <1>0. /\ proc.original \in Content /\ proc.receipt \in Receipts /\ backup \in Content
        /\ target \in Content
    BY DEF IInv, Types, Commands
  <1>1. /\ proc.pc = "write" /\ UNCHANGED <<kind, receipt, backup, edits>>
        /\ target' \in {target, After(proc.plan, proc.original)}
        /\ since'.again = since.again
        /\ End("aborted") \/ End("unsynced") \/ Goto("write_receipt")
    BY WriteOutcomes
  <1>2. Bounded'
    <2>1. After(proc.plan, proc.original).body \in {0, proc.original.body, proc.plan.bytes.body}
      BY DEF After, Absent, IInv, Types, Commands, Plans
    <2> QED BY <1>1, <2>1, NoNewText
  <1>3. /\ Sound(After(proc.plan, proc.original))
        /\ After(proc.plan, proc.original).body \in {0, proc.original.body, backup.body}
    <2>1. \/ \E v \in Versions : Installs(proc.plan, v, proc.original, proc.receipt)
          \/ Removes(proc.plan, proc.original, proc.receipt, backup)
      BY <1>1, WorkShape DEF TextInv
    <2> QED BY <1>0, <2>1, ShapeAfter DEF TextInv
  <1>4. Sound(target)'
    BY <1>1, <1>3 DEF TextInv, Sound
  <1>5. OldText'
    <2>1. proc'.pc \in Looked => proc'.original = proc.original
      BY <1>1, GotoText, EndText DEF Looked, Compared
    <2> QED BY <1>1, <1>3, <2>1 DEF TextInv, OldText, Looked, Compared
  <1>6. CASE End("aborted") \/ End("unsynced")
    BY <1>1, <1>2, <1>4, <1>5, <1>6, EndText
       DEF TextInv, Sound, Newer, MadeAgain, Saved, Compared
  <1>7. CASE Goto("write_receipt")
    BY <1>1, <1>2, <1>4, <1>5, <1>7, GotoText
       DEF TextInv, Sound, Newer, MadeAgain, Saved, Compared
  <1> QED BY <1>1, <1>6, <1>7

LEMMA WriteReceiptText == IInv /\ TextInv /\ WriteReceipt => TextInv'
  <1> SUFFICES ASSUME IInv, TextInv, WriteReceipt  PROVE TextInv'
    OBVIOUS
  <1>1. /\ proc.pc = "write_receipt" /\ UNCHANGED <<kind, target, backup, edits>>
        /\ receipt' \in {receipt, proc.plan.receipt}
        /\ (\E status : End(status)) \/ \E pc \in {"remove_backup", "compare", "restore"} : Goto(pc)
        /\ receipt' # proc.plan.receipt \/ proc.receipt # NoReceipt => UNCHANGED since
    BY ReceiptOutcomes
  <1>2. proc.original \in Content /\ proc.receipt \in Receipts
    BY DEF IInv, Types, Commands
  <1>3. /\ proc'.pc \in {"idle", "remove_backup", "compare", "restore"} /\ Sound(proc.original)'
        /\ proc'.pc \in Looked => proc'.original = proc.original
    BY <1>1, EndText, GotoText DEF TextInv, Sound, Looked, Compared
  <1>4. Bounded'
    BY <1>1, NoNewText
  <1>5. (kind = "skill" => receipt.post.body = 0)' /\ OldText' /\ MadeAgain'
    <2>1. CASE receipt' # proc.plan.receipt
      BY <1>1, <1>3, <2>1 DEF TextInv, OldText, MadeAgain, Looked, Compared
    <2>2. CASE receipt' = proc.plan.receipt
      <3>1. CASE proc.plan.receipt = NoReceipt
        BY <2>2, <3>1 DEF OldText, MadeAgain, NoReceipt, Absent
      <3>2. ASSUME NEW v \in Versions, Installs(proc.plan, v, proc.original, proc.receipt)
            PROVE  (kind = "skill" => receipt.post.body = 0)' /\ OldText' /\ MadeAgain'
        <4>1. CASE receipt' = Adopted(v, proc.original) /\ (kind = "skill" => proc.original.body = 0)
          BY <1>1, <4>1 DEF OldText, MadeAgain, Adopted
        <4>2. CASE /\ proc.plan.tier = "none" /\ proc.plan.write = "write"
                   /\ proc.plan.bytes.body = IF kind = "skill" THEN 0 ELSE proc.original.body
                   /\ \E s \in 0..2 : receipt' =
                        NextReceipt(v, proc.original, proc.plan.bytes, s, proc.receipt)
          <5>1. /\ receipt'.post = proc.plan.bytes
                /\ receipt'.created = IF proc.receipt = NoReceipt THEN ~proc.original.exists
                                      ELSE proc.receipt.created
            BY <4>2 DEF NextReceipt
          <5>2. receipt'.post.body # 0 => /\ kind # "skill" /\ proc.original.exists
                                          /\ receipt'.post.body = proc.original.body
            BY <1>2, <4>2, <5>1, SoundBlocks DEF TextInv
          <5>3. receipt'.post.body # 0 => backup = proc.original
            BY <1>1, <4>2, <5>2 DEF TextInv, Saved
          <5>4. proc.receipt # NoReceipt => since.again
            BY <1>1, <4>2 DEF TextInv, Saved
          <5>5. OldText'
            BY <1>1, <5>2, <5>3 DEF OldText
          <5>6. MadeAgain'
            BY <1>1, <5>1, <5>2, <5>4 DEF MadeAgain
          <5> QED BY <1>1, <5>2, <5>5, <5>6
        <4> QED BY <2>2, <3>2, <4>1, <4>2 DEF Installs
      <3> QED BY <1>1, <3>1, <3>2, WorkShape DEF TextInv, Removes
    <2> QED BY <2>1, <2>2
  <1>6. (Sound(target) /\ Sound(backup) /\ Newer /\ Saved)'
    BY <1>1, <1>3 DEF TextInv, Sound, Newer, Saved, Compared
  <1> QED BY <1>3, <1>4, <1>5, <1>6 DEF TextInv

LEMMA UndoText == IInv /\ TextInv /\ (Compare \/ Restore) => TextInv'
  <1> SUFFICES ASSUME IInv, TextInv, Compare \/ Restore  PROVE TextInv'
    OBVIOUS
  <1>1. /\ UNCHANGED <<kind, receipt, backup, edits, since>>
        /\ target' \in {target, proc.original} /\ proc.pc \in {"compare", "restore"}
        /\ (\E status : End(status)) \/ Goto("restore")
    BY UndoOutcomes
  <1>2. Bounded'
    BY <1>1, NoNewText
  <1>3. /\ proc'.pc \in {"idle", "restore"} /\ Sound(proc.original)'
        /\ proc'.pc \in Looked => proc'.original = proc.original
    BY <1>1, EndText, GotoText DEF TextInv, Sound, Looked, Compared
  <1>4. OldText'
    BY <1>1, <1>3 DEF TextInv, OldText, Looked, Compared
  <1> QED BY <1>1, <1>2, <1>3, <1>4 DEF TextInv, Sound, Newer, MadeAgain, Saved, Compared

LEMMA RemoveBackupText == IInv /\ TextInv /\ RemoveBackup => TextInv'
  <1> SUFFICES ASSUME IInv, TextInv, RemoveBackup  PROVE TextInv'
    OBVIOUS
  <1>1. /\ UNCHANGED <<kind, target, receipt, edits, since>> /\ backup' \in {backup, Absent}
        /\ \E status : End(status)
    BY LastOutcomes
  <1>2. /\ proc'.original = Absent /\ Sound(Absent) /\ Absent.body = 0 /\ proc'.pc = "idle"
        /\ ~Absent.exists
    BY <1>1, EndText DEF Absent
  <1>3. Bounded'
    BY <1>1, <1>2, NoNewText
  <1> QED BY <1>1, <1>2, <1>3 DEF TextInv, Sound, OldText, Newer, MadeAgain, Saved, Looked, Compared

LEMMA CrashText == IInv /\ TextInv /\ Crash => TextInv'
  <1> SUFFICES ASSUME IInv, TextInv, Crash  PROVE TextInv'
    OBVIOUS
  <1>1. proc' = Idle /\ UNCHANGED <<kind, target, receipt, backup, edits, since>>
    BY DEF Crash
  <1>2. edits \in Nat
    BY FileApplyAssumption DEF IInv, Types
  <1>3. Bounded'
    BY <1>1, <1>2, IdleText DEF TextInv, Bounded
  <1> QED BY <1>1, <1>3, IdleText DEF TextInv, Sound, OldText, Newer, MadeAgain, Saved, Looked,
                                      Compared

\* What the user can do to the file, and when.
LEMMA UserDoesThis ==
    ASSUME IInv, Sound(target), User
    PROVE  /\ UNCHANGED <<kind, backup, proc, pristine>> /\ edits' = edits + 1
           /\ since'.again = since.again
           /\ Sound(target') /\ target'.body \in {0, target.body, edits + 2}
           /\ receipt' \in {receipt, NoReceipt}
           /\ proc.pc \notin {"idle", "planned"} =>
                target' = NewText /\ target'.body = edits + 2 /\ receipt' = receipt /\ EditAtWork
  <1>1. /\ UNCHANGED <<kind, backup, proc, pristine>> /\ edits' = edits + 1
        /\ EditAtWork \/ \E how \in {"body", "more"} : Touch(how)
    BY DEF User, Edit, EditAtWork, EditGap, EditBlocks, Delete, DropReceipt, Paste, Act, Does
  <1>2. since'.again = since.again
    <2>1. CASE EditAtWork
      BY <2>1 DEF EditAtWork, IInv, Types, Histories
    <2>2. ASSUME NEW how, Touch(how)  PROVE since'.again = since.again
      BY <2>2 DEF Touch, IInv, Types, Histories
    <2> QED BY <1>1, <2>1, <2>2
  <1>3. /\ receipt' \in {receipt, NoReceipt}
        /\ proc.pc \notin {"idle", "planned"} => target' = NewText /\ receipt' = receipt /\ EditAtWork
    BY DEF User, Edit, EditAtWork, EditGap, EditBlocks, Delete, DropReceipt, Paste, Act
  <1>5. NewText.body = edits + 2
    BY DEF NewText, IInv, Types, Content
  <1>4. Sound(target') /\ target'.body \in {0, target.body, edits + 2}
    <2>1. target \in Content
      BY DEF IInv, Types
    <2>2. CASE Edit \/ EditAtWork
      BY <2>1, <2>2 DEF Edit, EditAtWork, NewText, Content, Sound
    <2>3. CASE EditGap
      BY <2>1, <2>3 DEF EditGap, Content, Sound
    <2>4. CASE EditBlocks
      <3>1. target.exists
        <4>1. target.blocks # <<>>
          BY <2>4 DEF EditBlocks
        <4> QED BY <2>1, <4>1, SoundBlocks
      <3>2. \E b : target' = [target EXCEPT !.blocks = b]
        BY <2>4 DEF EditBlocks
      <3> QED BY <2>1, <3>1, <3>2 DEF Content, Sound
    <2>5. CASE Delete
      BY <2>5 DEF Delete, Sound, Absent
    <2>6. CASE DropReceipt
      BY <2>6 DEF DropReceipt
    <2>7. CASE Paste
      <3>1. PICK v \in Versions :
              target' = IF kind = "skill" THEN Whole(v)
                        ELSE [target EXCEPT !.exists = TRUE, !.blocks = <<Exact(v)>>]
        BY <2>7 DEF Paste
      <3> QED BY <2>1, <3>1 DEF Whole, Content, Sound
    <2> QED BY <2>2, <2>3, <2>4, <2>5, <2>6, <2>7 DEF User
  <1> QED BY <1>1, <1>2, <1>3, <1>4, <1>5

LEMMA UserText == IInv /\ TextInv /\ User => TextInv'
  <1> SUFFICES ASSUME IInv, TextInv, User  PROVE TextInv'
    OBVIOUS
  <1>1. /\ UNCHANGED <<kind, backup, proc, pristine>> /\ edits' = edits + 1
        /\ since'.again = since.again
        /\ Sound(target') /\ target'.body \in {0, target.body, edits + 2}
        /\ receipt' \in {receipt, NoReceipt}
        /\ proc.pc \notin {"idle", "planned"} => target'.body = edits + 2 /\ receipt' = receipt
    BY UserDoesThis DEF TextInv
  <1>2. /\ edits \in Nat /\ target.body \in Nat /\ receipt.post.body \in Nat
        /\ backup.body \in Nat /\ proc.original.body \in Nat /\ proc.plan.bytes.body \in Nat
        /\ proc.plan.receipt.post.body \in Nat
    <2>1. /\ edits \in Nat /\ target \in Content /\ receipt \in Receipts /\ backup \in Content
          /\ proc.original \in Content /\ proc.plan \in Plans
      BY FileApplyAssumption DEF IInv, Types, Commands
    <2>2. /\ receipt.post \in Content /\ proc.plan.bytes \in Content
          /\ proc.plan.receipt.post \in Content
      BY <2>1 DEF Plans, Receipts
    <2>3. \A c \in Content : c.body \in Nat
      BY DEF Content
    <2> QED BY <2>1, <2>2, <2>3
  <1>3. NoReceipt.post.body = 0 /\ ~NoReceipt.created
    BY DEF NoReceipt, Absent
  <1>4. Bounded'
    BY <1>1, <1>2, <1>3 DEF TextInv, Bounded
  <1>5. OldText' /\ Newer'
    <2>1. edits + 2 # receipt.post.body
      BY <1>2 DEF TextInv, Bounded
    <2>2. OldText'
      BY <1>1, <1>3, <2>1 DEF TextInv, OldText
    <2>3. Newer'
      BY <1>1, <2>1 DEF Newer, Compared
    <2> QED BY <2>2, <2>3
  <1>6. Saved'
    BY <1>1 DEF TextInv, Saved
  <1> QED BY <1>1, <1>3, <1>4, <1>5, <1>6 DEF TextInv, Sound, MadeAgain

LEMMA NextText == IInv /\ TextInv /\ [Next]_vars => TextInv'
  <1>1. TextInv /\ UNCHANGED vars => TextInv'
    BY DEF vars, TextInv, Sound, Bounded, OldText, Newer, MadeAgain, Saved
  <1> QED BY <1>1, PlanText, AssertText, WriteBackupText, WriteTargetText, WriteReceiptText,
             UndoText, RemoveBackupText, CrashText, UserText DEF Next, Apply

LEMMA TextInvariant == Spec => []TextInv
BY TextInit, NextText, FileInvariant, PTL DEF Spec

LEMMA NextUnseen == IInv /\ TextInv /\ NothingUnseen /\ [Next]_vars => NothingUnseen'
  <1> SUFFICES ASSUME IInv, TextInv, NothingUnseen, [Next]_vars, ~since'.unseen
               PROVE  /\ proc'.pc \in Compared => target' = proc'.original
                      /\ \/ proc'.pc = "restore"
                         \/ proc'.pc = "write_receipt" /\ kind' = "settings"
                              /\ proc'.plan.write # "leave"
                         => target' = After(proc.plan, proc.original)'
    BY DEF NothingUnseen
  <1>0. /\ \A pc : Goto(pc) => /\ proc'.pc = pc /\ proc'.original = proc.original
                               /\ proc'.plan = proc.plan
                               /\ After(proc.plan, proc.original)' = After(proc.plan, proc.original)
        /\ \A status : End(status) => proc'.pc = "idle"
    BY GotoText, EndText DEF After
  <1>1. CASE AssertTarget
    BY <1>0, <1>1 DEF AssertTarget, Compared
  <1>2. CASE AssertReceipt
    BY <1>0, <1>2 DEF AssertReceipt, NothingUnseen, Compared
  <1>3. CASE WriteBackup
    BY <1>0, <1>3, BackupOutcome DEF NothingUnseen, Compared
  <1>4. CASE WriteTarget
    BY <1>0, <1>4, WriteOutcomes DEF Compared
  <1>5. CASE WriteReceipt
    BY <1>0, <1>5, ReceiptOutcomes DEF NothingUnseen, Compared
  <1>6. CASE Compare \/ Restore
    BY <1>0, <1>6, UndoOutcomes DEF Compared
  <1>7. CASE RemoveBackup
    BY <1>0, <1>7, LastOutcomes DEF Compared
  <1>8. CASE Plan \/ Crash
    BY <1>8 DEF Plan, Crash, Idle, Compared
  <1>9. CASE User
    <2>1. /\ UNCHANGED <<kind, proc>>
          /\ proc.pc \notin {"idle", "planned"} => EditAtWork
      BY <1>9, UserDoesThis DEF TextInv
    <2>2. EditAtWork => ~InWindow
      BY DEF EditAtWork, IInv, Types, Histories
    <2> QED BY <2>1, <2>2 DEF InWindow, Compared
  <1>10. CASE UNCHANGED vars
    BY <1>10 DEF vars, NothingUnseen, After
  <1> QED BY <1>1, <1>2, <1>3, <1>4, <1>5, <1>6, <1>7, <1>8, <1>9, <1>10 DEF Next, Apply

\* No command loses a text it could have seen.  What the user typed is in the file
\* after every step that it was in before, through installs, updates, removals and
\* restores from the backup, after any edits, crashes and failures, before and
\* after publication.  The statement excepts what the plan said it would discard,
\* a file the manager made and installed into again, and what was saved between
\* the last look at the file and its replacement or its undoing.
THEOREM TextSurvives == Spec => UserTextPreserved
  <1> DEFINE Kept ==
        LosesText => proc.plan.discards \/ (receipt.created /\ since.again) \/ since.unseen
  <1>1. IInv /\ TextInv /\ ReceiptAsPlanned /\ NothingUnseen /\ [Next]_vars => [Kept]_vars
    <2> SUFFICES ASSUME IInv, TextInv, ReceiptAsPlanned, NothingUnseen, Next, edits' = edits,
                        target.body # 0, target'.body # target.body, ~since.unseen,
                        ~(/\ proc.pc = "restore"
                          /\ target = After(proc.plan, proc.original) /\ target' = proc.original)
                 PROVE  proc.plan.discards \/ (receipt.created /\ since.again)
      BY DEF LosesText, ManagerStep
    <2>1. /\ kind \in Kinds /\ target \in Content /\ receipt \in Receipts /\ backup \in Content
          /\ edits \in Nat
      BY FileApplyAssumption DEF IInv, Types
    <2>2. CASE WriteTarget
      <3>1. /\ proc.pc = "write" /\ target = proc.original /\ receipt = proc.receipt
            /\ target' = After(proc.plan, target)
        <4>1. /\ proc.pc = "write" /\ target' = After(proc.plan, proc.original)
          BY <2>2, WriteOutcomes
        <4> QED BY <4>1 DEF NothingUnseen, ReceiptAsPlanned, Compared
      <3>2. \/ \E v \in Versions : Installs(proc.plan, v, target, receipt)
            \/ Removes(proc.plan, target, receipt, backup)
        BY <3>1, WorkShape DEF TextInv
      <3>3. ASSUME NEW v \in Versions, Installs(proc.plan, v, target, receipt)
            PROVE  proc.plan.discards
        BY <3>1, <3>3 DEF Installs, After
      <3>4. CASE Removes(proc.plan, target, receipt, backup)
        <4>1. CASE proc.plan.tier = "exact"
          <5>1. kind # "skill" /\ target = receipt.post
            BY <3>4, <4>1 DEF Removes, TextInv
          <5>2. CASE receipt.created
            BY <5>1, <5>2 DEF TextInv, MadeAgain
          <5>3. CASE ~receipt.created
            <6>1. target' = backup /\ backup.exists /\ ~receipt.adopted
              BY <3>1, <3>4, <4>1, <5>1, <5>3 DEF Removes, After
            <6> QED BY <5>1, <6>1 DEF TextInv, OldText
          <5> QED BY <5>2, <5>3
        <4>2. CASE proc.plan.tier # "exact"
          BY <3>1, <3>4, <4>2 DEF Removes, After
        <4> QED BY <4>1, <4>2
      <3> QED BY <3>2, <3>3, <3>4
    <2>3. CASE Compare \/ Restore
      <3>1. /\ Compare => target' = target
            /\ Restore => proc.pc = "restore" /\ target' \in {target, proc.original}
        BY <2>3, UndoOutcomes
      <3> QED BY <2>3, <3>1 DEF NothingUnseen
    <2>4. CASE AssertTarget \/ AssertReceipt \/ WriteBackup \/ WriteReceipt \/ RemoveBackup
      BY <2>4 DEF AssertTarget, AssertReceipt, WriteBackup, WriteReceipt, RemoveBackup
    <2>5. CASE Plan \/ Crash
      BY <2>5 DEF Plan, Crash
    <2>6. CASE User
      BY <2>1, <2>6, UserCounts
    <2> QED BY <2>2, <2>3, <2>4, <2>5, <2>6 DEF Next, Apply
  <1>2. Init => NothingUnseen
    BY DEF Init, Idle, NothingUnseen, Compared
  <1> QED BY <1>1, <1>2, NextUnseen, FileInvariant, TextInvariant, ReceiptInvariant, PTL
          DEF Spec, UserTextPreserved

-----------------------------------------------------------------------------
(* Removing undoes installing.                                             *)

\* What a first install into c leaves in its receipt.
Wrote(r, c) ==
    /\ kind \in Marked =>
         /\ r.post.exists /\ r.owned \in Versions /\ r.post.blocks = <<Exact(r.owned)>>
         /\ find_owned_block(c) # r.owned
         /\ c.blocks = <<>> => r.post.gap = c.gap + r.separator
    /\ kind = "settings" =>
         Indices(c, r.owned, "exact") = {} /\ Indices(c, r.owned, "edited") = {}

\* The receipt, the backup and the file q from before the install agree.
Known(r, q, b) ==
    /\ Sound(q) /\ r.pre = q /\ r.created = ~q.exists /\ (q.exists => b = q)
    /\ Wrote(r, q)

\* The file without the block, and with it, whatever the user's text.
Without(c, q) == c.blocks = <<>> /\ c.gap = q.gap
With(c, r) == c.exists /\ c.blocks = r.post.blocks /\ c.gap = r.post.gap

LEMMA FirstInstallKnown ==
    ASSUME kind \in Kinds, NEW v \in Versions, NEW force \in BOOLEAN, NEW c \in Content, Sound(c),
           NEW b \in Content, NEW p, p = PlanFor(v, force, c, NoReceipt, b),
           p.act = "apply", p.write = "write", c.exists => b = c
    PROVE  /\ Known(p.receipt, c, b) /\ p.receipt.post = p.bytes /\ ~p.receipt.adopted
           /\ p.receipt # NoReceipt /\ ~p.remove_backup
           /\ kind \in Marked => p.bytes.exists
  <1>0. NoReceipt \in Receipts /\ NoReceipt.owned = "none" /\ ~NoReceipt.adopted
        /\ "none" \notin Versions
    BY AbsentTyped, ProjectFileAssumption DEF NoReceipt
  <1> DEFINE Fine(x) == x.act = "apply" /\ x.write = "write" =>
               /\ x.receipt.pre = c /\ x.receipt.created = ~c.exists /\ x.receipt.post = x.bytes
               /\ ~x.receipt.adopted /\ x.receipt.owned = v /\ ~x.remove_backup
               /\ Wrote(x.receipt, c)
  <1>1. Fine(Refused) /\ Fine(Noop) /\ Fine(Install("leave", c, Adopted(v, c), FALSE))
    BY NotApplied DEF Install, NoPlan
  <1>2. CASE kind = "settings"
    <2> DEFINE write(u) == Install("write", u, NextReceipt(v, c, u, 0, NoReceipt), FALSE)
    <2>1. matching_indices(c, NoReceipt) = {}
      <3>1. \A j \in DOMAIN c.blocks : c.blocks[j] \in Block
        BY DEF Content
      <3> QED BY <1>0, <3>1 DEF matching_indices, Indices, Block
    <2>2. /\ Cardinality(matching_indices(c, NoReceipt)) = 0
          /\ Cardinality(matching_indices(c, NoReceipt)) # 1
      BY <2>1, FS_EmptySet
    <2>3. ASSUME Cardinality(identical_indices(c, v)) = 0, Cardinality(resembling_indices(c, v)) = 0
          PROVE  Fine(write(push_entry(c, v)))
      <3>1. identical_indices(c, v) = {} /\ resembling_indices(c, v) = {}
        BY <2>3, IndicesFinite, FS_EmptySet DEF identical_indices, resembling_indices
      <3>2. kind \notin Marked
        BY <1>2 DEF Marked
      <3> QED BY <1>0, <3>1, <3>2 DEF Install, NoPlan, NextReceipt, Wrote, identical_indices,
                                      resembling_indices
    <2> HIDE DEF Fine
    <2>4. Fine(hook_install_at(v, c, NoReceipt))
      <3> DEFINE fresh == /\ Cardinality(identical_indices(c, v)) = 0
                          /\ Cardinality(resembling_indices(c, v)) = 0
      <3>1. CASE fresh
        <4>1. hook_install_at(v, c, NoReceipt) = write(push_entry(c, v))
          BY <2>2, <3>1 DEF hook_install_at
        <4> QED BY <2>3, <3>1, <4>1
      <3>2. CASE ~fresh /\ Cardinality(identical_indices(c, v)) = 1
        <4>1. hook_install_at(v, c, NoReceipt) = Install("leave", c, Adopted(v, c), FALSE)
          BY <2>2, <3>2 DEF hook_install_at
        <4> QED BY <1>1, <4>1
      <3>3. CASE ~fresh /\ Cardinality(identical_indices(c, v)) # 1
        <4>1. hook_install_at(v, c, NoReceipt) = Refused
          <5> DEFINE matches == Cardinality(matching_indices(c, NoReceipt))
                     identical == Cardinality(identical_indices(c, v))
                     resembling == Cardinality(resembling_indices(c, v))
          <5>1. /\ ~(matches = 0 /\ identical = 0 /\ resembling = 0)
                /\ ~(matches = 0 /\ identical = 1 /\ NoReceipt = NoReceipt)
                /\ ~(matches = 1 /\ NoReceipt.owned = v)
                /\ ~(matches = 1 /\ NoReceipt.owned # v)
            BY <2>2, <3>3
          <5> QED BY <5>1, Zenon DEF hook_install_at
        <4> QED BY <1>1, <4>1
      <3> QED BY <3>1, <3>2, <3>3
    <2>5. p = hook_install_at(v, c, NoReceipt)
      BY <1>0, <1>2 DEF PlanFor
    <2>6. Installs(p, v, c, NoReceipt)
      BY <1>0, <1>2, <2>5, HookInstallShape
    <2> QED BY <1>0, <2>4, <2>5, <2>6 DEF Fine, Known, Installs
  <1>3. CASE kind # "settings"
    <2> DEFINE current == current_owned(kind, c, NoReceipt, force)
               new == install_block(kind, c, current, v)
               gone == Foreign(kind, c, NoReceipt, current) \/ current \notin {"none", NoReceipt.owned}
               next == NextReceipt(v, c, new.text, new.separator, NoReceipt)
               written == Install("write", new.text, next, gone)
    <2>1. ASSUME ~(IF kind = "skill" THEN c = Whole(v) ELSE current = v)
          PROVE  Fine(written)
      <3>1. /\ next.pre = c /\ next.created = ~c.exists /\ next.post = new.text
            /\ ~next.adopted /\ next.owned = v /\ next.separator = new.separator
        BY <1>0 DEF NextReceipt
      <3>2. written.receipt = next /\ written.bytes = new.text /\ ~written.remove_backup
        <4>1. gone \in BOOLEAN
          OBVIOUS
        <4> HIDE DEF gone, next, new
        <4> QED BY <4>1 DEF Install, NoPlan
      <3>3. Wrote(next, c)
        <4>1. CASE kind \in Marked
          <5>1. new.text.blocks = <<Exact(v)>> /\ new.text.exists
            <6>1. current # "none" => c.exists
              BY <4>1, NoneIsNone, SoundBlocks
            <6> QED BY <4>1, <6>1 DEF install_block, Content, Marked
          <5>2. find_owned_block(c) # v
            BY <2>1, <4>1, ProjectFileAssumption DEF current_owned, Marked
          <5>3. c.blocks = <<>> => new.text.gap = c.gap + new.separator
            <6>1. c.blocks = <<>> => current = "none"
              BY <4>1, NoneIsNone
            <6> QED BY <4>1, <6>1 DEF install_block, Marked
          <5> HIDE DEF next, new, current
          <5> QED BY <1>3, <3>1, <5>1, <5>2, <5>3 DEF Wrote
        <4>2. CASE kind \notin Marked
          BY <1>3, <4>2 DEF Wrote
        <4> QED BY <4>1, <4>2
      <3> HIDE DEF written, next, new
      <3> QED BY <3>1, <3>2, <3>3
    <2> HIDE DEF Fine
    <2>2. Fine(plan_install_at(kind, v, c, NoReceipt, force))
      BY <1>1, <2>1 DEF plan_install_at
    <2>3. p = plan_install_at(kind, v, c, NoReceipt, force)
      BY <1>0, <1>3 DEF PlanFor
    <2>4. Installs(p, v, c, NoReceipt)
      BY <1>0, <1>3, <2>3, PlanInstallShape
    <2> QED BY <1>0, <2>2, <2>3, <2>4 DEF Fine, Known, Installs
  <1> QED BY <1>2, <1>3

\* A removal from what the install wrote puts back what was there.
LEMMA ExactIsPristine ==
    ASSUME NEW c, NEW r \in Receipts, ~r.adopted, NEW q \in Content, NEW b \in Content,
           Known(r, q, b), NEW d \in BOOLEAN
    PROVE  /\ After(Restored(r, b, d), c) = q
           /\ c = r.post => ExactRestore(c, r, b)
  <1>1. CASE r.created
    <2>1. q = Absent
      BY <1>1 DEF Known, Sound
    <2> QED BY <1>1, <2>1 DEF Restored, Removal, NoPlan, After, ExactRestore
  <1>2. CASE ~r.created
    <2>1. q.exists /\ b = q /\ r.pre = q
      BY <1>2 DEF Known, Content
    <2> QED BY <1>2, <2>1 DEF Restored, Removal, NoPlan, After, ExactRestore
  <1> QED BY <1>1, <1>2

\* A removal that applies to a marker file has a block to take out.
LEMMA MarkedRemoval ==
    ASSUME NEW k \in Marked, NEW c \in Content, NEW r \in Receipts, r # NoReceipt,
           NEW b, NEW force \in BOOLEAN, plan_remove_at(k, c, r, b, force).act = "apply"
    PROVE  LET gone == current_owned(k, c, r, force) # r.owned
           IN  /\ c.blocks # <<>>
               /\ plan_remove_at(k, c, r, b, force) =
                    IF ExactRestore(c, r, b) THEN Restored(r, b, gone)
                    ELSE Structural(r, remove_block(k, c, r.separator), gone)
  <1> DEFINE current == current_owned(k, c, r, force)
             gone == current # r.owned
             plan == plan_remove_at(k, c, r, b, force)
  <1>1. k # "skill"
    BY DEF Marked
  <1>2. current = "unreadable" => plan = Refused
    BY <1>1 DEF plan_remove_at
  <1>3. current = "none" => plan = Refused
    BY <1>1 DEF plan_remove_at
  <1>4. current \notin {"none", "unreadable"} /\ ~force /\ ~validate_ownership(r, current)
          => plan = Refused
    BY <1>1 DEF plan_remove_at
  <1>5. /\ current \notin {"none", "unreadable"}
        /\ force \/ validate_ownership(r, current)
    <2> HIDE DEF current, plan
    <2> QED BY <1>2, <1>3, <1>4, NotApplied DEF plan
  <1>6. plan = IF ExactRestore(c, r, b) THEN Restored(r, b, gone)
               ELSE Structural(r, remove_block(k, c, r.separator), gone)
    <2>1. CASE force
      BY <1>1, <1>5, <2>1 DEF plan_remove_at
    <2>2. CASE ~force
      <3>1. current = r.owned
        BY <1>5, <2>2 DEF validate_ownership
      <3> QED BY <1>1, <1>5, <2>2, <3>1 DEF plan_remove_at, validate_ownership
    <2> QED BY <2>1, <2>2
  <1>7. c.blocks # <<>>
    BY <1>5, NoneIsNone
  <1> QED BY <1>6, <1>7

LEMMA MarkedRestores ==
    ASSUME kind \in Marked, NEW c \in Content, NEW r \in Receipts, r # NoReceipt, ~r.adopted,
           NEW b \in Content, NEW q \in Content, Known(r, q, b), NEW force \in BOOLEAN,
           NEW p, p = plan_remove_at(kind, c, r, b, force), p.act = "apply"
    PROVE  /\ c.blocks # <<>>
           /\ c = r.post => After(p, c) = q
           /\ c = q => \/ After(p, c) = q
                       \/ p.discards /\ After(p, c).blocks = <<>> /\ q.blocks # <<>>
           /\ q.blocks = <<>> /\ With(c, r) => Without(After(p, c), q)
  <1> DEFINE current == current_owned(kind, c, r, force)
             gone == current # r.owned
             rest == remove_block(kind, c, r.separator)
  <1>1. /\ c.blocks # <<>>
        /\ p = IF ExactRestore(c, r, b) THEN Restored(r, b, gone) ELSE Structural(r, rest, gone)
    BY MarkedRemoval
  <1>2. gone \in BOOLEAN /\ kind # "skill"
    BY DEF Marked
  <1>3. /\ After(Restored(r, b, gone), c) = q
        /\ c = r.post => ExactRestore(c, r, b)
    <2> HIDE DEF gone
    <2> QED BY <1>2, ExactIsPristine
  <1>4. rest.blocks = <<>> /\ rest.gap = IF c.gap >= r.separator THEN c.gap - r.separator ELSE c.gap
    BY <1>2 DEF remove_block, Content
  <1>5. /\ After(Structural(r, rest, gone), c) \in {Absent, rest}
        /\ After(Structural(r, rest, gone), c) = Absent /\ rest # Absent => r.created
        /\ Structural(r, rest, gone).discards = gone
    <2> HIDE DEF rest, gone
    <2> QED BY <1>2 DEF Structural, Removal, NoPlan, After
  <1>6. c = q => gone
    <2>1. find_owned_block(q) # r.owned /\ r.owned \in Versions
      BY DEF Known, Wrote
    <2>2. r.owned # "edited"
      BY <2>1, ProjectFileAssumption
    <2> QED BY <1>2, <2>1, <2>2 DEF current_owned
  <1>7. q.blocks = <<>> /\ With(c, r) => rest.gap = q.gap
    <2> SUFFICES ASSUME q.blocks = <<>>, With(c, r)  PROVE rest.gap = q.gap
      OBVIOUS
    <2>1. c.gap = q.gap + r.separator
      BY DEF Known, Wrote, With
    <2>2. q.gap \in Nat /\ r.separator \in Nat
      BY DEF Content, Receipts
    <2> HIDE DEF rest
    <2> QED BY <1>4, <2>1, <2>2
  <1>8. r.created => q = Absent /\ Absent.blocks = <<>>
    BY DEF Known, Sound, Absent
  <1>9. Absent.blocks = <<>>
    BY DEF Absent
  <1> HIDE DEF rest, gone
  <1>10. CASE ExactRestore(c, r, b)
    <2>1. After(p, c) = q
      BY <1>1, <1>3, <1>10
    <2> QED BY <1>1, <2>1 DEF Without
  <1>11. CASE ~ExactRestore(c, r, b)
    <2>1. p = Structural(r, rest, gone)
      BY <1>1, <1>11
    <2>2. c = q => After(p, c).blocks = <<>> /\ q.blocks # <<>> /\ p.discards
      BY <1>1, <1>4, <1>5, <1>6, <1>9, <2>1
    <2>3. q.blocks = <<>> /\ With(c, r) => Without(After(p, c), q)
      BY <1>4, <1>5, <1>7, <1>8, <1>9, <2>1 DEF Without
    <2> QED BY <1>1, <1>3, <1>11, <2>2, <2>3
  <1> QED BY <1>10, <1>11

LEMMA SkillRestores ==
    ASSUME kind = "skill", NEW c \in Content, NEW r \in Receipts, r # NoReceipt, ~r.adopted,
           NEW b \in Content, NEW q \in Content, Known(r, q, b), NEW force \in BOOLEAN,
           NEW p, p = plan_remove_at(kind, c, r, b, force), p.act = "apply"
    PROVE  c \in {r.post, q} => After(p, c) = q
  <1> DEFINE current == current_owned(kind, c, r, force)
             gone == current # r.owned
             rest == remove_block(kind, c, r.separator)
             Fine(x) == x.act = "apply" => (c \in {r.post, q} => After(x, c) = q)
  <1>1. Fine(Refused) /\ Fine(Noop)
    BY NotApplied
  <1>2. gone \in BOOLEAN
    OBVIOUS
  <1>3. /\ After(Restored(r, b, gone), c) = q
        /\ c = r.post => ExactRestore(c, r, b)
    <2> HIDE DEF gone
    <2> QED BY <1>2, ExactIsPristine
  <1>4. CASE r.created
    <2>1. q = Absent
      BY <1>4 DEF Known, Sound
    <2>2. c = q => current = "none"
      BY <2>1 DEF current_owned, IsEmpty, IsBlank, Absent
    <2>3. ~ExactRestore(c, r, b) => c # r.post
      BY <1>3
    <2>4. ExactRestore(c, r, b) => Fine(Restored(r, b, gone))
      BY <1>3
    <2>5. ~ExactRestore(c, r, b) /\ current # "none" => Fine(Structural(r, rest, gone))
      <3>1. ~ExactRestore(c, r, b) /\ current # "none" => c \notin {r.post, q}
        BY <2>2, <2>3
      <3> QED BY <3>1
    <2> HIDE DEF Fine, gone
    <2>6. Fine(plan_remove_at(kind, c, r, b, force))
      BY <1>1, <1>4, <2>4, <2>5 DEF plan_remove_at, gone
    <2> QED BY <2>6 DEF Fine
  <1>5. CASE ~r.created
    <2>1. q.exists /\ b = q /\ r.pre = q
      BY <1>5 DEF Known, Content
    <2>2. /\ After(Removal("write", b, "exact", TRUE, FALSE), c) = q
          /\ After(Removal("leave", c, "left", FALSE, FALSE), c) = c
      BY <2>1 DEF Removal, NoPlan, After
    <2>3. Fine(Removal("write", b, "exact", TRUE, FALSE))
      BY <2>2
    <2>4. ~(c = r.post /\ b.exists /\ b = r.pre) => Fine(Removal("leave", c, "left", FALSE, FALSE))
      BY <2>1, <2>2
    <2> HIDE DEF Fine
    <2>5. Fine(plan_remove_at(kind, c, r, b, force))
      BY <1>1, <1>5, <2>3, <2>4 DEF plan_remove_at
    <2> QED BY <2>5 DEF Fine
  <1> QED BY <1>4, <1>5

LEMMA SettingsRestore ==
    ASSUME kind = "settings", NEW c \in Content, NEW r \in Receipts, r # NoReceipt, ~r.adopted,
           NEW b \in Content, NEW q \in Content, Known(r, q, b), NEW force \in BOOLEAN,
           NEW p, p = hook_remove_at(c, r, b, force), p.act = "apply"
    PROVE  c \in {r.post, q} => After(p, c) = q
  <1> DEFINE matches == matching_indices(c, r)
             found == IF matches # {} THEN matches ELSE resembling_indices(c, r.owned)
             rest == remove_entry(c, First(found))
             gone == matches = {}
             Fine(x) == x.act = "apply" => (c \in {r.post, q} => After(x, c) = q)
  <1>1. Fine(Refused) /\ Fine(Noop)
    BY NotApplied
  <1>2. gone \in BOOLEAN
    OBVIOUS
  <1>3. /\ After(Restored(r, b, gone), c) = q
        /\ c = r.post => ExactRestore(c, r, b)
    <2> HIDE DEF gone
    <2> QED BY <1>2, ExactIsPristine
  <1>4. c = q => found = {}
    BY DEF Known, Wrote, matching_indices, resembling_indices
  <1>5. Fine(Restored(r, b, gone))
    BY <1>3
  <1>6. found # {} /\ ~ExactRestore(c, r, b) => Fine(Structural(r, rest, gone))
    <2>1. found # {} /\ ~ExactRestore(c, r, b) => c \notin {r.post, q}
      BY <1>3, <1>4
    <2> HIDE DEF found, gone, rest
    <2> QED BY <2>1
  <1> HIDE DEF Fine
  <1>7. Fine(hook_remove_at(c, r, b, force))
    BY <1>1, <1>5, <1>6 DEF hook_remove_at
  <1> QED BY <1>7 DEF Fine

\* The receipt still speaks of the first install, and of the manager's own.
Tracked == receipt # NoReceipt /\ ~receipt.adopted /\ ~since.again

\* What the file can be: what the install wrote or what was there before it, but
\* for the user's text; a forced removal cut short can have taken out a block
\* that was there before.
InShape(c) ==
    /\ since.edited = "no" =>
         \/ c \in {receipt.post, pristine}
         \/ kind \in Marked /\ c.blocks = <<>> /\ pristine.blocks # <<>>
    /\ since.edited \in {"no", "body"} /\ kind \in Marked /\ pristine.blocks = <<>> =>
         Without(c, pristine) \/ With(c, receipt)

\* A removal under way has put the file back.
BackTo(c) ==
    /\ since.edited = "no" => c = pristine
    /\ since.edited \in {"no", "body"} /\ kind \in Marked /\ pristine.blocks = <<>> =>
         Without(c, pristine)

\* A command that fails after its look can put back what it saw there.
Traced ==
    Tracked =>
      /\ Known(receipt, pristine, backup) /\ InShape(target)
      /\ proc.pc \in Looked => InShape(proc.original)
      /\ proc.pc = "write_receipt" =>
           proc.plan.tier # "none" /\ (~proc.plan.discards => BackTo(target))
      /\ proc.pc = "remove_backup" => ~proc.plan.remove_backup

\* What is saved beside a command at work is new text, which the history tells.
Still ==
    proc.pc \in Compared =>
      /\ since.edited = "no" => target = proc.original
      /\ kind \in Marked => target.blocks = proc.original.blocks /\ target.gap = proc.original.gap

TextOnly ==
    proc.pc = "write_receipt" /\ proc.plan.tier = "none" /\ proc.plan.write = "write"
      /\ kind \in Marked
    => target.exists /\ target.blocks = proc.plan.bytes.blocks /\ target.gap = proc.plan.bytes.gap

UndoInv == Traced /\ Still /\ TextOnly

LEMMA UndoInit == Init => UndoInv
BY DEF Init, Idle, UndoInv, Traced, Tracked, Still, TextOnly, Compared

\* Steps that leave the file, the receipt, the backup and its history alone and
\* end the command, or take it from one look to the next.
LEMMA UndoIdle ==
    ASSUME UndoInv, UNCHANGED <<kind, target, receipt, backup, pristine>>,
           since'.edited = since.edited, since'.again = since.again,
           \/ proc'.pc \in {"idle", "planned"}
           \/ /\ proc'.pc \in {"assert_receipt", "backup"}
              /\ (proc.pc = "planned" /\ target = proc.original) \/ proc.pc \in Compared
              /\ proc'.original = proc.original
    PROVE  UndoInv'
  <1>1. Still' /\ TextOnly'
    BY DEF UndoInv, Still, TextOnly, Compared
  <1>2. Traced'
    <2> SUFFICES ASSUME Tracked'  PROVE Traced'
      BY DEF Traced
    <2>1. /\ Known(receipt, pristine, backup) /\ InShape(target)
          /\ proc.pc \in Looked => InShape(proc.original)
      BY DEF UndoInv, Traced, Tracked
    <2>2. (Known(receipt, pristine, backup) /\ InShape(target))'
      BY <2>1 DEF Known, Sound, Wrote, Indices, find_owned_block, InShape, Without, With
    <2>3. (proc.pc \in Looked => InShape(proc.original))'
      BY <2>1 DEF InShape, Without, With, Looked, Compared
    <2> QED BY <2>2, <2>3 DEF Traced, Looked, Compared
  <1> QED BY <1>1, <1>2 DEF UndoInv

\* A removal that was planned puts the file back.
LEMMA RemovalPutsBack ==
    ASSUME IInv, TextInv, UndoInv, Tracked, proc.pc = "write", proc.plan.tier # "none",
           receipt = proc.receipt
    PROVE  LET new == After(proc.plan, proc.original)
           IN  InShape(new) /\ (~proc.plan.discards => BackTo(new))
  <1> DEFINE c == proc.original
             p == proc.plan
             new == After(p, c)
  <1>1. /\ kind \in Kinds /\ c \in Content /\ receipt \in Receipts /\ backup \in Content
        /\ pristine \in Content /\ receipt # NoReceipt /\ ~receipt.adopted
        /\ Known(receipt, pristine, backup) /\ InShape(c) /\ Sound(c) /\ p.act = "apply"
    BY FileApplyAssumption DEF IInv, Types, Commands, AtWork, UndoInv, Traced, Tracked, TextInv,
                               Looked, Compared
  <1>2. PICK force \in BOOLEAN, v \in Versions \cup {"none"} :
          p = PlanFor(v, force, c, receipt, backup)
    BY DEF IInv, AtWork, BackupAsPlanned
  <1>3. v = "none"
    BY <1>1, <1>2, PlanShape DEF Installs
  <1> HIDE DEF c, p
  <1>4. CASE kind \in Marked
    <2>1. p = plan_remove_at(kind, c, receipt, backup, force)
      BY <1>2, <1>3, <1>4 DEF PlanFor, Marked
    <2>2. /\ c.blocks # <<>>
          /\ c = receipt.post => new = pristine
          /\ c = pristine => \/ new = pristine
                             \/ p.discards /\ new.blocks = <<>> /\ pristine.blocks # <<>>
          /\ pristine.blocks = <<>> /\ With(c, receipt) => Without(new, pristine)
      BY <1>1, <1>4, <2>1, MarkedRestores
    <2> HIDE DEF new
    <2>3. InShape(new) /\ (~p.discards => BackTo(new))
      BY <1>1, <1>4, <2>2 DEF InShape, BackTo, Without
    <2> QED BY <2>3 DEF new, c, p
  <1>5. CASE kind \notin Marked
    <2>1. c \in {receipt.post, pristine} => new = pristine
      <3>1. CASE kind = "skill"
        <4>1. p = plan_remove_at(kind, c, receipt, backup, force)
          BY <1>2, <1>3, <3>1 DEF PlanFor
        <4> QED BY <1>1, <3>1, <4>1, SkillRestores
      <3>2. CASE kind = "settings"
        <4>1. p = hook_remove_at(c, receipt, backup, force)
          BY <1>2, <1>3, <3>2 DEF PlanFor
        <4> QED BY <1>1, <3>2, <4>1, SettingsRestore
      <3> QED BY <1>1, <1>5, <3>1, <3>2 DEF Kinds
    <2> HIDE DEF new
    <2>2. InShape(new) /\ (~p.discards => BackTo(new))
      BY <1>1, <1>5, <2>1 DEF InShape, BackTo
    <2> QED BY <2>2 DEF new, c, p
  <1> QED BY <1>4, <1>5

LEMMA PlanUndo == IInv /\ UndoInv /\ (Plan \/ AssertTarget \/ AssertReceipt \/ Crash) => UndoInv'
  <1> SUFFICES ASSUME IInv, UndoInv, Plan \/ AssertTarget \/ AssertReceipt \/ Crash  PROVE UndoInv'
    OBVIOUS
  <1>1. CASE Plan \/ Crash
    <2>1. /\ proc'.pc \in {"idle", "planned"}
          /\ UNCHANGED <<kind, target, receipt, backup, pristine, since>>
      BY <1>1 DEF Plan, Crash, Idle
    <2> QED BY <2>1, UndoIdle
  <1>2. CASE AssertTarget
    <2>1. since'.edited = since.edited /\ since'.again = since.again
      BY <1>2 DEF AssertTarget, IInv, Types, Histories
    <2>2. /\ UNCHANGED <<kind, target, receipt, backup, pristine>> /\ proc.pc = "planned"
          /\ \/ Goto("assert_receipt") /\ target = proc.original
             \/ End("changed")
      BY <1>2 DEF AssertTarget
    <2>3. CASE Goto("assert_receipt") /\ target = proc.original
      BY <2>1, <2>2, <2>3, GotoText, UndoIdle
    <2>4. CASE End("changed")
      BY <2>1, <2>2, <2>4, EndText, UndoIdle
    <2> QED BY <2>2, <2>3, <2>4
  <1>3. CASE AssertReceipt
    <2>1. /\ UNCHANGED <<kind, target, receipt, backup, pristine, since>>
          /\ proc.pc = "assert_receipt" /\ (Goto("backup") \/ End("changed"))
      BY <1>3 DEF AssertReceipt
    <2>2. proc.pc \in Compared
      BY <2>1 DEF Compared
    <2>3. CASE Goto("backup")
      BY <2>1, <2>2, <2>3, GotoText, UndoIdle
    <2>4. CASE End("changed")
      BY <2>1, <2>4, EndText, UndoIdle
    <2> QED BY <2>1, <2>3, <2>4
  <1> QED BY <1>1, <1>2, <1>3

LEMMA WriteBackupUndo == IInv /\ ReceiptAsPlanned /\ UndoInv /\ WriteBackup => UndoInv'
  <1> SUFFICES ASSUME IInv, ReceiptAsPlanned, UndoInv, WriteBackup  PROVE UndoInv'
    OBVIOUS
  <1>1. /\ proc.pc = "backup" /\ UNCHANGED <<kind, target, receipt, pristine>>
        /\ backup' = backup \/ BacksUp(proc.plan, proc.original)
        /\ since'.edited = since.edited
        /\ since'.again = (since.again \/ (proc.plan.tier = "none" /\ proc.receipt # NoReceipt))
        /\ receipt = proc.receipt
        /\ \/ proc'.pc = "idle"
           \/ proc'.pc = "write" /\ proc'.original = proc.original
    BY BackupOutcome, GotoText, EndText DEF ReceiptAsPlanned
  <1>2. Still' /\ TextOnly'
    BY <1>1 DEF UndoInv, Still, TextOnly, Compared
  <1>3. ASSUME Tracked'  PROVE Traced'
    <2>1. Tracked /\ proc.plan.tier # "none" /\ backup' = backup
      BY <1>1, <1>3 DEF Tracked, BacksUp
    <2>2. Known(receipt, pristine, backup) /\ InShape(target) /\ InShape(proc.original)
      BY <1>1, <2>1 DEF UndoInv, Traced, Looked, Compared
    <2>3. (Known(receipt, pristine, backup) /\ InShape(target))'
      BY <1>1, <2>1, <2>2 DEF Known, Sound, Wrote, Indices, find_owned_block, InShape, Without, With
    <2>4. (proc.pc \in Looked => InShape(proc.original))'
      BY <1>1, <2>2 DEF InShape, Without, With, Looked, Compared
    <2> QED BY <1>1, <2>3, <2>4 DEF Traced
  <1> QED BY <1>2, <1>3 DEF UndoInv, Traced

LEMMA WriteTargetUndo == IInv /\ TextInv /\ ReceiptAsPlanned /\ UndoInv /\ WriteTarget => UndoInv'
  <1> SUFFICES ASSUME IInv, TextInv, ReceiptAsPlanned, UndoInv, WriteTarget  PROVE UndoInv'
    OBVIOUS
  <1> DEFINE new == After(proc.plan, proc.original)
  <1>1. /\ proc.pc = "write" /\ UNCHANGED <<kind, receipt, backup, pristine>>
        /\ since'.edited = since.edited /\ since'.again = since.again /\ receipt = proc.receipt
    BY WriteOutcomes DEF ReceiptAsPlanned
  <1>2. \/ /\ proc'.pc = "write_receipt" /\ proc'.plan = proc.plan
           /\ proc'.original = proc.original
           /\ target' = IF proc.plan.write = "leave" THEN target ELSE new
        \/ proc'.pc = "idle" /\ target' \in {target, new}
    BY WriteOutcomes, GotoText, EndText
  <1>3. ASSUME Tracked'  PROVE Traced'
    <2>1. Tracked /\ proc.plan.tier # "none"
      BY <1>1, <1>3 DEF Tracked, TextInv, Saved
    <2>2. Known(receipt, pristine, backup) /\ InShape(target) /\ InShape(proc.original)
      BY <1>1, <2>1 DEF UndoInv, Traced, Looked, Compared
    <2>3. InShape(new) /\ (~proc.plan.discards => BackTo(new))
      BY <1>1, <2>1, RemovalPutsBack
    <2>4. proc.plan.write = "leave" /\ ~proc.plan.discards => BackTo(target)
      <3>1. proc.plan.write = "leave" => new = proc.original
        BY DEF After
      <3> HIDE DEF new
      <3> QED BY <1>1, <2>3, <3>1 DEF UndoInv, Still, Compared, BackTo, Without
    <2>5. Known(receipt, pristine, backup)'
      BY <1>1, <2>2 DEF Known, Sound, Wrote, Indices, find_owned_block
    <2> HIDE DEF new
    <2>6. InShape(target)'
      BY <1>1, <1>2, <2>2, <2>3 DEF InShape, Without, With
    <2>7. (proc.pc \in Looked => InShape(proc.original))'
      BY <1>1, <1>2, <2>2 DEF InShape, Without, With, Looked, Compared
    <2>8. (proc.pc = "write_receipt" =>
             proc.plan.tier # "none" /\ (~proc.plan.discards => BackTo(target)))'
      BY <1>1, <1>2, <2>1, <2>3, <2>4 DEF BackTo, Without
    <2> QED BY <1>2, <2>5, <2>6, <2>7, <2>8 DEF Traced
  <1>4. TextOnly'
    <2>1. ASSUME proc.plan.tier = "none", proc.plan.write = "write"
          PROVE  proc.plan.bytes.exists /\ new = proc.plan.bytes
      <3>1. \E v \in Versions : Installs(proc.plan, v, proc.original, proc.receipt)
        BY <1>1, <2>1, WorkShape DEF TextInv, Removes
      <3> QED BY <2>1, <3>1 DEF Installs, After
    <2> HIDE DEF new
    <2> QED BY <1>1, <1>2, <2>1 DEF TextOnly
  <1>5. Still'
    BY <1>2 DEF Still, Compared
  <1> QED BY <1>3, <1>4, <1>5 DEF UndoInv, Traced

\* The receipt of a first install, published or not reported as written.
LEMMA FirstReceipt ==
    ASSUME IInv, TextInv, UndoInv, WriteReceipt, Tracked', receipt' = proc.plan.receipt
    PROVE  /\ (Known(receipt, pristine, backup) /\ InShape(target))'
           /\ (proc.pc \in Looked => InShape(proc.original))'
           /\ (proc.pc = "remove_backup" => ~proc.plan.remove_backup)'
  <1>1. /\ proc.pc = "write_receipt" /\ UNCHANGED <<kind, target, backup>>
        /\ IF proc.receipt = NoReceipt
             THEN /\ pristine' = proc.original
                  /\ since'.edited = IF target = After(proc.plan, proc.original) THEN "no" ELSE "body"
             ELSE UNCHANGED <<pristine, since>>
        /\ \/ proc'.pc = "idle"
           \/ proc'.plan = proc.plan /\ proc'.original = proc.original
    BY ReceiptOutcomes, GotoText, EndText
  <1>2. /\ kind \in Kinds /\ proc.original \in Content /\ backup \in Content
        /\ proc.receipt \in Receipts /\ Sound(proc.original) /\ proc.plan.act = "apply"
    BY <1>1, FileApplyAssumption DEF IInv, Types, Commands, AtWork, TextInv
  <1>3. PICK force \in BOOLEAN, v \in Versions \cup {"none"}, kept \in Content :
          proc.plan = PlanFor(v, force, proc.original, proc.receipt, kept)
    BY <1>1 DEF IInv, AtWork
  <1>4. v \in Versions /\ Installs(proc.plan, v, proc.original, proc.receipt)
    BY <1>2, <1>3, PlanShape DEF Removes, Tracked
  <1>5. proc.plan.tier = "none" /\ proc.plan.write = "write"
    BY <1>4 DEF Installs, Adopted, Tracked
  <1>6. proc.receipt = NoReceipt
    BY <1>1, <1>5 DEF TextInv, Saved, Tracked
  <1>7. proc.original.exists => backup = proc.original
    BY <1>1, <1>5 DEF TextInv, Saved
  <1>8. proc.plan = PlanFor(v, force, proc.original, NoReceipt, backup)
    BY <1>3, <1>4, <1>6, ProjectFileAssumption DEF PlanFor
  <1>9. /\ Known(proc.plan.receipt, proc.original, backup)
        /\ proc.plan.receipt.post = proc.plan.bytes /\ ~proc.plan.remove_backup
    BY <1>2, <1>4, <1>5, <1>7, <1>8, FirstInstallKnown
  <1>10. /\ pristine' = proc.original
         /\ since'.edited = IF target = proc.plan.bytes THEN "no" ELSE "body"
    BY <1>1, <1>5, <1>6 DEF After
  <1>11. Known(receipt, pristine, backup)'
    BY <1>1, <1>9, <1>10 DEF Known, Sound, Wrote, Indices, find_owned_block
  <1>12. kind \in Marked => With(target, proc.plan.receipt)
    BY <1>1, <1>5, <1>9 DEF UndoInv, TextOnly, With
  <1>13. InShape(target)'
    BY <1>1, <1>9, <1>10, <1>12 DEF InShape, With
  <1>14. (proc.pc \in Looked => InShape(proc.original))'
    BY <1>1, <1>10 DEF InShape, Without, Looked, Compared
  <1> QED BY <1>1, <1>9, <1>11, <1>13, <1>14

LEMMA WriteReceiptUndo == IInv /\ TextInv /\ UndoInv /\ WriteReceipt => UndoInv'
  <1> SUFFICES ASSUME IInv, TextInv, UndoInv, WriteReceipt  PROVE UndoInv'
    OBVIOUS
  <1>1. /\ proc.pc = "write_receipt" /\ UNCHANGED <<kind, target, backup>>
        /\ receipt' \in {receipt, proc.plan.receipt}
        /\ receipt' # proc.plan.receipt => UNCHANGED <<pristine, since>> /\ proc'.pc # "remove_backup"
        /\ proc'.pc \in {"idle", "remove_backup", "compare", "restore"}
        /\ \/ proc'.pc = "idle"
           \/ proc'.plan = proc.plan /\ proc'.original = proc.original
    BY ReceiptOutcomes, GotoText, EndText
  <1>2. ASSUME Tracked'
        PROVE  /\ (Known(receipt, pristine, backup) /\ InShape(target))'
               /\ (proc.pc \in Looked => InShape(proc.original))'
               /\ (proc.pc = "remove_backup" => ~proc.plan.remove_backup)'
    <2>1. CASE receipt' # proc.plan.receipt
      <3>1. Known(receipt, pristine, backup) /\ InShape(target) /\ InShape(proc.original)
        BY <1>1, <1>2, <2>1 DEF UndoInv, Traced, Tracked, Looked
      <3>2. (Known(receipt, pristine, backup) /\ InShape(target))'
        BY <1>1, <2>1, <3>1 DEF Known, Sound, Wrote, Indices, find_owned_block, InShape, Without, With
      <3>3. (proc.pc \in Looked => InShape(proc.original))'
        BY <1>1, <2>1, <3>1 DEF InShape, Without, With, Looked, Compared
      <3> QED BY <1>1, <2>1, <3>2, <3>3
    <2>2. CASE receipt' = proc.plan.receipt
      BY <1>2, <2>2, FirstReceipt
    <2> QED BY <2>1, <2>2
  <1>3. Traced'
    BY <1>1, <1>2 DEF Traced
  <1> QED BY <1>1, <1>3 DEF UndoInv, Still, TextOnly, Compared

LEMMA CompareUndo == IInv /\ UndoInv /\ (Compare \/ Restore) => UndoInv'
  <1> SUFFICES ASSUME IInv, UndoInv, Compare \/ Restore  PROVE UndoInv'
    OBVIOUS
  <1>1. /\ proc.pc \in {"compare", "restore"} /\ target' \in {target, proc.original}
        /\ UNCHANGED <<kind, receipt, backup, pristine, since>>
        /\ \/ proc'.pc = "idle"
           \/ proc'.pc = "restore" /\ proc'.original = proc.original
    BY UndoOutcomes, GotoText, EndText
  <1>2. ASSUME Tracked'
        PROVE  /\ (Known(receipt, pristine, backup) /\ InShape(target))'
               /\ (proc.pc \in Looked => InShape(proc.original))'
    <2>1. Known(receipt, pristine, backup) /\ InShape(target) /\ InShape(proc.original)
      BY <1>1, <1>2 DEF UndoInv, Traced, Tracked, Looked
    <2>2. Known(receipt, pristine, backup)'
      BY <1>1, <2>1 DEF Known, Sound, Wrote, Indices, find_owned_block
    <2>3. InShape(target)'
      BY <1>1, <2>1 DEF InShape, Without, With
    <2>4. (proc.pc \in Looked => InShape(proc.original))'
      BY <1>1, <2>1 DEF InShape, Without, With, Looked, Compared
    <2> QED BY <2>2, <2>3, <2>4
  <1>3. Traced'
    BY <1>1, <1>2 DEF Traced
  <1> QED BY <1>1, <1>3 DEF UndoInv, Still, TextOnly, Compared

LEMMA RemoveBackupUndo == IInv /\ UndoInv /\ RemoveBackup => UndoInv'
  <1> SUFFICES ASSUME IInv, UndoInv, RemoveBackup  PROVE UndoInv'
    OBVIOUS
  <1>1. /\ proc.pc = "remove_backup" /\ UNCHANGED <<kind, target, receipt, pristine, since>>
        /\ backup' = backup \/ proc.plan.remove_backup
        /\ proc'.pc = "idle"
    BY LastOutcomes, EndText
  <1>2. ASSUME Tracked'  PROVE (Known(receipt, pristine, backup) /\ InShape(target))'
    <2>1. Known(receipt, pristine, backup) /\ InShape(target) /\ backup' = backup
      BY <1>1, <1>2 DEF UndoInv, Traced, Tracked
    <2> QED BY <1>1, <2>1 DEF Known, Sound, Wrote, Indices, find_owned_block, InShape, Without, With
  <1>3. Traced'
    BY <1>1, <1>2 DEF Traced, Looked, Compared
  <1> QED BY <1>1, <1>3 DEF UndoInv, Still, TextOnly, Compared

\* What an act of the user is in the history.
LEMMA UserTells ==
    ASSUME IInv, TextInv, User
    PROVE  \/ /\ proc.pc \in {"idle", "planned"} /\ since'.edited = "more"
           \/ /\ target' = NewText /\ since'.edited # "no" /\ receipt' = receipt
              /\ since'.edited = "body" => since.edited \in {"no", "body"}
  <1>0. since \in Histories
    BY DEF IInv, Types
  <1>1. CASE EditAtWork
    BY <1>0, <1>1 DEF EditAtWork, Histories
  <1>2. CASE Edit
    BY <1>0, <1>2 DEF Edit, Touch, Histories
  <1>3. CASE EditGap \/ EditBlocks \/ Delete \/ DropReceipt \/ Paste
    <2>1. Touch("more") /\ proc.pc \in {"idle", "planned"}
      BY <1>3 DEF EditGap, EditBlocks, Delete, DropReceipt, Paste, Act
    <2> QED BY <1>0, <2>1 DEF Touch, Histories
  <1> QED BY <1>1, <1>2, <1>3 DEF User

LEMMA UserUndo == IInv /\ TextInv /\ UndoInv /\ User => UndoInv'
  <1> SUFFICES ASSUME IInv, TextInv, UndoInv, User  PROVE UndoInv'
    OBVIOUS
  <1>1. /\ UNCHANGED <<kind, backup, proc, pristine>> /\ since'.again = since.again
        /\ receipt' \in {receipt, NoReceipt}
    BY UserDoesThis DEF TextInv
  <1>2. target' = NewText /\ kind \in Marked =>
          target'.exists /\ target'.blocks = target.blocks /\ target'.gap = target.gap
    BY DEF NewText, Marked, IInv, Types, Content
  <1>3. CASE proc.pc \in {"idle", "planned"} /\ since'.edited = "more"
    <2>1. Traced'
      <3> SUFFICES ASSUME Tracked'  PROVE Traced'
        BY DEF Traced
      <3>1. Tracked /\ receipt' = receipt
        BY <1>1 DEF Tracked
      <3>2. Known(receipt, pristine, backup)'
        BY <1>1, <3>1 DEF UndoInv, Traced, Known, Sound, Wrote, Indices, find_owned_block
      <3>3. InShape(target)'
        BY <1>3 DEF InShape
      <3> QED BY <1>1, <1>3, <3>2, <3>3 DEF Traced, Looked, Compared
    <2> QED BY <1>1, <1>3, <2>1 DEF UndoInv, Still, TextOnly, Compared
  <1>4. CASE /\ target' = NewText /\ since'.edited # "no" /\ receipt' = receipt
             /\ since'.edited = "body" => since.edited \in {"no", "body"}
    <2>1. Still' /\ TextOnly'
      BY <1>1, <1>2, <1>4 DEF UndoInv, Still, TextOnly
    <2>2. Traced'
      <3> SUFFICES ASSUME Tracked'  PROVE Traced'
        BY DEF Traced
      <3>1. Tracked
        BY <1>1, <1>4 DEF Tracked
      <3>2. Known(receipt, pristine, backup)'
        BY <1>1, <1>4, <3>1 DEF UndoInv, Traced, Known, Sound, Wrote, Indices, find_owned_block
      <3>3. InShape(target)'
        BY <1>1, <1>2, <1>4, <3>1 DEF UndoInv, Traced, InShape, Without, With
      <3>4. (proc.pc \in Looked => InShape(proc.original))'
        BY <1>1, <1>4, <3>1 DEF UndoInv, Traced, InShape, Without, With, Looked, Compared
      <3>5. (proc.pc = "write_receipt" =>
               proc.plan.tier # "none" /\ (~proc.plan.discards => BackTo(target)))'
        BY <1>1, <1>2, <1>4, <3>1 DEF UndoInv, Traced, BackTo, Without
      <3>6. (proc.pc = "remove_backup" => ~proc.plan.remove_backup)'
        BY <1>1, <3>1 DEF UndoInv, Traced
      <3> QED BY <3>2, <3>3, <3>4, <3>5, <3>6 DEF Traced
    <2> QED BY <2>1, <2>2 DEF UndoInv
  <1> QED BY <1>3, <1>4, UserTells

LEMMA NextUndo == IInv /\ TextInv /\ ReceiptAsPlanned /\ UndoInv /\ [Next]_vars => UndoInv'
  <1> SUFFICES ASSUME IInv, TextInv, ReceiptAsPlanned, UndoInv, [Next]_vars  PROVE UndoInv'
    OBVIOUS
  <1>1. CASE UNCHANGED vars
    BY <1>1 DEF vars, UndoInv, Traced, Tracked, Still, TextOnly, Known, Sound, Wrote, InShape, BackTo,
                Without, With, Indices, find_owned_block
  <1> QED BY <1>1, PlanUndo, WriteBackupUndo, WriteTargetUndo, WriteReceiptUndo, CompareUndo,
             RemoveBackupUndo, UserUndo DEF Next, Apply

\* Removing undoes installing.  A removal that takes effect after an install of
\* the manager's own, with no install after it and nothing forced, leaves the
\* file from before that install, byte for byte when the user did nothing to it
\* and with the user's new text otherwise, also when earlier commands failed or
\* died halfway, before or after what they wrote was published, and when the text
\* was edited while a command was at work.
THEOREM RemovalUndoesInstall == Spec => RemovalRestores
  <1> DEFINE Undoes ==
        proc.pc = "write_receipt" /\ proc'.pc = "remove_backup" /\ proc.plan.tier # "none"
          /\ ~receipt.adopted /\ ~since.again /\ ~proc.plan.discards
        => /\ since.edited = "no" => target = pristine
           /\ since.edited = "body" /\ kind \in Marked /\ target.exists /\ pristine.blocks = <<>>
                => target = [pristine EXCEPT !.exists = TRUE, !.body = target.body]
  <1>1. IInv /\ TextInv /\ ReceiptAsPlanned /\ UndoInv => Undoes
    <2> SUFFICES ASSUME IInv, TextInv, ReceiptAsPlanned, UndoInv, proc.pc = "write_receipt",
                        proc.plan.tier # "none", ~receipt.adopted, ~since.again,
                        ~proc.plan.discards
                 PROVE  /\ since.edited = "no" => target = pristine
                        /\ since.edited = "body" /\ kind \in Marked /\ target.exists
                             /\ pristine.blocks = <<>>
                             => target = [pristine EXCEPT !.exists = TRUE, !.body = target.body]
      OBVIOUS
    <2>1. receipt = proc.receipt /\ receipt # NoReceipt
      BY WorkShape DEF TextInv, ReceiptAsPlanned, Installs, Removes
    <2>2. BackTo(target)
      BY <2>1 DEF UndoInv, Traced, Tracked
    <2>3. target \in Content /\ pristine \in Content
      BY DEF IInv, Types
    <2>4. ASSUME target.exists, Without(target, pristine), pristine.blocks = <<>>
          PROVE  target = [pristine EXCEPT !.exists = TRUE, !.body = target.body]
      BY <2>3, <2>4 DEF Without, Content
    <2> QED BY <2>2, <2>4 DEF BackTo
  <1>2. Init => UndoInv
    BY UndoInit
  <1>3. IInv /\ TextInv /\ ReceiptAsPlanned /\ UndoInv /\ [Next]_vars => UndoInv'
    BY NextUndo
  <1> QED BY <1>1, <1>2, <1>3, FileInvariant, TextInvariant, ReceiptInvariant, PTL
          DEF Spec, RemovalRestores

=============================================================================
