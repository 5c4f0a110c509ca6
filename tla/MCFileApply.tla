---------------------------- MODULE MCFileApply ----------------------------
(* What the user does and what fails, per kind of file.  The Cursor rule    *)
(* differs from AGENTS.md only in what it does with text of the user's own. *)
EXTENDS FileApply, TLC

UserDoes == [k \in Kinds |->
    CASE k = "agents" -> AllUserActs
      [] k = "cursor" -> {"edit", "edit_block", "drop_receipt", "paste", "crash"}
      [] k = "skill" -> {"edit", "edit_at_work", "edit_block", "delete", "drop_receipt", "paste", "crash"}
      [] k = "settings" -> {"edit", "edit_at_work", "edit_block", "duplicate_block", "drop_block",
                            "delete", "drop_receipt", "paste", "crash"}]

ThingsFail == [k \in Kinds |-> IF k = "cursor" THEN {} ELSE AllFaults]

\* The versions are interchangeable.
Swap == Permutations(Versions)

=============================================================================
