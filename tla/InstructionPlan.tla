-------------------------- MODULE InstructionPlan --------------------------
(***************************************************************************)
(* plan_install_at and plan_remove_at of src/instructions.rs: what         *)
(* installing or removing the manager's block, or the skill file, would do *)
(* to the content c beside its receipt and its backup.                     *)
(***************************************************************************)
EXTENDS ProjectFile

\* The owned bytes, "none", or "unreadable" when the markers are duplicated or
\* incomplete.
find_owned_block(c) ==
    CASE Len(c.blocks) = 0 -> "none"
      [] Len(c.blocks) = 1 /\ c.blocks[1].state = "exact" -> c.blocks[1].of
      [] Len(c.blocks) = 1 /\ c.blocks[1].state = "edited" -> "edited"
      [] OTHER -> "unreadable"

MutCurrentOwned(kind, c, receipt, force) ==
    IF kind # "skill" THEN find_owned_block(c)
    ELSE IF IsEmpty(c) \/ receipt = NoReceipt THEN "none" ELSE "edited"

\* With --force an unreadable region is the span over all the markers.  The
\* skill has no markers: with a receipt the whole file is the owned region.
current_owned(kind, c, receipt, force) ==
    IF kind = "skill"
      THEN CASE IsEmpty(c) \/ receipt = NoReceipt -> "none"
             [] ~IsEmpty(c) /\ receipt # NoReceipt /\ \E v \in Versions : c = Whole(v) ->
                  CHOOSE v \in Versions : c = Whole(v)
             [] OTHER -> "edited"
      ELSE IF find_owned_block(c) = "unreadable" /\ force THEN "edited" ELSE find_owned_block(c)

validate_ownership(receipt, current) == current = receipt.owned

-----------------------------------------------------------------------------

\* The line breaks put between the user's text and the block.
Separator(c) ==
    CASE IsEmpty(c) \/ c.gap = 2 -> 0
      [] ~IsEmpty(c) /\ c.gap = 1 -> 1
      [] OTHER -> 2

\* The new content and the separator to record: an update replaces the block
\* where it is and records none.
install_block(kind, c, current, v) ==
    CASE kind = "skill" -> [text |-> Whole(v), separator |-> 0]
      [] kind # "skill" /\ current # "none" ->
           [text |-> [c EXCEPT !.blocks = <<Exact(v)>>], separator |-> 0]
      [] OTHER ->
           [text |-> [exists |-> TRUE, body |-> c.body, gap |-> c.gap + Separator(c),
                      blocks |-> <<Exact(v)>>],
            separator |-> Separator(c)]

\* The block, and the recorded separator if it is still in front of it.  Of a
\* broken block only the markers go; its prose is ordinary text from then on.
remove_block(kind, c, separator) ==
    IF kind = "skill" THEN [Absent EXCEPT !.exists = TRUE]
    ELSE [c EXCEPT !.blocks = <<>>, !.gap = IF @ >= separator THEN @ - separator ELSE @]

\* Text in a file whose owned region could only be the whole of it.
Foreign(kind, c, receipt, current) ==
    kind \in {"skill", "cursor"} /\ receipt = NoReceipt /\ current = "none" /\ ~IsBlank(c)

plan_install_at(kind, v, c, receipt, force) ==
    LET current == current_owned(kind, c, receipt, force)
        new == install_block(kind, c, current, v)
        adopt == /\ receipt = NoReceipt
                 /\ IF kind = "skill" THEN c = Whole(v) ELSE current = v
        foreign == Foreign(kind, c, receipt, current)
    IN  CASE current = "unreadable" -> Refused
          [] adopt -> Install("leave", c, Adopted(v, c), FALSE)
          [] ~adopt /\ foreign /\ (kind = "cursor" \/ ~force) -> Refused
          [] ~adopt /\ ~force /\ ~validate_ownership(receipt, current) -> Refused
          [] current = v /\ receipt.owned = v -> Noop
          [] OTHER -> Install("write", new.text,
                              NextReceipt(v, c, new.text, new.separator, receipt),
                              foreign \/ current \notin {"none", receipt.owned})

\* Without a receipt a block is never removed, --force or not.  A whole file
\* the manager did not create is put back or left in place.
plan_remove_at(kind, c, receipt, backup, force) ==
    LET current == current_owned(kind, c, receipt, force)
        discards == current # receipt.owned
        rest == remove_block(kind, c, receipt.separator)
        released == kind = "skill" /\ receipt # NoReceipt /\ ~receipt.created
    IN  CASE current = "unreadable" -> Refused
          [] current # "unreadable" /\ receipt = NoReceipt ->
               IF current = "none" THEN Noop ELSE Refused
          [] released ->
               IF c = receipt.post /\ backup.exists /\ backup = receipt.pre
                 THEN Removal("write", backup, "exact", TRUE, FALSE)
                 ELSE Removal("leave", c, "left", FALSE, FALSE)
          [] ~released /\ receipt # NoReceipt /\ ~force /\ ~validate_ownership(receipt, current) ->
               Refused
          [] ~released /\ receipt # NoReceipt /\ current = "none" -> Refused
          [] OTHER ->
               IF ExactRestore(c, receipt, backup) THEN Restored(receipt, backup, discards)
               ELSE Structural(receipt, rest, discards)

=============================================================================
