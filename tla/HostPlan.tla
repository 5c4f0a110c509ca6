------------------------------ MODULE HostPlan ------------------------------
(***************************************************************************)
(* The planners of src/host.rs: what connect and disconnect decide to do   *)
(* with one editor configuration file, from a snapshot of that file, of    *)
(* the ownership receipt beside it and of the backup beside it.            *)
(*                                                                         *)
(* A configuration file holds the user's own content (rest), at most one   *)
(* Kaleidoscope entry, and a layout: for the JSON hosts whether the bytes  *)
(* are the user's formatting or the manager's pretty form, for Codex how   *)
(* many newlines precede the marker block (or end the file when there is   *)
(* none).  A digest is the bytes themselves; it does not cover the mode.   *)
(***************************************************************************)
EXTENDS FsSafe, Naturals

CONSTANTS
    Format,     \* "json_entry" or "codex_marker_block"
    Entries,    \* the entries the manager can want: one per profile and engine
    Foreign,    \* entries under the manager's key that it would never write
    NoEntry,    \* the file holds no Kaleidoscope entry
    Rests,      \* the user's own content of the file
    Empty,      \* no content of the user's
    NoDigest    \* the digest fields of a receipt of an older manager

ASSUME HostPlanAssumption ==
    /\ Format \in {"json_entry", "codex_marker_block"}
    /\ NoEntry \notin Entries \cup Foreign
    /\ Entries \cap Foreign = {}
    /\ Empty \in Rests

Codex == Format = "codex_marker_block"

Layouts == IF Codex THEN 0..2 ELSE {"user", "pretty"}
UserLayouts == IF Codex THEN 0..2 ELSE {"user"}
NewLayout == IF Codex THEN 0 ELSE "pretty"

Bytes == [rest : Rests, entry : Entries \cup Foreign \cup {NoEntry}, layout : Layouts]
NoBytes == [rest |-> Empty, entry |-> NoEntry, layout |-> NewLayout]

Modes == {"private", "shared"}
Snapshots == [bytes : Bytes, mode : Modes] \cup {Absent}

Receipts == [owned : Entries,
             pre : Bytes \cup {Absent, NoDigest}, post : Bytes \cup {NoDigest},
             created : BOOLEAN, adopted : BOOLEAN]

\* The parsed document; no file and a blank file parse alike.
Document(snapshot) == IF snapshot = Absent THEN NoBytes ELSE snapshot.bytes

Digest(snapshot) == IF snapshot = Absent THEN Absent ELSE snapshot.bytes

-----------------------------------------------------------------------------
(* Writing the entry into a document, and taking it back out.              *)

\* install_codex_block replaces a block in place, or appends one after a
\* blank line; the JSON hosts re-encode the whole document.
install(doc, desired) ==
    [rest   |-> doc.rest,
     entry  |-> desired,
     layout |-> CASE ~Codex -> "pretty"
                  [] Codex /\ doc.entry # NoEntry -> doc.layout
                  [] Codex /\ doc.entry = NoEntry -> IF doc = NoBytes THEN 0 ELSE 2]

\* remove_codex_block without the test that there is a newline to take.
MutRemoveCodexBlock(doc, inserted_separator) ==
    [doc EXCEPT !.entry = NoEntry, !.layout = IF inserted_separator THEN doc.layout - 1 ELSE @]

\* Cuts the block and, unless it was adopted, one newline of a blank line
\* in front of it.
remove_codex_block(doc, inserted_separator) ==
    [doc EXCEPT !.entry = NoEntry,
                !.layout = IF inserted_separator /\ doc.layout = 2 THEN 1 ELSE @]

\* The document without the entry: excised from the text when json_span can
\* prove the cut right, re-encoded otherwise (which is a matter of how the
\* text is spelled, so either can happen to a user-formatted file).
remove_json_path(doc) ==
    {[doc EXCEPT !.entry = NoEntry], [doc EXCEPT !.entry = NoEntry, !.layout = "pretty"]}

removed(doc, receipt) ==
    IF Codex THEN {remove_codex_block(doc, ~receipt.adopted)} ELSE remove_json_path(doc)

-----------------------------------------------------------------------------

Write(bytes) == [kind |-> "write", bytes |-> bytes]
Remove == [kind |-> "remove", bytes |-> NoBytes]
Leave == [kind |-> "leave", bytes |-> NoBytes]

\* TargetWrite::resulting_bytes: what the plan leaves on disk.
resulting_bytes(write, original) ==
    CASE write.kind = "write"  -> write.bytes
      [] write.kind = "remove" -> Absent
      [] write.kind = "leave"  -> Digest(original)

\* connect writes nothing into a file that already holds exactly the entry it
\* wants; it records that it owns the entry from now on.
Adopt(original, desired) ==
    [write |-> Leave, restore |-> "none", remove_backup |-> FALSE,
     receipt_after |-> [owned |-> desired, pre |-> Digest(original), post |-> Digest(original),
                        created |-> FALSE, adopted |-> TRUE]]

\* Add or update: created, pre and adopted are kept from the old receipt.
AddOrUpdate(original, receipt, desired) ==
    LET updated == install(Document(original), desired)
    IN  [write |-> Write(updated), restore |-> "none", remove_backup |-> FALSE,
         receipt_after |->
           [owned   |-> desired,
            pre     |-> IF receipt = Absent \/ receipt.pre = NoDigest
                          THEN Digest(original) ELSE receipt.pre,
            post    |-> updated,
            created |-> IF receipt = Absent THEN original = Absent ELSE receipt.created,
            adopted |-> receipt # Absent /\ receipt.adopted]]

\* The plan of a connect that has something to apply.  There is none when the
\* connection is already as wanted, when an entry has no receipt and is not
\* the one wanted, and when the entry is not the one the receipt records.
plan_connect(original, receipt, desired) ==
    LET current == Document(original).entry
    IN  IF receipt = Absent
          THEN CASE current = desired -> {Adopt(original, desired)}
                 [] current = NoEntry -> {AddOrUpdate(original, receipt, desired)}
                 [] OTHER -> {}
          ELSE IF receipt.owned = current /\ current # desired
                 THEN {AddOrUpdate(original, receipt, desired)} ELSE {}

\* resolve_restore trusting the backup without comparing its digest.
MutResolveRestore(original, backup, receipt, structural) ==
    IF ~receipt.adopted /\ Digest(original) = receipt.post /\ (receipt.created \/ backup # Absent)
      THEN [restore |-> "byte_identical", remove_backup |-> TRUE,
            write |-> IF receipt.created THEN Remove ELSE Write(backup)]
      ELSE [restore |-> "structural", remove_backup |-> FALSE, write |-> structural]

\* resolve_restore treating an adopted entry like one the manager wrote.
MutResolveAdopted(original, backup, receipt, structural) ==
    IF Digest(original) = receipt.post /\ (receipt.created \/ receipt.adopted \/ backup = receipt.pre)
      THEN [restore |-> "byte_identical", remove_backup |-> TRUE,
            write |-> IF receipt.created THEN Remove ELSE Write(receipt.pre)]
      ELSE [restore |-> "structural", remove_backup |-> FALSE, write |-> structural]

\* The tier of a removal: exact when the file is what the manager last wrote
\* and what was there before it is known, structural otherwise.
resolve_restore(original, backup, receipt, structural) ==
    LET file_is_ours  == receipt.post # NoDigest /\ Digest(original) = receipt.post
        backup_is_pre == backup # Absent /\ receipt.pre # NoDigest /\ backup = receipt.pre
    IN  IF ~receipt.adopted /\ file_is_ours /\ (receipt.created \/ backup_is_pre)
          THEN [restore |-> "byte_identical", remove_backup |-> TRUE,
                write |-> IF receipt.created THEN Remove ELSE Write(backup)]
          ELSE [restore |-> "structural", remove_backup |-> FALSE, write |-> structural]

\* plan_disconnect deleting a created file whatever else it holds.
MutPlanDisconnect(original, backup, receipt) ==
    LET doc == Document(original)
        structural(text) == IF receipt.created THEN Remove ELSE Write(text)
        tier(text) == resolve_restore(original, backup, receipt, structural(text))
    IN  IF receipt = Absent \/ receipt.owned # doc.entry
          THEN {}
          ELSE {[write |-> tier(text).write, restore |-> tier(text).restore,
                 remove_backup |-> tier(text).remove_backup, receipt_after |-> Absent] :
                   text \in removed(doc, receipt)}

\* The plans of a disconnect: none without a receipt (nothing to remove, or an
\* entry that is not the manager's) or when the entry is not the recorded one.
plan_disconnect(original, backup, receipt) ==
    LET doc == Document(original)
        structural(text) == IF receipt.created /\ text.rest = Empty THEN Remove ELSE Write(text)
        tier(text) == resolve_restore(original, backup, receipt, structural(text))
    IN  IF receipt = Absent \/ receipt.owned # doc.entry
          THEN {}
          ELSE {[write |-> tier(text).write, restore |-> tier(text).restore,
                 remove_backup |-> tier(text).remove_backup, receipt_after |-> Absent] :
                   text \in removed(doc, receipt)}

\* What the target should be right after apply wrote it.
snapshot_for_write(write, original) ==
    CASE write.kind = "write" -> [bytes |-> write.bytes,
                                  mode |-> IF original = Absent THEN "none" ELSE original.mode]
      [] write.kind = "remove" -> Absent
      [] write.kind = "leave" -> original

=============================================================================
