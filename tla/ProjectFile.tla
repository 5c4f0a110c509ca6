---------------------------- MODULE ProjectFile ----------------------------
(***************************************************************************)
(* A file the manager shares with the user: an agent instruction file      *)
(* (AGENTS.md, CLAUDE.md, the Cursor rule), the skill file, or the         *)
(* settings.json of Claude Code.                                           *)
(*                                                                         *)
(* A content is the user's text, the line breaks after it, and the owned   *)
(* blocks, or the SessionStart entries, in order.  For settings.json the   *)
(* line breaks stand for the formatting: 2 is what the encoder writes.     *)
(* Contents are equal exactly when their digests are.                      *)
(***************************************************************************)
EXTENDS Naturals, Sequences

CONSTANTS
    Versions,   \* canonical blocks of the manager's versions; profiles, for the hook
    MaxText     \* the user's texts are 1..MaxText; 0 is no text

ASSUME ProjectFileAssumption ==
    MaxText \in Nat /\ Versions \cap {"none", "edited", "unreadable"} = {}

Marked == {"agents", "cursor"}      \* an owned block between markers
Kinds == Marked \cup {"skill", "settings"}

Block == [of : Versions, state : {"exact", "edited", "broken"}]
Exact(v) == [of |-> v, state |-> "exact"]

Content == [exists : BOOLEAN, body : 0..MaxText, gap : 0..2, blocks : Seq(Block)]

Absent == [exists |-> FALSE, body |-> 0, gap |-> 0, blocks |-> <<>>]

IsBlank(c) == c.body = 0 /\ c.blocks = <<>>
IsEmpty(c) == IsBlank(c) /\ c.gap = 0

\* The file that holds the skill of one version and nothing else.
Whole(v) == [exists |-> TRUE, body |-> 0, gap |-> 0, blocks |-> <<Exact(v)>>]

NoReceipt == [owned |-> "none", pre |-> Absent, post |-> Absent, separator |-> 0,
              created |-> FALSE, adopted |-> FALSE]

-----------------------------------------------------------------------------
(* Plans.                                                                  *)

NoPlan == [act |-> "none", write |-> "leave", bytes |-> Absent, receipt |-> NoReceipt,
           tier |-> "none", remove_backup |-> FALSE, discards |-> FALSE]

Refused == [NoPlan EXCEPT !.act = "refused"]
Noop == [NoPlan EXCEPT !.act = "noop"]

Install(write, bytes, receipt, discards) ==
    [NoPlan EXCEPT !.act = "apply", !.write = write, !.bytes = bytes, !.receipt = receipt,
                   !.discards = discards]

Removal(write, bytes, tier, remove_backup, discards) ==
    [NoPlan EXCEPT !.act = "apply", !.write = write, !.bytes = bytes, !.tier = tier,
                   !.remove_backup = remove_backup, !.discards = discards]

\* What the receipt of an install records: the first pre-install content and
\* whether the manager made the file are kept from the receipt before it.
NextReceipt(v, c, updated, separator, old) ==
    LET first == old = NoReceipt
    IN  [owned |-> v, pre |-> IF first THEN c ELSE old.pre, post |-> updated,
         separator |-> separator, created |-> IF first THEN ~c.exists ELSE old.created,
         adopted |-> old.adopted]

Adopted(v, c) ==
    [owned |-> v, pre |-> c, post |-> c, separator |-> 0, created |-> FALSE, adopted |-> TRUE]

MutExactRestore(c, receipt, backup) ==
    ~receipt.adopted /\ (receipt.created \/ (backup.exists /\ backup = receipt.pre))

\* Tier 1: the file is what the manager wrote and what was there before is known.
ExactRestore(c, receipt, backup) ==
    /\ ~receipt.adopted /\ c = receipt.post
    /\ receipt.created \/ (backup.exists /\ backup = receipt.pre)

Restored(receipt, backup, discards) ==
    IF receipt.created THEN Removal("remove", Absent, "exact", TRUE, discards)
    ELSE Removal("write", backup, "exact", TRUE, discards)

\* Tier 2: the owned part is taken out of what is there now, and a file the
\* manager made goes when nothing is left in it.
Structural(receipt, rest, discards) ==
    IF receipt.created /\ IsBlank(rest)
      THEN Removal("remove", Absent, "structural", FALSE, discards)
      ELSE Removal("write", rest, "structural", FALSE, discards)

=============================================================================
