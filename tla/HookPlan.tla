------------------------------ MODULE HookPlan ------------------------------
(***************************************************************************)
(* plan_install_at and plan_remove_at of src/hooks.rs: what installing or  *)
(* removing the SessionStart entry of a profile would do to settings.json. *)
(* An entry is the profile's exact one, or an edited one that still runs   *)
(* the profile's command.  Other hooks are the user's text.                *)
(***************************************************************************)
EXTENDS ProjectFile, FiniteSets

Indices(c, v, state) == {i \in DOMAIN c.blocks : c.blocks[i] = [of |-> v, state |-> state]}

\* The entry the receipt names; without one, none.
matching_indices(c, receipt) == Indices(c, receipt.owned, "exact")
identical_indices(c, v) == Indices(c, v, "exact")
resembling_indices(c, v) == Indices(c, v, "edited")

\* Everything is encoded anew, in the encoder's formatting.
encode_settings(c, blocks) == [exists |-> TRUE, body |-> c.body, gap |-> 2, blocks |-> blocks]

push_entry(c, v) == encode_settings(c, Append(c.blocks, Exact(v)))
replace_entry(c, i, v) == encode_settings(c, [c.blocks EXCEPT ![i] = Exact(v)])

\* The entry's own bytes are cut out and the formatting of the rest is kept.
remove_entry(c, i) ==
    [c EXCEPT !.blocks = SubSeq(@, 1, i - 1) \o SubSeq(@, i + 1, Len(@))]

First(indices) == CHOOSE i \in indices : \A j \in indices : i <= j

MutHookInstall(v, c, receipt) ==
    IF matching_indices(c, receipt) = {}
      THEN Install("write", push_entry(c, v), NextReceipt(v, c, push_entry(c, v), 0, receipt), FALSE)
      ELSE Noop

hook_install_at(v, c, receipt) ==
    LET matches == Cardinality(matching_indices(c, receipt))
        identical == Cardinality(identical_indices(c, v))
        resembling == Cardinality(resembling_indices(c, v))
        write(new) == Install("write", new, NextReceipt(v, c, new, 0, receipt), FALSE)
    IN  CASE matches = 0 /\ identical = 0 /\ resembling = 0 -> write(push_entry(c, v))
          [] matches = 0 /\ identical = 1 /\ receipt = NoReceipt ->
               Install("leave", c, Adopted(v, c), FALSE)
          [] matches = 1 /\ receipt.owned = v -> Noop
          [] matches = 1 /\ receipt.owned # v ->
               write(replace_entry(c, First(matching_indices(c, receipt)), v))
          [] OTHER -> Refused

\* Never "the first one" of several; an edited entry only with --force.
hook_remove_at(c, receipt, backup, force) ==
    LET matches == matching_indices(c, receipt)
        resembling == resembling_indices(c, receipt.owned)
        found == IF matches # {} THEN matches ELSE resembling
        rest == remove_entry(c, First(found))
    IN  CASE receipt = NoReceipt \/ found = {} -> Noop
          [] Cardinality(matches) > 1 \/ (found # {} /\ matches = {} /\ ~force) -> Refused
          [] OTHER ->
               IF ExactRestore(c, receipt, backup) THEN Restored(receipt, backup, matches = {})
               ELSE Structural(receipt, rest, matches = {})

=============================================================================
