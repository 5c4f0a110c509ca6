----------------------------- MODULE OwnedEntry -----------------------------
(***************************************************************************)
(* What connecting an editor promises its user.  The editor's file holds   *)
(* content of the user's and at most one Kaleidoscope entry; the manager   *)
(* claims the entry it has put there.  The manager never changes the       *)
(* content.  It changes the entry only when the entry is the one it        *)
(* claims, or there is none and it claims none; it may claim an entry that *)
(* is exactly the one it wants.  A change is followed by its claim, or     *)
(* undone, or left when the manager dies.                                  *)
(***************************************************************************)
EXTENDS Naturals

CONSTANTS
    Entries,    \* entries the manager can want
    NoEntry,    \* no entry, no claim
    Nothing     \* no change is under way

VARIABLES
    content,    \* the user's part of the file
    entry,      \* the Kaleidoscope entry in the file
    claim,      \* the entry the manager claims
    pending,    \* a change that is not claimed yet: the entry before and after
    saves       \* how often the user has touched the files

view == <<content, entry, claim, pending, saves>>

Init == claim \in {NoEntry, entry} /\ pending = Nothing /\ saves = 0

\* The user saves the file with any content and entry, or removes the receipt.
User ==
    /\ saves' = saves + 1
    /\ claim' \in {claim, NoEntry}
    /\ UNCHANGED pending

\* Adding, replacing, removing or adopting the entry.
Change ==
    /\ pending = Nothing
    /\ \E to \in Entries \cup {NoEntry} :
         /\ entry = claim \/ entry = to
         /\ entry' = to
         /\ pending' \in {Nothing, [from |-> entry, to |-> to]}
    /\ UNCHANGED <<content, claim, saves>>

Claim ==
    /\ pending # Nothing
    /\ claim' = pending.to
    /\ pending' \in {pending, Nothing}
    /\ UNCHANGED <<content, entry, saves>>

Undo ==
    /\ pending # Nothing /\ entry = pending.to
    /\ entry' = pending.from /\ pending' = Nothing
    /\ UNCHANGED <<content, claim, saves>>

Abandon == pending' = Nothing /\ UNCHANGED <<content, entry, claim, saves>>

Next == User \/ Change \/ Claim \/ Undo \/ Abandon

Spec == Init /\ [][Next]_view

=============================================================================
