--------------------------- MODULE HostImplements ---------------------------
(***************************************************************************)
(* HostApply implements OwnedEntry: the entry is the one in the target,    *)
(* the claim is the receipt, and a change is under way from the write of   *)
(* the target until the receipt is settled.                                *)
(***************************************************************************)
EXTENDS HostApply

CONSTANT Nothing    \* no change is under way

ASSUME NothingAssumption ==
    Nothing \notin [from : Entries \cup Foreign \cup {NoEntry}, to : Entries \cup {NoEntry}]

Claimed(r) == IF r = Absent THEN NoEntry ELSE r.owned

Unsettled == {p \in Procs : proc[p].pc \in {"write_receipt", "compare", "restore"}}

Pending ==
    IF Unsettled = {} THEN Nothing
    ELSE LET p == CHOOSE q \in Unsettled : TRUE
         IN  [from |-> Document(proc[p].original).entry,
              to   |-> Claimed(proc[p].plan.receipt_after)]

Owned == INSTANCE OwnedEntry WITH
    content <- Document(target).rest, entry <- Document(target).entry,
    claim <- Claimed(receipt), pending <- Pending, saves <- edits

\* Every step of a manager, of two managers at once, of a failing or a dying
\* one is one the user was promised: it leaves the user's content alone,
\* touches no entry it does not claim, and settles the receipt or undoes itself.
ImplementsOwnedEntry == Owned!Spec

=============================================================================
