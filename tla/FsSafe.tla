------------------------------- MODULE FsSafe -------------------------------
(***************************************************************************)
(* The file primitives of src/fs_safe.rs that every writer of the manager  *)
(* shares: the published effect of an atomic write, of a removal and of a  *)
(* restore, as the set of outcomes the calling process can observe.        *)
(*                                                                         *)
(* A write goes to a private temporary file that is renamed over the       *)
(* target, so a reader sees the old bytes or the new ones.  It can fail    *)
(* before the rename (nothing published) or after it, in the fsync of the  *)
(* parent directory (published, and an error is returned all the same).    *)
(***************************************************************************)

CONSTANTS
    Absent,     \* the content of a path where there is no file
    Faults      \* which input/output failures may happen, a subset of AllFaults

\* Where a write or removal can fail, and the two other failing calls.
AllFaults == {"before_publish", "after_publish", "lock_write"}

ASSUME FaultsAssumption == Faults \subseteq AllFaults

Outcome(ok, file) == [ok |-> ok, file |-> file]

\* Replace whatever is at a path by new; old is what is there now.
atomic_write(old, new) ==
    {Outcome(TRUE, new)}
      \cup (IF "before_publish" \in Faults THEN {Outcome(FALSE, old)} ELSE {})
      \cup (IF "after_publish" \in Faults THEN {Outcome(FALSE, new)} ELSE {})

\* Unlink a path; a path with no file is success without a system call.
atomic_remove(old) ==
    IF old = Absent THEN {Outcome(TRUE, Absent)} ELSE atomic_write(old, Absent)

\* Put a remembered snapshot back: rewrite its bytes, or unlink.
restore_snapshot(old, snapshot) ==
    IF snapshot = Absent THEN atomic_remove(old) ELSE atomic_write(old, snapshot)

=============================================================================
