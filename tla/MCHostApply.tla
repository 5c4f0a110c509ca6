---------------------------- MODULE MCHostApply ----------------------------
(* Starting states for HostApply.                                          *)
EXTENDS HostImplements, TLC

UserFile(entries) ==
    {[bytes |-> [rest |-> r, entry |-> e, layout |-> l], mode |-> "shared"] :
       r \in Rests, e \in entries, l \in UserLayouts}

\* A file of the user's, without an entry and with some content.
Existing == {f \in UserFile({NoEntry}) : f.bytes.rest # Empty}

MaybeFile == Existing \cup {Absent}

\* An entry installed by a manager that did not record digests yet.
Installed == {[bytes |-> [rest |-> r, entry |-> e, layout |-> NewLayout], mode |-> "private"] :
                r \in Rests, e \in Entries}
Undigested == [owned : Entries, pre : {NoDigest}, post : {NoDigest},
               created : BOOLEAN, adopted : {FALSE}]
MaybeInstalled == MaybeFile \cup Installed

Interchangeable == Permutations(Procs)

=============================================================================
