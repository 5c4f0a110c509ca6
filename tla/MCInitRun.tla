----------------------------- MODULE MCInitRun -----------------------------
(* Where the vaults of InitRun are.                                        *)
EXTENDS InitRun, TLC

CONSTANTS q1, q2, d1, v1, v2

DefaultRoots == [f \in Profiles |-> d1]
ProjectRoots == (q1 :> v1) @@ (q2 :> v2)

\* The projects trade places together with their own vaults.
Trade == [x \in {q1, q2, v1, v2} |->
            CASE x = q1 -> q2 [] x = q2 -> q1 [] x = v1 -> v2 [] x = v2 -> v1]

Interchangeable == Permutations(Procs) \cup {Trade}

=============================================================================
