-------------------------- MODULE MCAccountSession --------------------------
EXTENDS AccountSession, TLC

Interchangeable == Permutations(Procs) \cup Permutations(Families)

=============================================================================
