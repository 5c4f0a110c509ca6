--------------------------- MODULE MCConfigStore ---------------------------
(* ConfigStore with interchangeable processes.                             *)
EXTENDS ConfigStore, TLC

Interchangeable == Permutations(Procs)

=============================================================================
