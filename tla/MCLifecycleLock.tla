-------------------------- MODULE MCLifecycleLock --------------------------
(* Small instances of LifecycleLock for TLC. *)
EXTENDS LifecycleLock, TLC

Interchangeable == Permutations(Procs)
=============================================================================
