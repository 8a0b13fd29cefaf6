---------------------------- MODULE MC_FileLock ----------------------------
(* Small instances of FileLock for TLC. *)
EXTENDS FileLock, TLC

Symm == Permutations(Procs)
=============================================================================
