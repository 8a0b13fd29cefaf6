-------------------------- MODULE MC_NativeToolRun --------------------------
(* Small instances of NativeToolRun for TLC. *)
EXTENDS NativeToolRun, TLC
Symmetry == Permutations(Clients)
=============================================================================
