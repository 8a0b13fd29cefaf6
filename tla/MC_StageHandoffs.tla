-------------------------- MODULE MC_StageHandoffs --------------------------
(* Small instances of StageHandoffs for TLC. *)
EXTENDS StageHandoffs, TLC

Symm == Permutations(Diagnoses) \cup Permutations(Verifies)
=============================================================================
