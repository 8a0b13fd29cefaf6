------------------------- MODULE MC_TargetEvidence -------------------------
(* Small instances of TargetEvidence for TLC. *)
EXTENDS TargetEvidence, TLC

Alike == Permutations(Calls)
=============================================================================
