------------------------ MODULE MC_ReleasePromotion ------------------------
(* Small instances of ReleasePromotion for TLC. *)
EXTENDS ReleasePromotion, TLC

Symm == Permutations(Runs) \cup Permutations(Prints)
=============================================================================
