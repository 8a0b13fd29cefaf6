------------------------- MODULE MC_CompanionBootstrap -------------------------
(* Small instances of CompanionBootstrap for TLC. *)
EXTENDS CompanionBootstrap
=============================================================================
