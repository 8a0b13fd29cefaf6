----------------------- MODULE MC_HeuristicDiscovery -----------------------
(* Small instances of HeuristicDiscovery for TLC. *)
EXTENDS HeuristicDiscovery, TLC
=============================================================================
