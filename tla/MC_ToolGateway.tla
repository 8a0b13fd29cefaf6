--------------------------- MODULE MC_ToolGateway ---------------------------
(* Small instances of ToolGateway for TLC. *)
EXTENDS ToolGateway, TLC
Symmetry == Permutations(Agents)
=============================================================================
