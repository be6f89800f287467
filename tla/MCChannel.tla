----------------------------- MODULE MCChannel -----------------------------
(* Instances of Channel for TLC. *)
EXTENDS Channel, TLC

CONSTANTS a, b, c

Anyone == Permutations(Nodes)
=============================================================================
