------------------------------ MODULE MCPeers ------------------------------
(* Instances of Peers for TLC. *)
EXTENDS Peers, TLC

\* One node is as good as another.
Anyone == Permutations(Node)
=============================================================================
