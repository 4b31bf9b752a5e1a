------------------------------ MODULE MCPeers ------------------------------
(* Instances of Peers. *)
EXTENDS Peers, TLC

Symmetry == Permutations(Clients)
=============================================================================
