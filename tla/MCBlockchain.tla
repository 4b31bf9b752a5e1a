---------------------------- MODULE MCBlockchain ----------------------------
(* Instances of Blockchain. *)
EXTENDS Blockchain, TLC

Symmetry == Permutations(Nodes)
=============================================================================
