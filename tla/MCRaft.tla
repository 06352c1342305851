------------------------------ MODULE MCRaft -------------------------------
(* Model-checking instance of Raft: the nodes are interchangeable.         *)
EXTENDS Raft, TLC

NodeSymmetry == Permutations(Node)
=============================================================================
