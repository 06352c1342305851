----------------------------- MODULE MCRidPool -----------------------------
(* Model-checking instances of RidPool: the callers are interchangeable.   *)
EXTENDS RidPool, TLC

ClientSymmetry == Permutations(Client)
=============================================================================
