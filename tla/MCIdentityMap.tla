--------------------------- MODULE MCIdentityMap ---------------------------
(* Model-checking instance of IdentityMap: UUIDs, SIDs and callers are     *)
(* interchangeable.                                                        *)
EXTENDS IdentityMap, TLC

NameSymmetry ==
  Permutations(Uuid) \cup Permutations(Sid) \cup Permutations(Client)
=============================================================================
