------------------------- MODULE MCDirectoryStore --------------------------
(* Model-checking instance of DirectoryStore: callers, DNs and the UUIDs   *)
(* other than nil are interchangeable.                                     *)
EXTENDS DirectoryStore, TLC

NameSymmetry ==
  Permutations(Client) \cup Permutations(Dn) \cup Permutations(Uuid \ {NilUuid})
=============================================================================
