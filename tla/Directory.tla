----------------------------- MODULE Directory -----------------------------
(***************************************************************************)
(* What the DirectoryStore trait of adrian-storage-core promises: a map    *)
(* from UUIDs to objects, of which put and delete change one at a time.    *)
(***************************************************************************)
CONSTANTS Uuid, Dn, NoObject

VARIABLE dir   \* the DN of the object that get returns for a UUID

Init == dir = [u \in Uuid |-> NoObject]

Put(u, n) == dir' = [dir EXCEPT ![u] = n]

Delete(u) == dir' = [dir EXCEPT ![u] = NoObject]

Next == \E u \in Uuid : Delete(u) \/ \E n \in Dn : Put(u, n)

Spec == Init /\ [][Next]_dir
=============================================================================
