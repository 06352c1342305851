-------------------------- MODULE DirectoryStore ---------------------------
(***************************************************************************)
(* adrian-storage-fdb: FdbDirectoryStore, which keeps an object as rows of *)
(* the key-value store, and the LDAP update handlers of                    *)
(* adrian-directory-service on top of it.                                  *)
(*                                                                         *)
(* An object has a number (DNT), a row that names its UUID and DN, one row *)
(* for each attribute value, and two index rows that lead from the UUID    *)
(* and from the DN to the DNT.  put and delete are one transaction each.   *)
(* An LDAP handler first reads the entry in a transaction of its own, and  *)
(* calls put or delete with what it has read.                              *)
(***************************************************************************)
EXTENDS KvTxn, Sequences, FiniteSets

CONSTANTS
  Uuid, Dn,
  NilUuid,    \* Uuid::from_u128(0), which handle_add gives to every entry
  Name, Val,  \* attribute names, and the values they may have
  MaxAttr,    \* bound: the attribute values of an object
  MaxChange,  \* bound: the changes of a modify request
  MaxDnt,     \* bound: objects are not created once the counter is here
  NoObject,   \* get and get_by_dn find nothing
  NoCall      \* the caller has no handler in progress

VARIABLES
  call,    \* per caller: the put or delete that its LDAP handler will make
  owners   \* history: the UUIDs of the objects that ever had a DNT

ASSUME StoreAssumption ==
  /\ NilUuid \in Uuid /\ MaxAttr \in Nat /\ MaxChange \in Nat /\ MaxDnt \in Nat
  /\ Absent \notin Uuid /\ Absent \notin Dn /\ Absent \notin Name \X Val
  /\ Absent \notin [uuid : Uuid, dn : Dn] /\ Keep \notin [uuid : Uuid, dn : Dn]
  /\ Keep \notin Uuid

vars == <<kv, txn, call, owners>>

Dnt == 1 .. MaxDnt
Slot == 1 .. MaxAttr
Value == Name \X Val        \* Attribute
Attrs == UNION {[1 .. k -> Value] : k \in 1 .. MaxAttr}   \* at least an objectClass

UuidIndex(u) == <<"uuid", u>>      \* encode_uuid_index_key
DnIndex(n) == <<"dn", n>>          \* encode_dn_index_key
ObjectRow(d) == <<"object", d>>    \* the DN, UUID and DNT sentinel rows
AttrRow(d, i) == <<"attr", d, i>>  \* attribute id 0, value index i - 1
Tombstone(d) == <<"tomb", d>>      \* encode_tombstone_key, NC head 1
DntCounter == <<"next_dnt">>       \* encode_dnt_counter_key
ObjectRows(d) == {ObjectRow(d)} \cup {AttrRow(d, i) : i \in Slot}
Key ==
  {UuidIndex(u) : u \in Uuid} \cup {DnIndex(n) : n \in Dn} \cup {DntCounter}
    \cup UNION {ObjectRows(d) \cup {Tombstone(d)} : d \in Dnt}

Staged(f) == [k \in Key |-> IF k \in DOMAIN f THEN f[k] ELSE Keep]
Object(u, n, as, d) == [uuid |-> u, dn |-> n, attrs |-> as, dnt |-> d]

-----------------------------------------------------------------------------
(* Reading.  read_object_from_range collects the attribute rows of the     *)
(* DNT in the order of their keys, whoever wrote them.                     *)
ReadAttrs(d) ==
  LET used == {i \in Slot : kv[AttrRow(d, i)] # Absent}
      nth(k) == CHOOSE i \in used : Cardinality({j \in used : j <= i}) = k
  IN  [k \in 1 .. Cardinality(used) |-> kv[AttrRow(d, nth(k))]]

Read(d) ==
  IF d = Absent THEN NoObject
  ELSE IF kv[ObjectRow(d)] = Absent THEN NoObject
  ELSE Object(kv[ObjectRow(d)].uuid, kv[ObjectRow(d)].dn, ReadAttrs(d), d)

Get(u) == Read(kv[UuidIndex(u)])
GetByDn(n) == Read(kv[DnIndex(n)])

-----------------------------------------------------------------------------
(* allocate_dnt: the number after the one of the snapshot.                 *)
MutSameDnt == IF AsI64(kv[DntCounter]) = 0 THEN 1 ELSE AsI64(kv[DntCounter])
MutDntFromZero == AsI64(kv[DntCounter])
NewDnt == AsI64(kv[DntCounter]) + 1

(* put, up to its commit.  Without a DNT of the caller's, the object of    *)
(* the UUID is overwritten, or a new one is created.  Attribute rows the   *)
(* new object does not have are left alone.                                *)
Put(c, obj) ==
  LET found == kv[UuidIndex(obj.uuid)]
      fresh == obj.dnt = 0 /\ found = Absent
      d == IF obj.dnt # 0 THEN obj.dnt ELSE IF fresh THEN NewDnt ELSE found
      index == {UuidIndex(obj.uuid), DnIndex(obj.dn)}
      rows == {AttrRow(d, i) : i \in 1 .. Len(obj.attrs)}
      value(k) == IF k \in index THEN d
                  ELSE IF k = ObjectRow(d) THEN [uuid |-> obj.uuid, dn |-> obj.dn]
                  ELSE obj.attrs[k[3]]
  IN  /\ fresh => AsI64(kv[DntCounter]) < MaxDnt
      /\ Begin(c, [kind |-> "put", obj |-> [obj EXCEPT !.dnt = d]],
               (IF obj.dnt = 0 THEN {UuidIndex(obj.uuid)} ELSE {})
                 \cup (IF fresh THEN {DntCounter} ELSE {}),
               Staged([k \in index \cup {ObjectRow(d)} \cup rows |-> value(k)]),
               IF fresh THEN [NoAdds EXCEPT ![DntCounter] = 1] ELSE NoAdds)
      /\ UNCHANGED <<kv, owners>>

(* delete, up to its commit: the rows and both index rows go, a tombstone  *)
(* with the UUID comes.  A UUID that is not there is no error.             *)
MutIndexKept(d) == {k \in ObjectRows(d) : kv[k] # Absent} \cup {DnIndex(kv[ObjectRow(d)].dn)}
Removed(d) ==
  {k \in ObjectRows(d) : kv[k] # Absent}
    \cup {UuidIndex(kv[ObjectRow(d)].uuid), DnIndex(kv[ObjectRow(d)].dn)}

Delete(c, u) ==
  LET d == kv[UuidIndex(u)]
  IN  /\ d # Absent
      /\ Begin(c, [kind |-> "delete", obj |-> Object(u, kv[ObjectRow(d)].dn, <<>>, d)],
               {UuidIndex(u)} \cup ObjectRows(d),
               Staged([k \in Removed(d) \cup {Tombstone(d)} |->
                         IF k = Tombstone(d) THEN kv[ObjectRow(d)].uuid ELSE Absent]), NoAdds)
      /\ UNCHANGED <<kv, owners>>

-----------------------------------------------------------------------------
(* The handlers.                                                           *)

(* handle_add: an object with the nil UUID.  Only an answer that the entry *)
(* is there ends it; after a lookup that failed it goes on, so an entry of *)
(* this DN may be there.                                                   *)
HandleAdd(c, n, as) ==
  call' = [call EXCEPT ![c] = [kind |-> "put", obj |-> Object(NilUuid, n, as, 0)]]

(* apply_change.  A delete without values takes the whole attribute.       *)
Change ==
  [op : {"add", "delete", "replace"}, name : Name, vals : {<<>>} \cup {<<x>> : x \in Val}]

ApplyChange(as, ch) ==
  LET others == SelectSeq(as, LAMBDA v : v[1] # ch.name)
      unlisted == SelectSeq(as, LAMBDA v : v[1] # ch.name \/ \A i \in DOMAIN ch.vals : v[2] # ch.vals[i])
      listed == [i \in DOMAIN ch.vals |-> <<ch.name, ch.vals[i]>>]
  IN  CASE ch.op = "add" -> as \o listed
        [] ch.op = "delete" -> IF ch.vals = <<>> THEN others ELSE unlisted
        [] ch.op = "replace" -> others \o listed

(* The loop over the changes of a request.                                 *)
ApplyChanges(as, chs) ==
  LET after[i \in 0 .. Len(chs)] ==
        IF i = 0 THEN as ELSE ApplyChange(after[i - 1], chs[i])
  IN  after[Len(chs)]

(* handle_modify: the object as read, changed, with its DNT.               *)
HandleModify(c, n) ==
  LET obj == GetByDn(n)
  IN  /\ obj # NoObject
      /\ \E as \in {ApplyChanges(obj.attrs, chs) : chs \in UNION {[1 .. k -> Change] : k \in 0 .. MaxChange}} :
           /\ Len(as) <= MaxAttr
           /\ call' = [call EXCEPT ![c] = [kind |-> "put", obj |-> [obj EXCEPT !.attrs = as]]]

HandleDelete(c, n) ==
  /\ GetByDn(n) # NoObject
  /\ call' = [call EXCEPT ![c] = [kind |-> "delete", obj |-> GetByDn(n)]]

Lookup(c) ==
  /\ call[c] = NoCall /\ txn[c] = NoTxn
  /\ \E n \in Dn :
       \/ \E as \in Attrs : HandleAdd(c, n, as)
       \/ HandleModify(c, n)
       \/ HandleDelete(c, n)
  /\ UNCHANGED <<kv, txn, owners>>

(* The handler goes on with put or delete.  An object that is gone by then *)
(* is not deleted again.                                                   *)
CallPut(c) ==
  /\ call[c] # NoCall /\ call[c].kind = "put"
  /\ Put(c, call[c].obj)
  /\ call' = [call EXCEPT ![c] = NoCall]

CallDelete(c) ==
  /\ call[c] # NoCall /\ call[c].kind = "delete"
  /\ IF kv[UuidIndex(call[c].obj.uuid)] = Absent THEN UNCHANGED <<kv, txn, owners>>
     ELSE Delete(c, call[c].obj.uuid)
  /\ call' = [call EXCEPT ![c] = NoCall]

(* A caller that has the UUID: provisioning and replication put objects of *)
(* their own, without a DNT, and delete by UUID.                           *)
Provision(c, u, n, as) ==
  /\ call[c] = NoCall
  /\ Put(c, Object(u, n, as, 0))
  /\ UNCHANGED call

Deprovision(c, u) ==
  /\ call[c] = NoCall
  /\ Delete(c, u)
  /\ UNCHANGED call

-----------------------------------------------------------------------------
(* The commit is applied, whether or not its answer reaches the caller,    *)
(* who keeps nothing; or it is refused, or never made.                     *)
Apply(c) ==
  LET op == txn[c].op
  IN  /\ CanCommit(c)
      /\ CommitApply(c)
      /\ owners' = IF op.kind = "put" THEN [owners EXCEPT ![op.obj.dnt] = @ \cup {op.obj.uuid}]
                   ELSE owners
      /\ UNCHANGED call

Fail(c) == CloseTxn(c) /\ UNCHANGED <<call, owners>>

(* The process of a caller stops between its lookup and its update.        *)
Abandon(c) ==
  /\ call[c] # NoCall
  /\ call' = [call EXCEPT ![c] = NoCall]
  /\ UNCHANGED <<kv, txn, owners>>

Init ==
  /\ kv = [k \in Key |-> Absent]
  /\ txn = [c \in Client |-> NoTxn]
  /\ call = [c \in Client |-> NoCall]
  /\ owners = [d \in Dnt |-> {}]

Next ==
  \E c \in Client :
    \/ Lookup(c) \/ CallPut(c) \/ CallDelete(c) \/ Abandon(c)
    \/ \E u \in Uuid : \/ \E n \in Dn, as \in Attrs : Provision(c, u, n, as)
                       \/ Deprovision(c, u)
    \/ Apply(c) \/ Fail(c)

Spec == Init /\ [][Next]_vars

-----------------------------------------------------------------------------
(* Types of the rows.                                                      *)
TypeOK ==
  /\ AsI64(kv[DntCounter]) \in 0 .. MaxDnt
  /\ \A u \in Uuid : kv[UuidIndex(u)] \in Dnt \cup {Absent}
  /\ \A n \in Dn : kv[DnIndex(n)] \in Dnt \cup {Absent}
  /\ \A d \in Dnt : /\ kv[ObjectRow(d)] \in [uuid : Uuid, dn : Dn] \cup {Absent}
                    /\ kv[Tombstone(d)] \in Uuid \cup {Absent}
                    /\ \A i \in Slot : kv[AttrRow(d, i)] \in Value \cup {Absent}

(* The UUID index leads to the object of that UUID: put writes the index   *)
(* and the rows together, delete removes them together, and an update with *)
(* a DNT read earlier does not take over the number of another object.     *)
UuidIndexSound ==
  \A u \in Uuid :
    kv[UuidIndex(u)] # Absent => Get(u) # NoObject /\ Get(u).uuid = u

(* A DNT belongs to one UUID for ever: concurrent creations get different  *)
(* numbers, a deleted object's number is not used again, and a tombstone   *)
(* names the object that had it.                                           *)
DntForOne ==
  \A d \in Dnt :
    /\ Cardinality(owners[d]) <= 1
    /\ kv[Tombstone(d)] # Absent => kv[Tombstone(d)] \in owners[d]
    /\ owners[d] # {} => d <= AsI64(kv[DntCounter])

(* To a reader by UUID the store is a map in which each commit changes at  *)
(* most one object, however puts, deletes and handlers interleave.         *)
DnOf(u) == IF Get(u) = NoObject THEN NoObject ELSE Get(u).dn
Abstract == INSTANCE Directory WITH dir <- [u \in Uuid |-> DnOf(u)]
RefinesDirectory == Abstract!Spec

(* put creates or updates the object, and handle_modify relies on it to    *)
(* "delete all values of the attribute": the attributes that a committed   *)
(* put leaves are the ones that it was given.                              *)
PutIsReadBack ==
  [][\A c \in Client, d \in Dnt :
       Apply(c) =>
         ((txn[c].op.kind = "put" /\ txn[c].op.obj.dnt = d) =>
            ReadAttrs(d)' = txn[c].op.obj.attrs)]_vars
=============================================================================
