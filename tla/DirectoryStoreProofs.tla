----------------------- MODULE DirectoryStoreProofs ------------------------
(***************************************************************************)
(* Proofs about DirectoryStore on a store that detects conflicts, for any  *)
(* callers, UUIDs, DNs and attributes: the UUID index leads to the object  *)
(* of that UUID, a number (DNT) belongs to one UUID for ever, and to a     *)
(* reader by UUID the store is a map of which a commit changes one object. *)
(*                                                                         *)
(* The update of an LDAP modify carries the DNT that the handler read in   *)
(* an earlier transaction; it reads nothing again, so no conflict is ever  *)
(* detected for it.  What makes it harmless is ownership.  A number is     *)
(* taken by one UUID, the record of that only grows, and every call and    *)
(* transaction in flight with a DNT has the UUID that owns it.             *)
(***************************************************************************)
EXTENDS DirectoryStore, FiniteSetTheorems, TLAPS

(* None is not Some(object), whatever the object is.                       *)
NoneIsNoObject == \A u, n, as, d : Object(u, n, as, d) # NoObject

(* Types of the rows but for the attributes.                               *)
RowTypes ==
  /\ DOMAIN kv = Key
  /\ kv[DntCounter] \in (0 .. MaxDnt) \cup {Absent}
  /\ \A u \in Uuid : kv[UuidIndex(u)] \in Dnt \cup {Absent}
  /\ \A n \in Dn : kv[DnIndex(n)] \in Dnt \cup {Absent}
  /\ \A d \in Dnt : /\ kv[ObjectRow(d)] \in [uuid : Uuid, dn : Dn] \cup {Absent}
                    /\ kv[Tombstone(d)] \in Uuid \cup {Absent}

(* Every number up to the counter has at most one owner, the others have   *)
(* none, and the rows with the number are of its owner.                    *)
OwnerInv ==
  /\ owners \in [Dnt -> SUBSET Uuid]
  /\ \A d \in Dnt :
       /\ \A u, v \in owners[d] : u = v
       /\ owners[d] # {} => d <= AsI64(kv[DntCounter])
       /\ kv[Tombstone(d)] # Absent => kv[Tombstone(d)] \in owners[d]
       /\ kv[ObjectRow(d)] # Absent => kv[ObjectRow(d)].uuid \in owners[d]

(* The index of a UUID leads to a row with that UUID.                      *)
IndexInv ==
  \A u \in Uuid :
    kv[UuidIndex(u)] # Absent =>
      /\ kv[ObjectRow(kv[UuidIndex(u)])] # Absent
      /\ kv[ObjectRow(kv[UuidIndex(u)])].uuid = u

(* An object in a call or in a transaction.                                *)
IsObject(obj) == obj \in [uuid : Uuid, dn : Dn, attrs : {obj.attrs}, dnt : Nat]

(* The call a handler will make.  A DNT that it has read is the UUID's.    *)
CallInv ==
  \A c \in Client :
    call[c] # NoCall =>
      /\ IsObject(call[c].obj)
      /\ call[c].kind = "put" /\ call[c].obj.dnt # 0 =>
           call[c].obj.dnt \in Dnt /\ call[c].obj.uuid \in owners[call[c].obj.dnt]

(* What put has staged, and that its number is the UUID's, or the next one *)
(* if it may still commit.                                                 *)
StagesPut(t) ==
  LET o == t.op.obj
  IN  /\ IsObject(o) /\ o.dnt \in Dnt
      /\ \A u \in Uuid : t.puts[UuidIndex(u)] = IF u = o.uuid THEN o.dnt ELSE Keep
      /\ \A n \in Dn : t.puts[DnIndex(n)] = IF n = o.dn THEN o.dnt ELSE Keep
      /\ \A d \in Dnt :
           /\ t.puts[ObjectRow(d)] = IF d = o.dnt THEN [uuid |-> o.uuid, dn |-> o.dn] ELSE Keep
           /\ t.puts[Tombstone(d)] = Keep
      /\ t.puts[DntCounter] = Keep
      /\ \A k \in Key : k # DntCounter => t.adds[k] = 0

(* The number of the object is its UUID's, or the counter's next one.      *)
NumbersPut(t) ==
  LET o == t.op.obj
  IN  \/ t.adds[DntCounter] = 0 /\ o.uuid \in owners[o.dnt]
      \/ /\ t.adds[DntCounter] = 1 /\ DntCounter \in t.reads
         /\ ~t.stale => o.dnt = NewDnt

PutTxn(t) == StagesPut(t) /\ NumbersPut(t)

(* What delete has staged, which is sound whatever has happened since: the *)
(* number is the UUID's for ever.                                          *)
DeleteTxn(t) ==
  LET o == t.op.obj
  IN  /\ IsObject(o) /\ o.dnt \in Dnt /\ o.uuid \in owners[o.dnt]
      /\ \A u \in Uuid : t.puts[UuidIndex(u)] = IF u = o.uuid THEN Absent ELSE Keep
      /\ \A n \in Dn : t.puts[DnIndex(n)] = IF n = o.dn THEN Absent ELSE Keep
      /\ \A d \in Dnt :
           /\ t.puts[ObjectRow(d)] = IF d = o.dnt THEN Absent ELSE Keep
           /\ t.puts[Tombstone(d)] = IF d = o.dnt THEN o.uuid ELSE Keep
      /\ t.puts[DntCounter] = Keep
      /\ \A k \in Key : t.adds[k] = 0

IsTransaction(t) ==
  t \in [op : {t.op}, reads : SUBSET Key, puts : {t.puts}, adds : {t.adds}, stale : BOOLEAN]

TxnInv ==
  \A c \in Client :
    txn[c] # NoTxn =>
      /\ IsTransaction(txn[c])
      /\ \/ txn[c].op.kind = "put" /\ PutTxn(txn[c])
         \/ txn[c].op.kind = "delete" /\ DeleteTxn(txn[c])

Inv ==
  /\ RowTypes
  /\ DOMAIN txn = Client /\ DOMAIN call = Client
  /\ OwnerInv
  /\ IndexInv
  /\ CallInv
  /\ TxnInv

-----------------------------------------------------------------------------
(* The rows of an object are keys of the store.                            *)
LEMMA KeyFacts ==
  /\ DntCounter \in Key
  /\ \A u \in Uuid : UuidIndex(u) \in Key
  /\ \A n \in Dn : DnIndex(n) \in Key
  /\ \A d \in Dnt : /\ ObjectRow(d) \in Key /\ Tombstone(d) \in Key
                    /\ ObjectRows(d) \subseteq Key
BY DEF Key, ObjectRows

(* No two rows have the same key.                                          *)
LEMMA KeysApart ==
  /\ \A u, v : /\ UuidIndex(u) = UuidIndex(v) => u = v
               /\ DnIndex(u) = DnIndex(v) => u = v
               /\ ObjectRow(u) = ObjectRow(v) => u = v
               /\ Tombstone(u) = Tombstone(v) => u = v
  /\ \A u, v : /\ UuidIndex(u) # DnIndex(v) /\ UuidIndex(u) # ObjectRow(v)
               /\ UuidIndex(u) # Tombstone(v) /\ DnIndex(u) # ObjectRow(v)
               /\ DnIndex(u) # Tombstone(v) /\ ObjectRow(u) # Tombstone(v)
  /\ \A u : /\ UuidIndex(u) # DntCounter /\ DnIndex(u) # DntCounter
            /\ ObjectRow(u) # DntCounter /\ Tombstone(u) # DntCounter
  /\ \A d, i, u : /\ AttrRow(d, i) # UuidIndex(u) /\ AttrRow(d, i) # DnIndex(u)
                  /\ AttrRow(d, i) # ObjectRow(u) /\ AttrRow(d, i) # Tombstone(u)
                  /\ AttrRow(d, i) # DntCounter
BY Zenon DEF UuidIndex, DnIndex, ObjectRow, Tombstone, AttrRow, DntCounter

(* What is staged is a matter of the operation, the puts and the adds.     *)
LEMMA SameStaged ==
  ASSUME NEW s, NEW t, StagesPut(t), s.op = t.op, s.puts = t.puts, s.adds = t.adds
  PROVE  StagesPut(s)
BY DEF StagesPut

(* The store is empty and nothing is in flight at the start.               *)
LEMMA InitInv == Init => Inv
<1> SUFFICES ASSUME Init PROVE Inv
  BY Zenon
<1> USE DEF Init
<1>1. \A k \in Key : kv[k] = Absent
  BY Zenon
<1>2. RowTypes
  BY <1>1, KeyFacts, Zenon DEF RowTypes
<1>3. OwnerInv
  BY <1>1, KeyFacts, Zenon DEF OwnerInv
<1>4. IndexInv
  BY <1>1, KeyFacts, Zenon DEF IndexInv
<1>5. CallInv /\ TxnInv
  BY Zenon DEF CallInv, TxnInv
<1>6. DOMAIN txn = Client /\ DOMAIN call = Client
  BY Zenon
<1> QED BY <1>2, <1>3, <1>4, <1>5, <1>6, Zenon DEF Inv

-----------------------------------------------------------------------------
(* A step that only takes or gives up a call.                              *)
LEMMA SetCall ==
  ASSUME Inv, NEW c \in Client, NEW w, UNCHANGED <<kv, txn, owners>>,
         call' = [call EXCEPT ![c] = w],
         w # NoCall =>
           /\ IsObject(w.obj)
           /\ w.kind = "put" /\ w.obj.dnt # 0 =>
                w.obj.dnt \in Dnt /\ w.obj.uuid \in owners[w.obj.dnt]
  PROVE  Inv'
<1>1. RowTypes' /\ OwnerInv' /\ IndexInv' /\ DOMAIN txn' = Client /\ DOMAIN call' = Client
  BY DEF Inv, RowTypes, OwnerInv, IndexInv
<1>2. \A d \in Client : call'[d] = IF d = c THEN w ELSE call[d]
  BY Zenon DEF Inv
<1>3. CallInv'
  BY <1>2, Zenon DEF Inv, CallInv, IsObject
<1>4. TxnInv'
  <2> SUFFICES ASSUME NEW d \in Client, txn[d] # NoTxn
               PROVE  /\ IsTransaction(txn[d])
                      /\ \/ txn[d].op.kind = "put" /\ PutTxn(txn[d])'
                         \/ txn[d].op.kind = "delete" /\ DeleteTxn(txn[d])'
    BY Zenon DEF TxnInv, IsTransaction
  <2>1. /\ IsTransaction(txn[d])
        /\ \/ txn[d].op.kind = "put" /\ PutTxn(txn[d])
           \/ txn[d].op.kind = "delete" /\ DeleteTxn(txn[d])
    BY Zenon DEF Inv, TxnInv
  <2>2. PutTxn(txn[d]) => PutTxn(txn[d])'
    BY Zenon DEF PutTxn, StagesPut, NumbersPut, NewDnt
  <2>3. DeleteTxn(txn[d]) => DeleteTxn(txn[d])'
    BY Zenon DEF DeleteTxn
  <2> QED BY <2>1, <2>2, <2>3, Zenon
<1> QED BY <1>1, <1>3, <1>4, Zenon DEF Inv

(* The object that a lookup by DN finds has the UUID that owns its number. *)
LEMMA FoundObject ==
  ASSUME Inv, NEW n \in Dn, GetByDn(n) # NoObject
  PROVE  /\ IsObject(GetByDn(n))
         /\ GetByDn(n).dnt \in Dnt
         /\ GetByDn(n).uuid \in owners[GetByDn(n).dnt]
<1> DEFINE d == kv[DnIndex(n)]
<1>1. d # Absent /\ kv[ObjectRow(d)] # Absent
  BY Zenon DEF GetByDn, Read
<1>2. d \in Dnt /\ d \in Nat /\ kv[ObjectRow(d)] \in [uuid : Uuid, dn : Dn]
  BY <1>1 DEF Inv, RowTypes, Dnt
<1>3. GetByDn(n) = Object(kv[ObjectRow(d)].uuid, kv[ObjectRow(d)].dn, ReadAttrs(d), d)
  BY <1>1, Zenon DEF GetByDn, Read
<1>4. kv[ObjectRow(d)].uuid \in owners[d]
  BY <1>1, <1>2, Zenon DEF Inv, OwnerInv
<1> HIDE DEF d
<1> QED BY <1>2, <1>3, <1>4 DEF Object, IsObject

(* The handlers: an add has no number, a modify and a delete have what     *)
(* they found.                                                             *)
LEMMA LookupInv ==
  ASSUME Inv, NEW c \in Client, Lookup(c)
  PROVE  Inv'
<1>1. PICK n \in Dn : \/ \E as \in Attrs : HandleAdd(c, n, as)
                      \/ HandleModify(c, n)
                      \/ HandleDelete(c, n)
  BY Zenon DEF Lookup
<1>2. UNCHANGED <<kv, txn, owners>>
  BY Zenon DEF Lookup
<1>3. CASE \E as \in Attrs : HandleAdd(c, n, as)
  <2>1. PICK as \in Attrs : HandleAdd(c, n, as)
    BY <1>3, Zenon
  <2> DEFINE w == [kind |-> "put", obj |-> Object(NilUuid, n, as, 0)]
  <2>2. call' = [call EXCEPT ![c] = w]
    BY <2>1, Zenon DEF HandleAdd
  <2>3. IsObject(w.obj) /\ w.obj.dnt = 0
    BY StoreAssumption, Zenon DEF IsObject, Object
  <2> HIDE DEF w
  <2> QED BY <1>2, <2>2, <2>3, SetCall, Zenon
<1>4. CASE HandleModify(c, n)
  <2> DEFINE obj == GetByDn(n)
  <2>1. PICK as : call' = [call EXCEPT ![c] = [kind |-> "put", obj |-> [obj EXCEPT !.attrs = as]]]
    BY <1>4, Zenon DEF HandleModify
  <2>2. IsObject(obj) /\ obj.dnt \in Dnt /\ obj.uuid \in owners[obj.dnt]
    BY <1>4, FoundObject, Zenon DEF HandleModify
  <2> HIDE DEF obj
  <2> DEFINE w == [kind |-> "put", obj |-> [obj EXCEPT !.attrs = as]]
  <2>3. IsObject(w.obj) /\ w.obj.dnt = obj.dnt /\ w.obj.uuid = obj.uuid
    BY <2>2, Zenon DEF IsObject
  <2>4. call' = [call EXCEPT ![c] = w]
    BY <2>1, Zenon
  <2> HIDE DEF w
  <2> QED BY <1>2, <2>2, <2>3, <2>4, SetCall, Zenon
<1>5. CASE HandleDelete(c, n)
  <2> DEFINE w == [kind |-> "delete", obj |-> GetByDn(n)]
  <2>1. call' = [call EXCEPT ![c] = w]
    BY <1>5, Zenon DEF HandleDelete
  <2>2. IsObject(w.obj) /\ w.kind = "delete"
    BY <1>5, FoundObject, Zenon DEF HandleDelete
  <2> HIDE DEF w
  <2> QED BY <1>2, <2>1, <2>2, SetCall, Zenon
<1> QED BY <1>1, <1>3, <1>4, <1>5, Zenon

-----------------------------------------------------------------------------
(* Opening a transaction that stages what PutTxn or DeleteTxn says.        *)
LEMMA BeginInv ==
  ASSUME Inv, NEW c \in Client, NEW t, txn' = [txn EXCEPT ![c] = t], UNCHANGED <<kv, owners>>,
         \/ UNCHANGED call
         \/ call' = [call EXCEPT ![c] = NoCall],
         IsTransaction(t),
         \/ t.op.kind = "put" /\ PutTxn(t)
         \/ t.op.kind = "delete" /\ DeleteTxn(t)
  PROVE  Inv'
<1>1. RowTypes' /\ OwnerInv' /\ IndexInv' /\ DOMAIN txn' = Client /\ DOMAIN call' = Client
  BY DEF Inv, RowTypes, OwnerInv, IndexInv
<1>2. CallInv'
  <2>1. \A d \in Client : call'[d] = call[d] \/ call'[d] = NoCall
    BY Zenon DEF Inv
  <2> QED BY <2>1, Zenon DEF Inv, CallInv, IsObject
<1>3. TxnInv'
  <2> SUFFICES ASSUME NEW d \in Client, txn'[d] # NoTxn
               PROVE  /\ IsTransaction(txn'[d])
                      /\ \/ txn'[d].op.kind = "put" /\ PutTxn(txn[d])'
                         \/ txn'[d].op.kind = "delete" /\ DeleteTxn(txn[d])'
    BY Zenon DEF TxnInv, IsTransaction
  <2>1. /\ IsTransaction(txn'[d])
        /\ \/ txn'[d].op.kind = "put" /\ PutTxn(txn'[d])
           \/ txn'[d].op.kind = "delete" /\ DeleteTxn(txn'[d])
    BY Zenon DEF Inv, TxnInv
  <2>2. PutTxn(txn'[d]) => PutTxn(txn[d])'
    BY Zenon DEF PutTxn, StagesPut, NumbersPut, NewDnt
  <2>3. DeleteTxn(txn'[d]) => DeleteTxn(txn[d])'
    BY Zenon DEF DeleteTxn
  <2> QED BY <2>1, <2>2, <2>3, Zenon
<1> QED BY <1>1, <1>2, <1>3, Zenon DEF Inv

(* put: the number is the caller's, the one found, or the next one.        *)
LEMMA PutInv ==
  ASSUME Inv, NEW c \in Client, NEW obj, IsObject(obj),
         obj.dnt # 0 => obj.dnt \in Dnt /\ obj.uuid \in owners[obj.dnt],
         Put(c, obj), UNCHANGED call \/ call' = [call EXCEPT ![c] = NoCall]
  PROVE  Inv'
<1> DEFINE found == kv[UuidIndex(obj.uuid)]
           fresh == obj.dnt = 0 /\ found = Absent
           d == IF obj.dnt # 0 THEN obj.dnt ELSE IF fresh THEN NewDnt ELSE found
           index == {UuidIndex(obj.uuid), DnIndex(obj.dn)}
           rows == {AttrRow(d, i) : i \in 1 .. Len(obj.attrs)}
           value(k) == IF k \in index THEN d
                       ELSE IF k = ObjectRow(d) THEN [uuid |-> obj.uuid, dn |-> obj.dn]
                       ELSE obj.attrs[k[3]]
           op == [kind |-> "put", obj |-> [obj EXCEPT !.dnt = d]]
           reads == (IF obj.dnt = 0 THEN {UuidIndex(obj.uuid)} ELSE {})
                      \cup (IF fresh THEN {DntCounter} ELSE {})
           puts == Staged([k \in index \cup {ObjectRow(d)} \cup rows |-> value(k)])
           adds == IF fresh THEN [NoAdds EXCEPT ![DntCounter] = 1] ELSE NoAdds
           t == [op |-> op, reads |-> reads, puts |-> puts, adds |-> adds, stale |-> FALSE]
<1>1. /\ fresh => AsI64(kv[DntCounter]) < MaxDnt
      /\ txn' = [txn EXCEPT ![c] = t] /\ UNCHANGED <<kv, owners>>
  BY Zenon DEF Put, Begin
<1>2. obj.uuid \in Uuid /\ obj.dn \in Dn /\ obj.dnt \in Nat
  BY Zenon DEF IsObject
<1>3. fresh => NewDnt \in Dnt
  <2>1. kv[DntCounter] \in (0 .. MaxDnt) \cup {Absent} /\ MaxDnt \in Nat
    BY StoreAssumption, Zenon DEF Inv, RowTypes
  <2> QED BY <1>1, <2>1 DEF NewDnt, Dnt, AsI64
<1>4. obj.dnt = 0 /\ ~fresh => found \in Dnt /\ obj.uuid \in owners[found]
  BY <1>2, Zenon DEF Inv, RowTypes, IndexInv, OwnerInv
<1>5. d \in Dnt /\ d \in Nat
  <2>1. d \in Dnt
    BY <1>3, <1>4, Zenon
  <2> QED BY <2>1 DEF Dnt
<1>6. op.obj = [obj EXCEPT !.dnt = d] /\ IsObject(op.obj)
  BY <1>5, Zenon DEF IsObject
<1>7. op.obj.uuid = obj.uuid /\ op.obj.dn = obj.dn /\ op.obj.dnt = d
  BY <1>6, Zenon DEF IsObject
<1>8. reads \in SUBSET Key
  BY <1>2, KeyFacts, Zenon
<1>9. /\ \A k \in Key : adds[k] = IF fresh /\ k = DntCounter THEN 1 ELSE 0
      /\ DntCounter \in Key
  <2>1. DOMAIN kv = Key
    BY Zenon DEF Inv, RowTypes
  <2> QED BY <2>1, KeyFacts, Zenon DEF NoAdds
<1>10. ~fresh => obj.uuid \in owners[d]
  BY <1>4, Zenon
<1>11. fresh => d = NewDnt /\ DntCounter \in reads
  BY Zenon
<1>12. \A k \in Key :
         puts[k] = IF k \in index THEN d
                   ELSE IF k = ObjectRow(d) THEN [uuid |-> obj.uuid, dn |-> obj.dn]
                   ELSE IF k \in rows THEN obj.attrs[k[3]] ELSE Keep
  BY Zenon DEF Staged
<1>13. \A k \in rows : \E i : k = AttrRow(d, i)
  BY Zenon
<1>14. t.op = op /\ t.reads = reads /\ t.puts = puts /\ t.adds = adds /\ t.stale = FALSE
  BY Zenon
<1>15. IsTransaction(t)
  <2> HIDE DEF op, reads, puts, adds
  <2> QED BY <1>8, Zenon DEF IsTransaction
<1> HIDE DEF d, fresh, rows, op, reads, puts, adds, t
<1>16. /\ \A u \in Uuid : puts[UuidIndex(u)] = IF u = obj.uuid THEN d ELSE Keep
       /\ \A n \in Dn : puts[DnIndex(n)] = IF n = obj.dn THEN d ELSE Keep
       /\ \A e \in Dnt :
            /\ puts[ObjectRow(e)] = IF e = d THEN [uuid |-> obj.uuid, dn |-> obj.dn] ELSE Keep
            /\ puts[Tombstone(e)] = Keep
       /\ puts[DntCounter] = Keep
  <2>1. \A u \in Uuid : puts[UuidIndex(u)] = IF u = obj.uuid THEN d ELSE Keep
    BY <1>12, <1>13, KeyFacts, KeysApart
  <2>2. \A n \in Dn : puts[DnIndex(n)] = IF n = obj.dn THEN d ELSE Keep
    BY <1>12, <1>13, KeyFacts, KeysApart
  <2>3. \A e \in Dnt :
          /\ puts[ObjectRow(e)] = IF e = d THEN [uuid |-> obj.uuid, dn |-> obj.dn] ELSE Keep
          /\ puts[Tombstone(e)] = Keep
    BY <1>12, <1>13, KeyFacts, KeysApart
  <2>4. puts[DntCounter] = Keep
    BY <1>12, <1>13, KeyFacts, KeysApart
  <2> QED BY <2>1, <2>2, <2>3, <2>4, Zenon
<1>17. PutTxn(t)
  <2> DEFINE o == t.op.obj
  <2>1. IsObject(o) /\ o.uuid = obj.uuid /\ o.dn = obj.dn /\ o.dnt = d
    BY <1>6, <1>7, <1>14, Zenon
  <2>2. \/ t.adds[DntCounter] = 0 /\ o.uuid \in owners[o.dnt]
        \/ /\ t.adds[DntCounter] = 1 /\ DntCounter \in t.reads
           /\ ~t.stale => o.dnt = NewDnt
    <3>1. CASE fresh
      BY <1>9, <1>11, <1>14, <2>1, <3>1, Zenon
    <3>2. CASE ~fresh
      BY <1>9, <1>10, <1>14, <2>1, <3>2, Zenon
    <3> QED BY <3>1, <3>2, Zenon
  <2>3. \A k \in Key : k # DntCounter => t.adds[k] = 0
    BY <1>9, <1>14, Zenon
  <2> HIDE DEF o
  <2> QED BY <1>5, <1>14, <1>16, <2>1, <2>2, <2>3 DEF PutTxn, StagesPut, NumbersPut, o
<1>18. t.op.kind = "put"
  BY <1>14 DEF op
<1> QED BY <1>1, <1>15, <1>17, <1>18, BeginInv, Zenon

(* delete: the row that the index leads to is of the UUID, so the index    *)
(* row that goes is the one that was read.                                 *)
LEMMA DeleteInv ==
  ASSUME Inv, NEW c \in Client, NEW u \in Uuid, Delete(c, u),
         UNCHANGED call \/ call' = [call EXCEPT ![c] = NoCall]
  PROVE  Inv'
<1> DEFINE d == kv[UuidIndex(u)]
           row == kv[ObjectRow(d)]
           n == row.dn
           o == Object(u, n, <<>>, d)
           reads == {UuidIndex(u)} \cup ObjectRows(d)
           puts == Staged([k \in Removed(d) \cup {Tombstone(d)} |->
                             IF k = Tombstone(d) THEN row.uuid ELSE Absent])
           op == [kind |-> "delete", obj |-> o]
           t == [op |-> op, reads |-> reads, puts |-> puts, adds |-> NoAdds, stale |-> FALSE]
<1>1. d # Absent /\ txn' = [txn EXCEPT ![c] = t] /\ UNCHANGED <<kv, owners>>
  BY Zenon DEF Delete, Begin
<1>2. d \in Dnt /\ d \in Nat
  BY <1>1 DEF Inv, RowTypes, Dnt
<1>3. row # Absent /\ row.uuid = u
  BY <1>1, Zenon DEF Inv, IndexInv
<1>4. n \in Dn /\ u \in owners[d]
  BY <1>2, <1>3 DEF Inv, RowTypes, OwnerInv
<1>5. IsObject(o) /\ o.uuid = u /\ o.dn = n /\ o.dnt = d
  BY <1>2, <1>4, Zenon DEF IsObject, Object
<1>6. reads \in SUBSET Key
  BY <1>2, KeyFacts, Zenon
<1>7. Removed(d) = {k \in ObjectRows(d) : kv[k] # Absent} \cup {UuidIndex(u), DnIndex(n)}
  BY <1>3, Zenon DEF Removed
<1>8. \A k \in Key : puts[k] = IF k = Tombstone(d) THEN u
                              ELSE IF k \in Removed(d) THEN Absent ELSE Keep
  BY <1>3, Zenon DEF Staged
<1>9. \A k \in Key : NoAdds[k] = 0
  BY Zenon DEF NoAdds, Inv, RowTypes
<1>10. ObjectRow(d) \in Removed(d)
  BY <1>3, Zenon DEF Removed, ObjectRows
<1>11. \A k \in Removed(d) : k = UuidIndex(u) \/ k = DnIndex(n) \/ k = ObjectRow(d)
                             \/ \E i : k = AttrRow(d, i)
  BY <1>7, Zenon DEF ObjectRows
<1>12. UuidIndex(u) \in Removed(d) /\ DnIndex(n) \in Removed(d)
  BY <1>7, Zenon
<1>13. t.op = op /\ t.reads = reads /\ t.puts = puts /\ t.adds = NoAdds /\ t.stale = FALSE
       /\ op.obj = o /\ op.kind = "delete"
  BY Zenon
<1>14. IsTransaction(t)
  <2> HIDE DEF op, reads, puts
  <2> QED BY <1>6, Zenon DEF IsTransaction
<1> HIDE DEF d, n, row, o, op, reads, puts, t
<1>15. /\ \A v \in Uuid : puts[UuidIndex(v)] = IF v = u THEN Absent ELSE Keep
       /\ \A m \in Dn : puts[DnIndex(m)] = IF m = n THEN Absent ELSE Keep
       /\ \A e \in Dnt : puts[ObjectRow(e)] = IF e = d THEN Absent ELSE Keep
       /\ \A e \in Dnt : puts[Tombstone(e)] = IF e = d THEN u ELSE Keep
       /\ puts[DntCounter] = Keep
  <2>1. \A v \in Uuid : puts[UuidIndex(v)] = IF v = u THEN Absent ELSE Keep
    BY <1>8, <1>11, <1>12, KeyFacts, KeysApart
  <2>2. \A m \in Dn : puts[DnIndex(m)] = IF m = n THEN Absent ELSE Keep
    BY <1>8, <1>11, <1>12, KeyFacts, KeysApart
  <2>3. \A e \in Dnt : puts[ObjectRow(e)] = IF e = d THEN Absent ELSE Keep
    BY <1>8, <1>10, <1>11, KeyFacts, KeysApart
  <2>4. \A e \in Dnt : puts[Tombstone(e)] = IF e = d THEN u ELSE Keep
    BY <1>8, <1>11, KeyFacts, KeysApart
  <2>5. puts[DntCounter] = Keep
    BY <1>8, <1>11, KeyFacts, KeysApart, Zenon
  <2> QED BY <2>1, <2>2, <2>3, <2>4, <2>5, Zenon
<1>16. DeleteTxn(t)
  BY <1>2, <1>4, <1>5, <1>9, <1>13, <1>15 DEF DeleteTxn
<1> QED BY <1>1, <1>13, <1>14, <1>16, BeginInv, Zenon

(* The steps before a commit.                                              *)
LEMMA CallInvs ==
  ASSUME Inv, NEW c \in Client
  PROVE  /\ CallPut(c) => Inv'
         /\ CallDelete(c) => Inv'
         /\ Abandon(c) => Inv'
         /\ \A u \in Uuid : /\ Deprovision(c, u) => Inv'
                            /\ \A n \in Dn, as \in Attrs : Provision(c, u, n, as) => Inv'
<1>1. ASSUME CallPut(c) PROVE Inv'
  BY <1>1, PutInv, Zenon DEF CallPut, Inv, CallInv
<1>2. ASSUME CallDelete(c) PROVE Inv'
  <2>1. CASE kv[UuidIndex(call[c].obj.uuid)] = Absent
    BY <1>2, <2>1, SetCall, Zenon DEF CallDelete
  <2>2. CASE kv[UuidIndex(call[c].obj.uuid)] # Absent
    <3>1. call[c].obj.uuid \in Uuid
      BY <1>2, Zenon DEF CallDelete, Inv, CallInv, IsObject
    <3> QED BY <1>2, <2>2, <3>1, DeleteInv, Zenon DEF CallDelete
  <2> QED BY <2>1, <2>2, Zenon
<1>3. ASSUME Abandon(c) PROVE Inv'
  BY <1>3, SetCall, Zenon DEF Abandon
<1>4. ASSUME NEW u \in Uuid, Deprovision(c, u) PROVE Inv'
  BY <1>4, DeleteInv, Zenon DEF Deprovision
<1>5. ASSUME NEW u \in Uuid, NEW n \in Dn, NEW as \in Attrs, Provision(c, u, n, as) PROVE Inv'
  <2>1. IsObject(Object(u, n, as, 0)) /\ Object(u, n, as, 0).dnt = 0
    BY Zenon DEF IsObject, Object
  <2> QED BY <1>5, <2>1, PutInv, Zenon DEF Provision
<1> QED BY <1>1, <1>2, <1>3, <1>4, <1>5, Zenon

(* Rollback or a refused commit.                                           *)
LEMMA FailInv ==
  ASSUME Inv, NEW c \in Client, Fail(c)
  PROVE  Inv'
<1>1. UNCHANGED <<kv, call, owners>> /\ txn' = [txn EXCEPT ![c] = NoTxn]
  BY Zenon DEF Fail, CloseTxn
<1>2. RowTypes' /\ OwnerInv' /\ IndexInv' /\ CallInv' /\ DOMAIN txn' = Client /\ DOMAIN call' = Client
  BY <1>1 DEF Inv, RowTypes, OwnerInv, IndexInv, CallInv
<1>3. TxnInv'
  <2> SUFFICES ASSUME NEW d \in Client, txn'[d] # NoTxn
               PROVE  /\ IsTransaction(txn'[d])
                      /\ \/ txn'[d].op.kind = "put" /\ PutTxn(txn[d])'
                         \/ txn'[d].op.kind = "delete" /\ DeleteTxn(txn[d])'
    BY Zenon DEF TxnInv, IsTransaction
  <2>1. /\ IsTransaction(txn'[d])
        /\ \/ txn'[d].op.kind = "put" /\ PutTxn(txn'[d])
           \/ txn'[d].op.kind = "delete" /\ DeleteTxn(txn'[d])
    BY <1>1, Zenon DEF Inv, TxnInv
  <2>2. PutTxn(txn'[d]) => PutTxn(txn[d])'
    BY <1>1, Zenon DEF PutTxn, StagesPut, NumbersPut, NewDnt
  <2>3. DeleteTxn(txn'[d]) => DeleteTxn(txn[d])'
    BY <1>1, Zenon DEF DeleteTxn
  <2> QED BY <2>1, <2>2, <2>3, Zenon
<1> QED BY <1>2, <1>3, Zenon DEF Inv

-----------------------------------------------------------------------------
(* The rows after the commit of a put.                                     *)
LEMMA AppliedPut ==
  ASSUME Inv, NEW t, PutTxn(t), kv' = Applied(t)
  PROVE  LET o == t.op.obj
         IN  /\ DOMAIN kv' = Key
             /\ \A u \in Uuid : kv'[UuidIndex(u)] = IF u = o.uuid THEN o.dnt ELSE kv[UuidIndex(u)]
             /\ \A n \in Dn : kv'[DnIndex(n)] = IF n = o.dn THEN o.dnt ELSE kv[DnIndex(n)]
             /\ \A d \in Dnt :
                  /\ kv'[ObjectRow(d)] = IF d = o.dnt THEN [uuid |-> o.uuid, dn |-> o.dn]
                                         ELSE kv[ObjectRow(d)]
                  /\ kv'[Tombstone(d)] = kv[Tombstone(d)]
             /\ kv'[DntCounter] = IF t.adds[DntCounter] = 0 THEN kv[DntCounter]
                                  ELSE AsI64(kv[DntCounter]) + t.adds[DntCounter]
<1> DEFINE o == t.op.obj
<1>1. DOMAIN kv = Key
  BY Zenon DEF Inv, RowTypes
<1>2. /\ DOMAIN kv' = Key
      /\ \A k \in Key : kv'[k] = LET base == IF t.puts[k] = Keep THEN kv[k] ELSE t.puts[k]
                                 IN  IF t.adds[k] = 0 THEN base ELSE AsI64(base) + t.adds[k]
  BY <1>1, Zenon DEF Applied
<1>3. \A k \in Key : k # DntCounter =>
        kv'[k] = IF t.puts[k] = Keep THEN kv[k] ELSE t.puts[k]
  BY <1>2, Zenon DEF PutTxn, StagesPut, NumbersPut
<1>4. o.dnt # Keep /\ o.uuid \in Uuid /\ o.dn \in Dn /\ o.dnt \in Dnt
  BY KvAssumption DEF PutTxn, StagesPut, NumbersPut, IsObject, Dnt
<1>5. [uuid |-> o.uuid, dn |-> o.dn] # Keep
  BY <1>4, StoreAssumption
<1>6. \A u \in Uuid : kv'[UuidIndex(u)] = IF u = o.uuid THEN o.dnt ELSE kv[UuidIndex(u)]
  BY <1>3, <1>4, KeyFacts, KeysApart DEF PutTxn, StagesPut, NumbersPut
<1>7. \A n \in Dn : kv'[DnIndex(n)] = IF n = o.dn THEN o.dnt ELSE kv[DnIndex(n)]
  BY <1>3, <1>4, KeyFacts, KeysApart DEF PutTxn, StagesPut, NumbersPut
<1>8. \A d \in Dnt :
        /\ kv'[ObjectRow(d)] = IF d = o.dnt THEN [uuid |-> o.uuid, dn |-> o.dn]
                               ELSE kv[ObjectRow(d)]
        /\ kv'[Tombstone(d)] = kv[Tombstone(d)]
  BY <1>3, <1>5, KeyFacts, KeysApart DEF PutTxn, StagesPut, NumbersPut
<1>9. kv'[DntCounter] = IF t.adds[DntCounter] = 0 THEN kv[DntCounter]
                        ELSE AsI64(kv[DntCounter]) + t.adds[DntCounter]
  BY <1>2, KeyFacts, Zenon DEF PutTxn, StagesPut, NumbersPut
<1> QED BY <1>2, <1>6, <1>7, <1>8, <1>9, Zenon

(* The rows after the commit of a delete.                                  *)
LEMMA AppliedDelete ==
  ASSUME Inv, NEW t, DeleteTxn(t), kv' = Applied(t)
  PROVE  LET o == t.op.obj
         IN  /\ DOMAIN kv' = Key
             /\ \A u \in Uuid : kv'[UuidIndex(u)] = IF u = o.uuid THEN Absent ELSE kv[UuidIndex(u)]
             /\ \A n \in Dn : kv'[DnIndex(n)] = IF n = o.dn THEN Absent ELSE kv[DnIndex(n)]
             /\ \A d \in Dnt :
                  /\ kv'[ObjectRow(d)] = IF d = o.dnt THEN Absent ELSE kv[ObjectRow(d)]
                  /\ kv'[Tombstone(d)] = IF d = o.dnt THEN o.uuid ELSE kv[Tombstone(d)]
             /\ kv'[DntCounter] = kv[DntCounter]
<1> DEFINE o == t.op.obj
<1>1. DOMAIN kv = Key
  BY Zenon DEF Inv, RowTypes
<1>2. /\ DOMAIN kv' = Key
      /\ \A k \in Key : kv'[k] = IF t.puts[k] = Keep THEN kv[k] ELSE t.puts[k]
  BY <1>1, Zenon DEF Applied, DeleteTxn
<1>3. Absent # Keep /\ o.uuid # Keep /\ o.uuid \in Uuid /\ o.dn \in Dn /\ o.dnt \in Dnt
  BY KvAssumption, StoreAssumption, Zenon DEF DeleteTxn, IsObject
<1>4. \A u \in Uuid : kv'[UuidIndex(u)] = IF u = o.uuid THEN Absent ELSE kv[UuidIndex(u)]
  BY <1>2, <1>3, KeyFacts, Zenon DEF DeleteTxn
<1>5. \A n \in Dn : kv'[DnIndex(n)] = IF n = o.dn THEN Absent ELSE kv[DnIndex(n)]
  BY <1>2, <1>3, KeyFacts, Zenon DEF DeleteTxn
<1>6. \A d \in Dnt :
        /\ kv'[ObjectRow(d)] = IF d = o.dnt THEN Absent ELSE kv[ObjectRow(d)]
        /\ kv'[Tombstone(d)] = IF d = o.dnt THEN o.uuid ELSE kv[Tombstone(d)]
  BY <1>2, <1>3, KeyFacts, Zenon DEF DeleteTxn
<1>7. kv'[DntCounter] = kv[DntCounter]
  BY <1>2, KeyFacts, Zenon DEF DeleteTxn
<1> QED BY <1>2, <1>4, <1>5, <1>6, <1>7, Zenon

(* put keeps the rows sound.  A number that it takes from the counter has  *)
(* no owner; another number is its UUID's already.                         *)
LEMMA PutRows ==
  ASSUME Inv, NEW t, PutTxn(t), ~t.stale, kv' = Applied(t),
         owners' = [owners EXCEPT ![t.op.obj.dnt] = @ \cup {t.op.obj.uuid}]
  PROVE  RowTypes' /\ OwnerInv' /\ IndexInv'
<1> DEFINE o == t.op.obj
           d == o.dnt
           u == o.uuid
           old == kv[DntCounter]
           new == kv'[DntCounter]
<1>1. d \in Dnt /\ u \in Uuid /\ o.dn \in Dn /\ d \in Nat /\ d # Absent /\ MaxDnt \in Nat
  BY KvAssumption, StoreAssumption DEF PutTxn, StagesPut, NumbersPut, IsObject, Dnt
<1>2. RowTypes /\ OwnerInv /\ IndexInv
  BY Zenon DEF Inv
<1>3. /\ old \in (0 .. MaxDnt) \cup {Absent}
      /\ \/ new = old /\ u \in owners[d]
         \/ new = AsI64(old) + 1 /\ d = AsI64(old) + 1
  BY <1>2, AppliedPut DEF PutTxn, StagesPut, NumbersPut, RowTypes, NewDnt
<1>4. /\ new \in (0 .. MaxDnt) \cup {Absent}
      /\ AsI64(old) \in Nat /\ AsI64(new) \in Nat /\ AsI64(old) <= AsI64(new)
      /\ \/ AsI64(new) = AsI64(old) /\ u \in owners[d]
         \/ AsI64(new) = d /\ d = AsI64(old) + 1
  <2>1. Absent \notin Int
    BY KvAssumption, Zenon
  <2> HIDE DEF d, u, old, new
  <2>2. d <= MaxDnt
    BY <1>1 DEF Dnt
  <2>3. CASE new = old /\ u \in owners[d]
    BY <1>1, <1>3, <2>1, <2>3 DEF AsI64
  <2>4. CASE new = AsI64(old) + 1 /\ d = AsI64(old) + 1
    <3>1. AsI64(old) \in Nat
      BY <1>1, <1>3, <2>1 DEF AsI64
    <3>2. new = d /\ new \in 0 .. MaxDnt /\ new \in Nat
      BY <1>1, <2>2, <2>4, <3>1
    <3>3. AsI64(new) = new
      BY <2>1, <3>2 DEF AsI64
    <3> QED BY <2>4, <3>1, <3>2, <3>3
  <2> QED BY <1>3, <2>3, <2>4, Zenon
<1>5. \A v \in owners[d] : v = u
  <2>1. CASE u \in owners[d]
    BY <1>1, <1>2, <2>1, Zenon DEF OwnerInv
  <2>2. CASE AsI64(new) = d /\ d = AsI64(old) + 1
    <3>1. owners[d] # {} => d <= AsI64(old)
      BY <1>1, <1>2, Zenon DEF OwnerInv
    <3> HIDE DEF d, old, new
    <3> QED BY <1>4, <2>2, <3>1
  <2> QED BY <1>4, <2>1, <2>2, Zenon
<1>6. d <= AsI64(new)
  <2>1. u \in owners[d] => d <= AsI64(old)
    BY <1>1, <1>2 DEF OwnerInv
  <2> HIDE DEF d, u, old, new
  <2> QED BY <1>1, <1>4, <2>1
<1>7. \A e \in Dnt : owners'[e] = IF e = d THEN owners[d] \cup {u} ELSE owners[e]
  BY <1>1, <1>2, Zenon DEF OwnerInv
<1>8. owners' \in [Dnt -> SUBSET Uuid]
  BY <1>1, <1>2 DEF OwnerInv
<1>9. /\ DOMAIN kv' = Key
      /\ \A v \in Uuid : kv'[UuidIndex(v)] = IF v = u THEN d ELSE kv[UuidIndex(v)]
      /\ \A n \in Dn : kv'[DnIndex(n)] = IF n = o.dn THEN d ELSE kv[DnIndex(n)]
      /\ \A e \in Dnt :
           /\ kv'[ObjectRow(e)] = IF e = d THEN [uuid |-> u, dn |-> o.dn] ELSE kv[ObjectRow(e)]
           /\ kv'[Tombstone(e)] = kv[Tombstone(e)]
  BY AppliedPut, Zenon
<1> HIDE DEF o, d, u
<1>10. RowTypes'
  BY <1>1, <1>2, <1>4, <1>9 DEF RowTypes, new
<1>11. OwnerInv'
  <2> SUFFICES ASSUME NEW e \in Dnt
               PROVE  /\ \A v, w \in owners'[e] : v = w
                      /\ owners'[e] # {} => e <= AsI64(new)
                      /\ kv'[Tombstone(e)] # Absent => kv'[Tombstone(e)] \in owners'[e]
                      /\ kv'[ObjectRow(e)] # Absent => kv'[ObjectRow(e)].uuid \in owners'[e]
    BY <1>8, Zenon DEF OwnerInv, new, AsI64
  <2>1. \A v, w \in owners'[e] : v = w
    <3>1. CASE e = d
      <4>1. \A v \in owners'[e] : v = u
        BY <1>5, <1>7, <3>1
      <4> QED BY <4>1, Zenon
    <3>2. CASE e # d
      BY <1>2, <1>7, <3>2, Zenon DEF OwnerInv
    <3> QED BY <3>1, <3>2, Zenon
  <2>2. owners'[e] # {} => e <= AsI64(new)
    <3>1. owners[e] # {} => e <= AsI64(old)
      BY <1>2, Zenon DEF OwnerInv
    <3>2. e \in Nat
      BY DEF Dnt
    <3> HIDE DEF old, new
    <3>3. CASE e = d
      BY <1>6, <3>3, Zenon
    <3>4. CASE e # d
      <4>1. owners'[e] # {} => e <= AsI64(old)
        BY <1>7, <3>1, <3>4, Zenon
      <4> QED BY <1>4, <3>2, <4>1
    <3> QED BY <3>3, <3>4, Zenon
  <2>3. /\ kv'[Tombstone(e)] # Absent => kv'[Tombstone(e)] \in owners'[e]
        /\ kv'[ObjectRow(e)] # Absent => kv'[ObjectRow(e)].uuid \in owners'[e]
    BY <1>2, <1>7, <1>9 DEF OwnerInv
  <2> QED BY <2>1, <2>2, <2>3, Zenon
<1>12. IndexInv'
  <2> SUFFICES ASSUME NEW v \in Uuid, kv'[UuidIndex(v)] # Absent
               PROVE  /\ kv'[ObjectRow(kv'[UuidIndex(v)])] # Absent
                      /\ kv'[ObjectRow(kv'[UuidIndex(v)])].uuid = v
    BY Zenon DEF IndexInv
  <2>1. CASE v = u
    BY <1>1, <1>9, <2>1, StoreAssumption
  <2>2. CASE v # u
    <3> DEFINE e == kv[UuidIndex(v)]
    <3>1. kv'[UuidIndex(v)] = e /\ e # Absent /\ e \in Dnt
      BY <1>2, <1>9, <2>2, Zenon DEF RowTypes
    <3>2. kv[ObjectRow(e)] # Absent /\ kv[ObjectRow(e)].uuid = v
      BY <1>2, <3>1, Zenon DEF IndexInv
    <3>3. v \in owners[e]
      BY <1>2, <3>1, <3>2 DEF OwnerInv
    <3> HIDE DEF e
    <3>4. e # d
      BY <1>5, <2>2, <3>3, Zenon
    <3> QED BY <1>9, <3>1, <3>2, <3>4, Zenon
  <2> QED BY <2>1, <2>2, Zenon
<1> QED BY <1>10, <1>11, <1>12, Zenon

(* delete keeps the rows sound: the number is its UUID's, so no other      *)
(* index leads to the row that goes.                                       *)
LEMMA DeleteRows ==
  ASSUME Inv, NEW t, DeleteTxn(t), kv' = Applied(t), UNCHANGED owners
  PROVE  RowTypes' /\ OwnerInv' /\ IndexInv'
<1> DEFINE o == t.op.obj
           d == o.dnt
           u == o.uuid
<1>1. d \in Dnt /\ u \in Uuid /\ o.dn \in Dn /\ u \in owners[d]
  BY Zenon DEF DeleteTxn, IsObject
<1>2. RowTypes /\ OwnerInv /\ IndexInv
  BY Zenon DEF Inv
<1>3. /\ DOMAIN kv' = Key
      /\ \A v \in Uuid : kv'[UuidIndex(v)] = IF v = u THEN Absent ELSE kv[UuidIndex(v)]
      /\ \A n \in Dn : kv'[DnIndex(n)] = IF n = o.dn THEN Absent ELSE kv[DnIndex(n)]
      /\ \A e \in Dnt : /\ kv'[ObjectRow(e)] = IF e = d THEN Absent ELSE kv[ObjectRow(e)]
                        /\ kv'[Tombstone(e)] = IF e = d THEN u ELSE kv[Tombstone(e)]
      /\ kv'[DntCounter] = kv[DntCounter]
  BY AppliedDelete, Zenon
<1> HIDE DEF o, d, u
<1>4. RowTypes'
  BY <1>1, <1>2, <1>3, Zenon DEF RowTypes
<1>5. OwnerInv'
  BY <1>1, <1>2, <1>3 DEF OwnerInv
<1>6. IndexInv'
  <2> SUFFICES ASSUME NEW v \in Uuid, kv'[UuidIndex(v)] # Absent
               PROVE  /\ kv'[ObjectRow(kv'[UuidIndex(v)])] # Absent
                      /\ kv'[ObjectRow(kv'[UuidIndex(v)])].uuid = v
    BY Zenon DEF IndexInv
  <2> DEFINE e == kv[UuidIndex(v)]
  <2>1. v # u /\ kv'[UuidIndex(v)] = e /\ e # Absent /\ e \in Dnt
    BY <1>2, <1>3, Zenon DEF RowTypes
  <2>2. kv[ObjectRow(e)] # Absent /\ kv[ObjectRow(e)].uuid = v
    BY <1>2, <2>1, Zenon DEF IndexInv
  <2>3. v \in owners[e]
    BY <1>2, <2>1, <2>2 DEF OwnerInv
  <2> HIDE DEF e
  <2>4. e # d
    BY <1>1, <1>2, <2>1, <2>3, Zenon DEF OwnerInv
  <2> QED BY <1>3, <2>1, <2>2, <2>4, Zenon
<1> QED BY <1>4, <1>5, <1>6, Zenon

(* What a commit does to the other transactions: they stay as they are, or *)
(* become stale, and one that is not stale has read nothing that changed.  *)
LEMMA CommitFacts ==
  ASSUME Inv, NEW c \in Client, CommitApply(c), NEW d \in Client, txn'[d] # NoTxn
  PROVE  /\ txn[d] # NoTxn /\ IsTransaction(txn'[d])
         /\ txn'[d].op = txn[d].op /\ txn'[d].reads = txn[d].reads
         /\ txn'[d].puts = txn[d].puts /\ txn'[d].adds = txn[d].adds
         /\ ~txn'[d].stale => /\ ~txn[d].stale
                              /\ \A k \in txn[d].reads : kv'[k] = kv[k]
<1> DEFINE w == WriteSet(txn[c])
<1>1. /\ txn'[d] = MarkStale(txn[d], w) /\ txn[d] # NoTxn
  BY Zenon DEF CommitApply, MarkStale
<1>2. IsTransaction(txn[d])
  BY <1>1, Zenon DEF Inv, TxnInv
<1>3. \A k \in Key : k \notin w => kv'[k] = kv[k]
  BY Zenon DEF WriteSet, CommitApply, Applied, Inv, RowTypes
<1> HIDE DEF w
<1>4. txn'[d] = [txn[d] EXCEPT !.stale = txn[d].stale \/ txn[d].reads \cap w # {}]
  BY <1>1, Zenon DEF MarkStale
<1>5. ASSUME NEW t, IsTransaction(t)
      PROVE  LET v == [t EXCEPT !.stale = t.stale \/ t.reads \cap w # {}]
             IN  /\ IsTransaction(v)
                 /\ v.op = t.op /\ v.reads = t.reads /\ v.puts = t.puts /\ v.adds = t.adds
                 /\ ~v.stale => ~t.stale /\ t.reads \cap w = {}
  BY <1>5, Zenon DEF IsTransaction
<1>6. /\ IsTransaction(txn'[d])
      /\ txn'[d].op = txn[d].op /\ txn'[d].reads = txn[d].reads
      /\ txn'[d].puts = txn[d].puts /\ txn'[d].adds = txn[d].adds
      /\ ~txn'[d].stale => ~txn[d].stale /\ txn[d].reads \cap w = {}
  BY <1>2, <1>4, <1>5
<1>7. txn[d].reads \cap w = {} => \A k \in txn[d].reads : kv'[k] = kv[k]
  BY <1>2, <1>3, Zenon DEF IsTransaction
<1> QED BY <1>1, <1>6, <1>7, Zenon

(* A commit preserves the invariant.                                       *)
LEMMA ApplyInv ==
  ASSUME DetectConflicts, Inv, NEW c \in Client, Apply(c)
  PROVE  Inv'
<1> DEFINE t == txn[c]
<1>1. t # NoTxn /\ ~t.stale /\ CommitApply(c) /\ kv' = Applied(t) /\ UNCHANGED call
  BY Zenon DEF Apply, CanCommit, CommitApply
<1>2. \/ t.op.kind = "put" /\ PutTxn(t)
      \/ t.op.kind = "delete" /\ DeleteTxn(t)
  BY <1>1, Zenon DEF Inv, TxnInv
<1>3. /\ t.op.kind = "put" => owners' = [owners EXCEPT ![t.op.obj.dnt] = @ \cup {t.op.obj.uuid}]
      /\ t.op.kind = "delete" => owners' = owners
  BY Zenon DEF Apply
<1> HIDE DEF t
<1>4. RowTypes' /\ OwnerInv' /\ IndexInv'
  BY <1>1, <1>2, <1>3, PutRows, DeleteRows, Zenon
<1>5. \A d \in Dnt : owners[d] \subseteq owners'[d]
  BY <1>2, <1>3 DEF Inv, OwnerInv, PutTxn, StagesPut, NumbersPut
<1>6. DOMAIN txn' = Client /\ DOMAIN call' = Client
  BY <1>1, Zenon DEF CommitApply, Inv
<1>7. CallInv'
  BY <1>1, <1>5, Zenon DEF Inv, CallInv, IsObject
<1>8. TxnInv'
  <2> SUFFICES ASSUME NEW d \in Client, txn'[d] # NoTxn
               PROVE  /\ IsTransaction(txn'[d])
                      /\ \/ txn'[d].op.kind = "put" /\ PutTxn(txn[d])'
                         \/ txn'[d].op.kind = "delete" /\ DeleteTxn(txn[d])'
    BY Zenon DEF TxnInv, IsTransaction
  <2>1. /\ txn[d] # NoTxn /\ IsTransaction(txn'[d])
        /\ txn'[d].op = txn[d].op /\ txn'[d].reads = txn[d].reads
        /\ txn'[d].puts = txn[d].puts /\ txn'[d].adds = txn[d].adds
        /\ ~txn'[d].stale => /\ ~txn[d].stale
                             /\ \A k \in txn[d].reads : kv'[k] = kv[k]
    BY <1>1, CommitFacts, Zenon
  <2>2. \/ txn[d].op.kind = "put" /\ PutTxn(txn[d])
        \/ txn[d].op.kind = "delete" /\ DeleteTxn(txn[d])
    BY <2>1, Zenon DEF Inv, TxnInv
  <2>3. ASSUME PutTxn(txn[d]) PROVE PutTxn(txn[d])'
    <3>1. ~txn'[d].stale /\ DntCounter \in txn[d].reads => NewDnt' = NewDnt
      BY <2>1, Zenon DEF NewDnt, AsI64
    <3> DEFINE o == txn[d].op.obj
    <3>2. StagesPut(txn[d])'
      <4>1. StagesPut(txn'[d])
        BY <2>1, <2>3, SameStaged, Zenon DEF PutTxn
      <4> QED BY <4>1, Zenon DEF StagesPut
    <3>3. CASE txn[d].adds[DntCounter] = 0 /\ o.uuid \in owners[o.dnt]
      <4>1. o.uuid \in owners'[o.dnt]
        BY <1>5, <2>3, <3>3, Zenon DEF PutTxn, StagesPut, NumbersPut
      <4> QED BY <2>1, <3>2, <3>3, <4>1, Zenon DEF PutTxn, NumbersPut
    <3>4. CASE /\ txn[d].adds[DntCounter] = 1 /\ DntCounter \in txn[d].reads
               /\ ~txn[d].stale => o.dnt = NewDnt
      <4>1. ~txn'[d].stale => o.dnt = NewDnt'
        BY <2>1, <3>1, <3>4, Zenon
      <4> QED BY <2>1, <3>2, <3>4, <4>1, Zenon DEF PutTxn, NumbersPut
    <3> QED BY <2>3, <3>3, <3>4, Zenon DEF PutTxn, StagesPut, NumbersPut
  <2>4. ASSUME DeleteTxn(txn[d]) PROVE DeleteTxn(txn[d])'
    BY <1>5, <2>1, <2>4 DEF DeleteTxn
  <2> QED BY <2>1, <2>2, <2>3, <2>4, Zenon
<1> QED BY <1>4, <1>6, <1>7, <1>8, Zenon DEF Inv

-----------------------------------------------------------------------------
(* Every step preserves the invariant.                                     *)
LEMMA NextInv ==
  ASSUME DetectConflicts, Inv, [Next]_vars
  PROVE  Inv'
<1>1. CASE UNCHANGED vars
  <2>1. UNCHANGED <<kv, txn, call, owners>>
    BY <1>1, Zenon DEF vars
  <2>2. RowTypes' /\ OwnerInv' /\ IndexInv' /\ CallInv' /\ DOMAIN txn' = Client /\ DOMAIN call' = Client
    <3>1. RowTypes' /\ DOMAIN txn' = Client /\ DOMAIN call' = Client
      BY <2>1, Zenon DEF Inv, RowTypes
    <3>2. OwnerInv' /\ IndexInv'
      BY <2>1, Zenon DEF Inv, OwnerInv, IndexInv
    <3>3. CallInv'
      BY <2>1, Zenon DEF Inv, CallInv
    <3> QED BY <3>1, <3>2, <3>3, Zenon
  <2>3. TxnInv'
    <3>1. NewDnt' = NewDnt
      BY <2>1, Zenon DEF NewDnt
    <3>2. ASSUME NEW c \in Client, PutTxn(txn[c]) PROVE PutTxn(txn[c])'
      BY <2>1, <3>1, <3>2, Zenon DEF PutTxn, StagesPut, NumbersPut
    <3>3. ASSUME NEW c \in Client, DeleteTxn(txn[c]) PROVE DeleteTxn(txn[c])'
      BY <2>1, <3>3, Zenon DEF DeleteTxn
    <3> QED BY <2>1, <3>2, <3>3, Zenon DEF Inv, TxnInv
  <2> QED BY <2>2, <2>3, Zenon DEF Inv
<1>2. CASE Next
  <2>1. PICK c \in Client :
          \/ Lookup(c) \/ CallPut(c) \/ CallDelete(c) \/ Abandon(c)
          \/ \E u \in Uuid : \/ \E n \in Dn, as \in Attrs : Provision(c, u, n, as)
                             \/ Deprovision(c, u)
          \/ Apply(c) \/ Fail(c)
    BY <1>2, Zenon DEF Next
  <2> QED BY <2>1, LookupInv, CallInvs, ApplyInv, FailInv, Zenon
<1> QED BY <1>1, <1>2, Zenon

(* The rows are typed and sound, and everything in flight that has a DNT   *)
(* has the UUID that owns it.                                              *)
THEOREM Invariance ==
  ASSUME DetectConflicts
  PROVE  Spec => []Inv
<1>1. Init => Inv
  BY InitInv, Zenon
<1>2. Inv /\ [Next]_vars => Inv'
  BY NextInv, Zenon
<1> QED BY <1>1, <1>2, PTL DEF Spec

(* What get answers for a UUID: the DN of the row that the index leads to. *)
DnOfRow(u) ==
  IF kv[UuidIndex(u)] = Absent THEN NoObject ELSE kv[ObjectRow(kv[UuidIndex(u)])].dn

(* get of a UUID with an index row finds the object of that UUID.          *)
LEMMA GetFacts ==
  ASSUME NoneIsNoObject, Inv, NEW u \in Uuid
  PROVE  /\ DnOf(u) = DnOfRow(u)
         /\ kv[UuidIndex(u)] = Absent => Get(u) = NoObject
         /\ kv[UuidIndex(u)] # Absent => Get(u) # NoObject /\ Get(u).uuid = u
<1> DEFINE d == kv[UuidIndex(u)]
<1>1. CASE d = Absent
  BY <1>1, Zenon DEF DnOf, DnOfRow, Get, Read
<1>2. CASE d # Absent
  <2>1. kv[ObjectRow(d)] # Absent /\ kv[ObjectRow(d)].uuid = u
    BY <1>2, Zenon DEF Inv, IndexInv
  <2>2. Get(u) = Object(u, kv[ObjectRow(d)].dn, ReadAttrs(d), d)
    BY <1>2, <2>1, Zenon DEF Get, Read
  <2>3. Get(u) # NoObject
    BY <2>2, Zenon DEF NoneIsNoObject
  <2>4. Get(u).uuid = u /\ Get(u).dn = kv[ObjectRow(d)].dn
    BY <2>2 DEF Object
  <2> QED BY <1>2, <2>3, <2>4, Zenon DEF DnOf, DnOfRow
<1> QED BY <1>1, <1>2, Zenon

(* For every UUID whose index row exists, get finds an object, and it is   *)
(* the one of that UUID: no interleaving of puts, deletes and LDAP         *)
(* handlers with their DNTs of an earlier read leaves the index dangling   *)
(* or leading to another object.                                           *)
THEOREM UuidIndexLeads ==
  ASSUME DetectConflicts, NoneIsNoObject
  PROVE  Spec => []UuidIndexSound
<1>1. Inv => UuidIndexSound
  BY GetFacts, Zenon DEF UuidIndexSound
<1> QED BY <1>1, Invariance, PTL

(* A DNT is one UUID's for ever, a tombstone names the UUID that had it,   *)
(* and the numbers in use are those up to the counter.                     *)
THEOREM DntOwnedByOne ==
  ASSUME DetectConflicts
  PROVE  Spec => []DntForOne
<1>1. Inv => DntForOne
  <2> SUFFICES ASSUME Inv, NEW d \in Dnt
               PROVE  /\ Cardinality(owners[d]) <= 1
                      /\ kv[Tombstone(d)] # Absent => kv[Tombstone(d)] \in owners[d]
                      /\ owners[d] # {} => d <= AsI64(kv[DntCounter])
    BY Zenon DEF DntForOne
  <2>1. \A u, v \in owners[d] : u = v
    BY Zenon DEF Inv, OwnerInv
  <2>2. owners[d] = {} \/ \E u : owners[d] = {u}
    BY <2>1, Zenon
  <2>3. Cardinality(owners[d]) \in {0, 1}
    BY <2>2, FS_EmptySet, FS_Singleton, Zenon
  <2> QED BY <2>3 DEF Inv, OwnerInv
<1> QED BY <1>1, Invariance, PTL

-----------------------------------------------------------------------------
(* The map that a reader by UUID sees.                                     *)
Dir == [u \in Uuid |-> DnOf(u)]

(* A step that leaves the rows alone leaves the map alone.                 *)
LEMMA QuietStep ==
  ASSUME NEW c \in Client,
         \/ Lookup(c) \/ CallPut(c) \/ CallDelete(c) \/ Abandon(c)
         \/ \E u \in Uuid : \/ \E n \in Dn, as \in Attrs : Provision(c, u, n, as)
                            \/ Deprovision(c, u)
         \/ Fail(c)
  PROVE  UNCHANGED kv
<1>1. Lookup(c) \/ Abandon(c) \/ Fail(c) => UNCHANGED kv
  BY Zenon DEF Lookup, Abandon, Fail, CloseTxn
<1>2. CallPut(c) \/ (\E u \in Uuid, n \in Dn, as \in Attrs : Provision(c, u, n, as)) => UNCHANGED kv
  <2>1. \A obj : Put(c, obj) => UNCHANGED kv
    BY Zenon DEF Put
  <2> QED BY <2>1, Zenon DEF CallPut, Provision
<1>3. CallDelete(c) \/ (\E u \in Uuid : Deprovision(c, u)) => UNCHANGED kv
  BY Zenon DEF CallDelete, Deprovision, Delete
<1> QED BY <1>1, <1>2, <1>3, Zenon

(* The map is a function of the rows.                                      *)
LEMMA QuietMap ==
  ASSUME UNCHANGED kv
  PROVE  Dir' = Dir
BY DEF Dir, DnOf, Get, Read, ReadAttrs

(* A commit changes the entry of its UUID, to the DN of the object that it *)
(* puts or to nothing.  The index of any other UUID leads to a number of   *)
(* that UUID, which this commit does not write.                            *)
LEMMA ApplyMap ==
  ASSUME NoneIsNoObject, Inv, Inv', NEW t, kv' = Applied(t),
         \/ t.op.kind = "put" /\ PutTxn(t)
         \/ t.op.kind = "delete" /\ DeleteTxn(t),
         owners' = IF t.op.kind = "put"
                   THEN [owners EXCEPT ![t.op.obj.dnt] = @ \cup {t.op.obj.uuid}] ELSE owners
  PROVE  LET op == t.op
         IN  /\ op.kind \in {"put", "delete"} /\ op.obj.uuid \in Uuid /\ op.obj.dn \in Dn
             /\ Dir' = [Dir EXCEPT ![op.obj.uuid] = IF op.kind = "put" THEN op.obj.dn
                                                    ELSE NoObject]
<1> DEFINE o == t.op.obj
           d == o.dnt
           u == o.uuid
<1>1. IsObject(o) /\ d \in Dnt
  BY Zenon DEF PutTxn, StagesPut, NumbersPut, DeleteTxn
<1>2. Absent \notin Dnt
  BY KvAssumption DEF Dnt
<1>3. d \in Dnt /\ u \in Uuid /\ o.dn \in Dn /\ d # Absent
  BY <1>1, <1>2, Zenon DEF IsObject
<1>4. \A v \in Uuid : DnOf(v) = DnOfRow(v)
  BY GetFacts, Zenon
<1>5. \A v \in Uuid : DnOf(v)' = DnOfRow(v)'
  <2> SUFFICES ASSUME NEW v \in Uuid PROVE DnOf(v)' = DnOfRow(v)'
    BY Zenon
  <2>1. CASE kv'[UuidIndex(v)] = Absent
    BY <2>1, Zenon DEF DnOf, DnOfRow, Get, Read
  <2>2. CASE kv'[UuidIndex(v)] # Absent
    <3>1. kv'[ObjectRow(kv'[UuidIndex(v)])] # Absent
      BY <2>2, Zenon DEF Inv, IndexInv
    <3> QED BY <2>2, <3>1, Zenon DEF DnOf, DnOfRow, Get, Read, NoneIsNoObject, Object
  <2> QED BY <2>1, <2>2, Zenon
<1>6. u \in owners'[d]
  <2>1. CASE t.op.kind = "put"
    BY <1>3, <2>1 DEF Inv, OwnerInv
  <2>2. CASE t.op.kind = "delete"
    BY <2>2, Zenon DEF DeleteTxn
  <2> QED BY <2>1, <2>2, Zenon
<1>7. ASSUME NEW v \in Uuid, v # u, kv[UuidIndex(v)] # Absent
      PROVE  kv[UuidIndex(v)] \in Dnt /\ kv[UuidIndex(v)] # d
  <2> DEFINE e == kv[UuidIndex(v)]
  <2>1. e \in Dnt /\ v \in owners[e]
    <3>1. e \in Dnt
      BY <1>7, Zenon DEF Inv, RowTypes
    <3>2. kv[ObjectRow(e)] # Absent /\ kv[ObjectRow(e)].uuid = v
      BY <1>7, Zenon DEF Inv, IndexInv
    <3>3. kv[ObjectRow(e)].uuid \in owners[e]
      BY <3>1, <3>2, Zenon DEF Inv, OwnerInv
    <3> QED BY <3>1, <3>2, <3>3, Zenon
  <2>2. owners[e] \subseteq owners'[e]
    BY <1>3, <2>1 DEF Inv, OwnerInv
  <2>3. \A x, y \in owners'[d] : x = y
    BY <1>3, Zenon DEF Inv, OwnerInv
  <2> HIDE DEF e, d, u
  <2>4. e # d
    BY <1>6, <1>7, <2>1, <2>2, <2>3, Zenon
  <2> QED BY <2>1, <2>4, Zenon DEF e
<1>8. \A v \in Uuid : v # u => DnOfRow(v)' = DnOfRow(v)
  <2> SUFFICES ASSUME NEW v \in Uuid, v # u PROVE DnOfRow(v)' = DnOfRow(v)
    BY Zenon
  <2>1. kv'[UuidIndex(v)] = kv[UuidIndex(v)]
    <3>1. CASE t.op.kind = "put" /\ PutTxn(t)
      BY <3>1, AppliedPut, Zenon
    <3>2. CASE t.op.kind = "delete" /\ DeleteTxn(t)
      BY <3>2, AppliedDelete, Zenon
    <3> QED BY <3>1, <3>2, Zenon
  <2>2. kv[UuidIndex(v)] # Absent =>
          kv'[ObjectRow(kv[UuidIndex(v)])] = kv[ObjectRow(kv[UuidIndex(v)])]
    <3>1. CASE t.op.kind = "put" /\ PutTxn(t)
      BY <1>7, <3>1, AppliedPut, Zenon
    <3>2. CASE t.op.kind = "delete" /\ DeleteTxn(t)
      BY <1>7, <3>2, AppliedDelete, Zenon
    <3> QED BY <3>1, <3>2, Zenon
  <2> QED BY <2>1, <2>2, Zenon DEF DnOfRow
<1>9. DnOfRow(u)' = IF t.op.kind = "put" THEN o.dn ELSE NoObject
  <2>1. CASE t.op.kind = "put" /\ PutTxn(t)
    <3>1. kv'[UuidIndex(u)] = d /\ kv'[ObjectRow(d)] = [uuid |-> u, dn |-> o.dn]
      BY <1>3, <2>1, AppliedPut, Zenon
    <3> HIDE DEF o, d, u
    <3> QED BY <1>3, <2>1, <3>1 DEF DnOfRow
  <2>2. CASE t.op.kind = "delete" /\ DeleteTxn(t)
    <3>1. kv'[UuidIndex(u)] = Absent
      BY <1>3, <2>2, AppliedDelete, Zenon
    <3> QED BY <2>2, <3>1, Zenon DEF DnOfRow
  <2> QED BY <2>1, <2>2, Zenon
<1> HIDE DEF u
<1>10. Dir' = [Dir EXCEPT ![u] = IF t.op.kind = "put" THEN o.dn ELSE NoObject]
  BY <1>3, <1>4, <1>5, <1>8, <1>9, Zenon DEF Dir
<1> QED BY <1>3, <1>10, Zenon DEF u

(* The store implements the map of Directory: every step puts or deletes   *)
(* one object or leaves the map as it is, however the transactions of the  *)
(* callers interleave and whatever DNT a handler has read before.          *)
THEOREM StoreIsDirectory ==
  ASSUME DetectConflicts, NoneIsNoObject
  PROVE  Spec => RefinesDirectory
<1>1. Init => Abstract!Init
  <2> SUFFICES ASSUME Init PROVE \A u \in Uuid : DnOf(u) = NoObject
    BY Zenon DEF Abstract!Init
  <2> QED BY KeyFacts, Zenon DEF Init, DnOf, Get, Read
<1>2. Inv /\ Inv' /\ [Next]_vars => [Abstract!Next]_(Dir)
  <2> SUFFICES ASSUME Inv, Inv', [Next]_vars
               PROVE  Abstract!Next \/ Dir' = Dir
    BY Zenon
  <2>1. CASE UNCHANGED vars
    BY <2>1, QuietMap, Zenon DEF vars
  <2>2. CASE Next
    <3>1. PICK c \in Client :
            \/ Lookup(c) \/ CallPut(c) \/ CallDelete(c) \/ Abandon(c)
            \/ \E u \in Uuid : \/ \E n \in Dn, as \in Attrs : Provision(c, u, n, as)
                               \/ Deprovision(c, u)
            \/ Apply(c) \/ Fail(c)
      BY <2>2, Zenon DEF Next
    <3>2. CASE ~Apply(c)
      BY <3>1, <3>2, QuietStep, QuietMap, Zenon
    <3>3. CASE Apply(c)
      <4> DEFINE op == txn[c].op
      <4>1. /\ op.kind \in {"put", "delete"} /\ op.obj.uuid \in Uuid /\ op.obj.dn \in Dn
            /\ Dir' = [Dir EXCEPT ![op.obj.uuid] = IF op.kind = "put" THEN op.obj.dn
                                                   ELSE NoObject]
        <5>1. txn[c] # NoTxn /\ kv' = Applied(txn[c])
          BY <3>3, Zenon DEF Apply, CanCommit, CommitApply
        <5>2. \/ txn[c].op.kind = "put" /\ PutTxn(txn[c])
              \/ txn[c].op.kind = "delete" /\ DeleteTxn(txn[c])
          BY <5>1, Zenon DEF Inv, TxnInv
        <5> QED BY <3>3, <5>1, <5>2, ApplyMap, Zenon DEF Apply
      <4> HIDE DEF op
      <4> QED BY <4>1, Zenon DEF Abstract!Next, Abstract!Put, Abstract!Delete, Dir
    <3> QED BY <3>2, <3>3, Zenon
  <2> QED BY <2>1, <2>2, Zenon
<1> QED BY <1>1, <1>2, Invariance, PTL DEF Spec, RefinesDirectory, Abstract!Spec, Dir
=============================================================================
