------------------------- MODULE IdentityMapProofs -------------------------
(***************************************************************************)
(* Proofs about IdentityMap on a store that detects conflicts, for any     *)
(* callers, names and cache capacity: the table is a bijection, the cache  *)
(* is stale only where a removal overtook its reader, and the UID of a     *)
(* principal leads back to it until the numbers wrap around.               *)
(*                                                                         *)
(* None of these is inductive.  The invariant says of every transaction    *)
(* that may still commit that it would stage the same again: what it read  *)
(* is what the store holds now.  A commit that changes what another has    *)
(* read makes that one stale, and a stale one is refused.                  *)
(***************************************************************************)
EXTENDS IdentityMap, TLAPS

Operation == [kind : {"insert", "remove", "uid"}, uuid : Uuid, sid : Sid \cup {Absent}]

Transaction ==
  [op : Operation, reads : SUBSET Key,
   puts : [Key -> Uuid \cup Sid \cup Nat \cup {Absent, Keep}],
   adds : [Key -> Nat], stale : BOOLEAN]

CacheStep ==
  {Idle} \cup [step : {"find"}, uuid : Uuid]
    \cup [step : {"put", "putRev", "drop", "dropRev"}, uuid : Uuid, sid : Sid]

(* Types of the rows; a counter that exists has counted.                   *)
RowTypes ==
  /\ DOMAIN kv = Key
  /\ kv[UidCounter] \in 1 .. MaxUid \cup {Absent}
  /\ \A u \in Uuid : /\ kv[Fwd(u)] \in Sid \cup {Absent}
                     /\ kv[UuidToUid(u)] \in UidRange \cup {Absent}
  /\ \A s \in Sid : kv[Rev(s)] \in Uuid \cup {Absent}

(* Types of all variables; a caller with a cache step has no transaction.  *)
Types ==
  /\ RowTypes
  /\ txn \in [Client -> Transaction \cup {NoTxn}]
  /\ cacheFwd \in [Uuid -> Sid \cup {Absent}]
  /\ cacheRev \in [Sid -> Uuid \cup {Absent}]
  /\ todo \in [Client -> CacheStep]
  /\ \A c \in Client : todo[c] # Idle => txn[c] = NoTxn

(* insert has found both rows absent and stages both.                      *)
InsertNow(t) ==
  LET u == t.op.uuid
      s == t.op.sid
  IN  /\ s \in Sid
      /\ t.reads = {Rev(s), Fwd(u)}
      /\ kv[Fwd(u)] = Absent /\ kv[Rev(s)] = Absent
      /\ \A k \in Key :
           /\ t.adds[k] = 0
           /\ t.puts[k] = IF k = Fwd(u) THEN s ELSE IF k = Rev(s) THEN u ELSE Keep

(* remove deletes the rows that u has.                                     *)
RowsOf(u) ==
  {Fwd(u), Rev(kv[Fwd(u)])} \cup
    (IF kv[UuidToUid(u)] = Absent THEN {} ELSE {UuidToUid(u), UidIndex(kv[UuidToUid(u)])})

RemoveNow(t) ==
  LET u == t.op.uuid
  IN  /\ kv[Fwd(u)] # Absent
      /\ t.reads = {Fwd(u), UuidToUid(u)}
      /\ \A k \in Key :
           t.adds[k] = 0 /\ t.puts[k] = IF k \in RowsOf(u) THEN Absent ELSE Keep

(* allocate_uid stages the number after the counter.                       *)
UidNow(t) ==
  LET u == t.op.uuid
  IN  /\ AsI64(kv[UidCounter]) < MaxUid
      /\ t.reads = {UidCounter}
      /\ \A k \in Key :
           /\ t.adds[k] = IF k = UidCounter THEN 1 ELSE 0
           /\ t.puts[k] = IF k = UuidToUid(u) THEN NextUid
                          ELSE IF k = UidIndex(NextUid) THEN u ELSE Keep

StagedNow(t) ==
  /\ t.op.kind = "insert" => InsertNow(t)
  /\ t.op.kind = "remove" => RemoveNow(t)
  /\ t.op.kind = "uid" => UidNow(t)

(* A transaction that may still commit would stage the same now.           *)
TxnInv == \A c \in Client : txn[c] # NoTxn /\ ~txn[c].stale => StagedNow(txn[c])

(* A mapping on its way into the cache is the one of the table, or its     *)
(* removal was overtaken.                                                  *)
InHandInv ==
  \A c \in Client :
    todo[c].step = "put" =>
      todo[c].sid = kv[Fwd(todo[c].uuid)] \/ todo[c].uuid \in missed

(* The UIDs in use: the first, and those from 2 up to the counter.         *)
UidsIssued ==
  \A u \in Uuid :
    kv[UuidToUid(u)] # Absent =>
      /\ kv[UidCounter] # Absent
      /\ kv[UuidToUid(u)] = UidBase \/ kv[UuidToUid(u)] \in 2 .. kv[UidCounter]

Inv ==
  /\ Types
  /\ TxnInv
  /\ Bijective
  /\ InHandInv
  /\ StaleOnlyWhenMissed
  /\ UidsIssued
  /\ UidLeadsBack

-----------------------------------------------------------------------------
(* The keys of a principal are keys, and no two of them are the same.      *)
LEMMA KeyFacts ==
  /\ UidCounter \in Key
  /\ \A u \in Uuid : Fwd(u) \in Key /\ UuidToUid(u) \in Key
  /\ \A s \in Sid : Rev(s) \in Key
  /\ \A x \in UidRange : UidIndex(x) \in Key
BY Zenon DEF Key

(* Rows of different kinds, or of different names, have different keys.    *)
LEMMA KeysApart ==
  /\ \A u, v : /\ Fwd(u) = Fwd(v) => u = v
               /\ Rev(u) = Rev(v) => u = v
               /\ UuidToUid(u) = UuidToUid(v) => u = v
               /\ UidIndex(u) = UidIndex(v) => u = v
  /\ \A u, v : /\ Fwd(u) # Rev(v) /\ Fwd(u) # UuidToUid(v) /\ Fwd(u) # UidIndex(v)
               /\ Rev(u) # UuidToUid(v) /\ Rev(u) # UidIndex(v)
               /\ UuidToUid(u) # UidIndex(v)
               /\ Fwd(u) # UidCounter /\ Rev(u) # UidCounter
               /\ UuidToUid(u) # UidCounter /\ UidIndex(u) # UidCounter
BY Zenon DEF Fwd, Rev, UuidToUid, UidIndex, UidCounter

(* The number allocate_uid takes is in range while the counter is.         *)
LEMMA NextUidFacts ==
  ASSUME RowTypes, AsI64(kv[UidCounter]) < MaxUid
  PROVE  NextUid \in UidRange /\ NextUid \in Nat
<1>1. kv[UidCounter] \in 1 .. MaxUid \cup {Absent} /\ UidBase \in Nat \ {0} /\ MaxUid \in Nat
  BY IdentityAssumption, Zenon DEF RowTypes
<1> QED BY <1>1 DEF NextUid, UidRange, AsI64

(* Nothing is in the table, in flight or in the cache at the start.        *)
LEMMA InitInv == Init => Inv
<1> SUFFICES ASSUME Init PROVE Inv
  BY Zenon
<1> USE DEF Init
<1>1. \A k \in Key : kv[k] = Absent
  BY Zenon
<1>2. Types
  BY <1>1, KeyFacts, IdentityAssumption, Zenon DEF Types, RowTypes, CacheStep
<1>3. TxnInv /\ InHandInv
  BY Zenon DEF TxnInv, InHandInv, Idle
<1>4. Bijective
  BY <1>1, KeyFacts, IdentityAssumption, Zenon DEF Bijective
<1>5. StaleOnlyWhenMissed /\ UidsIssued /\ UidLeadsBack
  BY <1>1, KeyFacts, Zenon DEF StaleOnlyWhenMissed, UidsIssued, UidLeadsBack
<1> QED BY <1>2, <1>3, <1>4, <1>5, Zenon DEF Inv

-----------------------------------------------------------------------------
(* Opening a transaction that stages what StagedNow says, by a caller that *)
(* has nothing to do for the cache, preserves the invariant.               *)
LEMMA BeginInv ==
  ASSUME Inv, NEW c \in Client, Ready(c), NEW t \in Transaction, StagedNow(t),
         txn' = [txn EXCEPT ![c] = t], UNCHANGED <<kv, cacheVars>>
  PROVE  Inv'
<1>1. UNCHANGED <<kv, cacheFwd, cacheRev, todo, missed>>
  BY Zenon DEF cacheVars
<1>2. Types'
  BY <1>1, Zenon DEF Inv, Types, RowTypes, Ready
<1>3. TxnInv'
  <2> SUFFICES ASSUME NEW d \in Client, txn'[d] # NoTxn, ~txn'[d].stale
               PROVE  StagedNow(txn[d])'
    BY Zenon DEF TxnInv
  <2>1. StagedNow(txn'[d])
    BY Zenon DEF Inv, Types, TxnInv
  <2> QED BY <1>1, <2>1
          DEF StagedNow, InsertNow, RemoveNow, UidNow, RowsOf, NextUid
<1>4. Bijective' /\ InHandInv' /\ StaleOnlyWhenMissed' /\ UidsIssued' /\ UidLeadsBack'
  BY <1>1 DEF Inv, Bijective, InHandInv, StaleOnlyWhenMissed, UidsIssued, UidLeadsBack
<1> QED BY <1>2, <1>3, <1>4, Zenon DEF Inv

(* insert: a reverse row that names u would have a forward row.            *)
LEMMA InsertInv ==
  ASSUME Inv, NEW c \in Client, NEW u \in Uuid, NEW s \in Sid, Insert(c, u, s)
  PROVE  Inv'
<1> DEFINE t == [op |-> Op("insert", u, s), reads |-> {Rev(s), Fwd(u)},
                 puts |-> Staged([k \in {Fwd(u), Rev(s)} |-> IF k = Fwd(u) THEN s ELSE u]),
                 adds |-> NoAdds, stale |-> FALSE]
<1>1. /\ Ready(c) /\ txn' = [txn EXCEPT ![c] = t] /\ UNCHANGED <<kv, cacheVars>>
      /\ kv[Rev(s)] \in {Absent, u} /\ kv[Fwd(u)] = Absent
  BY Zenon DEF Insert, Begin
<1>2. kv[Rev(s)] = Absent
  BY <1>1, IdentityAssumption, Zenon DEF Inv, Bijective
<1>3. DOMAIN kv = Key
  BY Zenon DEF Inv, Types, RowTypes
<1>4. \A k \in Key : /\ t.adds[k] = 0
                    /\ t.puts[k] = IF k = Fwd(u) THEN s ELSE IF k = Rev(s) THEN u ELSE Keep
  BY <1>3, Zenon DEF NoAdds, Staged
<1>5. t \in Transaction
  <2>1. t.puts \in [Key -> Uuid \cup Sid \cup Nat \cup {Absent, Keep}]
    BY Zenon DEF Staged
  <2>2. t.adds \in [Key -> Nat]
    BY <1>3, Zenon DEF NoAdds
  <2>3. t.op \in Operation /\ t.reads \in SUBSET Key
    BY KeyFacts, Zenon DEF Operation, Op
  <2> QED BY <2>1, <2>2, <2>3, Zenon DEF Transaction
<1>6. StagedNow(t)
  BY <1>1, <1>2, <1>4, Zenon DEF StagedNow, InsertNow, Op
<1> HIDE DEF t
<1> QED BY <1>1, <1>5, <1>6, BeginInv, Zenon

(* remove.                                                                 *)
LEMMA RemoveInv ==
  ASSUME Inv, NEW c \in Client, NEW u \in Uuid, Remove(c, u)
  PROVE  Inv'
<1> DEFINE t == [op |-> Op("remove", u, kv[Fwd(u)]), reads |-> {Fwd(u), UuidToUid(u)},
                 puts |-> Staged([k \in RowsOf(u) |-> Absent]),
                 adds |-> NoAdds, stale |-> FALSE]
<1>1. /\ Ready(c) /\ txn' = [txn EXCEPT ![c] = t] /\ UNCHANGED <<kv, cacheVars>>
      /\ kv[Fwd(u)] # Absent
  BY Zenon DEF Remove, Begin, RowsOf
<1>2. DOMAIN kv = Key /\ kv[Fwd(u)] \in Sid \cup {Absent}
  BY Zenon DEF Inv, Types, RowTypes
<1>3. \A k \in Key : t.adds[k] = 0 /\ t.puts[k] = IF k \in RowsOf(u) THEN Absent ELSE Keep
  BY <1>2, Zenon DEF NoAdds, Staged
<1>4. t \in Transaction
  <2>1. t.puts \in [Key -> Uuid \cup Sid \cup Nat \cup {Absent, Keep}]
    BY Zenon DEF Staged
  <2>2. t.adds \in [Key -> Nat]
    BY <1>2, Zenon DEF NoAdds
  <2>3. t.op \in Operation /\ t.reads \in SUBSET Key
    BY <1>2, KeyFacts, Zenon DEF Operation, Op
  <2> QED BY <2>1, <2>2, <2>3, Zenon DEF Transaction
<1>5. StagedNow(t)
  BY <1>1, <1>3, Zenon DEF StagedNow, RemoveNow, Op
<1> HIDE DEF t
<1> QED BY <1>1, <1>4, <1>5, BeginInv, Zenon

(* allocate_uid.                                                           *)
LEMMA AllocateUidInv ==
  ASSUME Inv, NEW c \in Client, NEW u \in Uuid, AllocateUid(c, u)
  PROVE  Inv'
<1> DEFINE x == NextUid
           t == [op |-> Op("uid", u, Absent), reads |-> {UidCounter},
                 puts |-> Staged([k \in {UuidToUid(u), UidIndex(x)} |->
                                    IF k = UuidToUid(u) THEN x ELSE u]),
                 adds |-> [NoAdds EXCEPT ![UidCounter] = 1], stale |-> FALSE]
<1>1. /\ Ready(c) /\ txn' = [txn EXCEPT ![c] = t] /\ UNCHANGED <<kv, cacheVars>>
      /\ AsI64(kv[UidCounter]) < MaxUid
  BY Zenon DEF AllocateUid, Begin
<1>2. DOMAIN kv = Key /\ x \in Nat
  BY <1>1, NextUidFacts, Zenon DEF Inv, Types, RowTypes
<1> HIDE DEF x
<1>3. \A k \in Key : /\ t.adds[k] = IF k = UidCounter THEN 1 ELSE 0
                    /\ t.puts[k] = IF k = UuidToUid(u) THEN x
                                   ELSE IF k = UidIndex(x) THEN u ELSE Keep
  BY <1>2, KeyFacts, Zenon DEF NoAdds, Staged
<1>4. t \in Transaction
  <2>1. t.puts \in [Key -> Uuid \cup Sid \cup Nat \cup {Absent, Keep}]
    BY <1>2, Zenon DEF Staged
  <2>2. t.adds \in [Key -> Nat]
    BY <1>2, Zenon DEF NoAdds
  <2>3. t.op \in Operation /\ t.reads \in SUBSET Key
    BY KeyFacts, Zenon DEF Operation, Op
  <2> QED BY <2>1, <2>2, <2>3, Zenon DEF Transaction
<1>5. StagedNow(t)
  BY <1>1, <1>3, Zenon DEF StagedNow, UidNow, Op, x
<1> HIDE DEF t
<1> QED BY <1>1, <1>4, <1>5, BeginInv, Zenon

-----------------------------------------------------------------------------
(* A commit takes the transaction of its caller, leaves the keys that it   *)
(* does not write, and makes those stale that have read one it writes.     *)
LEMMA CommitFacts ==
  ASSUME DetectConflicts, Inv, NEW c \in Client, CanCommit(c), CommitApply(c)
  PROVE  /\ txn[c] \in Transaction /\ StagedNow(txn[c])
         /\ DOMAIN kv' = Key
         /\ \A k \in Key : k \notin WriteSet(txn[c]) => kv'[k] = kv[k]
         /\ txn' \in [Client -> Transaction \cup {NoTxn}]
         /\ txn'[c] = NoTxn
         /\ \A d \in Client :
              /\ txn[d] = NoTxn => txn'[d] = NoTxn
              /\ txn'[d] # NoTxn /\ ~txn'[d].stale =>
                   /\ txn[d] # NoTxn /\ ~txn[d].stale
                   /\ txn'[d].op = txn[d].op /\ txn'[d].reads = txn[d].reads
                   /\ txn'[d].puts = txn[d].puts /\ txn'[d].adds = txn[d].adds
                   /\ txn[d].reads \cap WriteSet(txn[c]) = {}
<1>1. txn[c] \in Transaction /\ txn[c] # NoTxn /\ ~txn[c].stale
  BY Zenon DEF CanCommit, Inv, Types
<1>2. StagedNow(txn[c])
  BY <1>1, Zenon DEF Inv, TxnInv
<1>3. DOMAIN kv = Key /\ DOMAIN kv' = Key
  BY Zenon DEF Inv, Types, RowTypes, CommitApply, Applied
<1>4. \A k \in Key : k \notin WriteSet(txn[c]) => kv'[k] = kv[k]
  BY <1>3, Zenon DEF WriteSet, CommitApply, Applied
<1>5. ASSUME NEW d \in Client
      PROVE  txn'[d] = IF d = c THEN NoTxn ELSE MarkStale(txn[d], WriteSet(txn[c]))
  BY Zenon DEF CommitApply
<1>6. ASSUME NEW t \in Transaction, NEW w
      PROVE  LET v == [t EXCEPT !.stale = t.stale \/ t.reads \cap w # {}]
             IN  /\ v \in Transaction
                 /\ v.op = t.op /\ v.reads = t.reads /\ v.puts = t.puts /\ v.adds = t.adds
                 /\ ~v.stale => ~t.stale /\ t.reads \cap w = {}
  BY Zenon DEF Transaction
<1>7. \A d \in Client : txn[d] \in Transaction \cup {NoTxn}
  BY Zenon DEF Inv, Types
<1>8. txn' \in [Client -> Transaction \cup {NoTxn}]
  <2>1. \A d \in Client : MarkStale(txn[d], WriteSet(txn[c])) \in Transaction \cup {NoTxn}
    BY <1>6, <1>7, Zenon DEF MarkStale
  <2> QED BY <2>1, Zenon DEF CommitApply
<1>9. ASSUME NEW d \in Client
      PROVE  /\ txn[d] = NoTxn => txn'[d] = NoTxn
             /\ txn'[d] # NoTxn /\ ~txn'[d].stale =>
                  /\ txn[d] # NoTxn /\ ~txn[d].stale
                  /\ txn'[d].op = txn[d].op /\ txn'[d].reads = txn[d].reads
                  /\ txn'[d].puts = txn[d].puts /\ txn'[d].adds = txn[d].adds
                  /\ txn[d].reads \cap WriteSet(txn[c]) = {}
  <2>1. CASE txn[d] = NoTxn \/ d = c
    BY <1>5, <2>1, Zenon DEF MarkStale
  <2>2. CASE txn[d] # NoTxn /\ d # c
    <3>1. txn[d] \in Transaction
      BY <1>7, <2>2, Zenon
    <3>2. txn'[d] = [txn[d] EXCEPT !.stale = txn[d].stale \/ txn[d].reads \cap WriteSet(txn[c]) # {}]
      BY <1>5, <2>2, Zenon DEF MarkStale
    <3>3. /\ txn'[d].op = txn[d].op /\ txn'[d].reads = txn[d].reads
          /\ txn'[d].puts = txn[d].puts /\ txn'[d].adds = txn[d].adds
          /\ ~txn'[d].stale => ~txn[d].stale /\ txn[d].reads \cap WriteSet(txn[c]) = {}
      BY <1>6, <3>1, <3>2
    <3> QED BY <2>2, <3>3, Zenon
  <2> QED BY <2>1, <2>2, Zenon
<1> QED BY <1>1, <1>2, <1>3, <1>4, <1>5, <1>8, <1>9, Zenon

(* What is not stale after a commit has read nothing that changed.         *)
LEMMA CommitTxnInv ==
  ASSUME DetectConflicts, Inv, NEW c \in Client, CanCommit(c), CommitApply(c)
  PROVE  TxnInv'
<1> SUFFICES ASSUME NEW d \in Client, txn'[d] # NoTxn, ~txn'[d].stale
             PROVE  StagedNow(txn[d])'
  BY Zenon DEF TxnInv
<1> DEFINE t == txn[d]
           u == t.op.uuid
<1>1. /\ txn[d] # NoTxn /\ ~txn[d].stale
      /\ t'.op = t.op /\ t'.reads = t.reads /\ t'.puts = t.puts /\ t'.adds = t.adds
  BY CommitFacts, Zenon
<1>2. StagedNow(t) /\ t \in Transaction /\ u \in Uuid
  BY <1>1, Zenon DEF Inv, TxnInv, Types, Transaction, Operation
<1>3. \A k \in t.reads : kv'[k] = kv[k]
  <2>1. t.reads \subseteq Key /\ t.reads \cap WriteSet(txn[c]) = {}
    BY <1>2, CommitFacts, Zenon DEF Transaction
  <2> QED BY <2>1, CommitFacts, Zenon
<1>4. t'.op.kind = "insert" => InsertNow(t)'
  BY <1>1, <1>2, <1>3 DEF StagedNow, InsertNow
<1>5. t'.op.kind = "remove" => RemoveNow(t)'
  <2>1. t.op.kind = "remove" => kv'[Fwd(u)] = kv[Fwd(u)] /\ kv'[UuidToUid(u)] = kv[UuidToUid(u)]
    BY <1>2, <1>3, Zenon DEF StagedNow, RemoveNow
  <2>2. t.op.kind = "remove" => RowsOf(u)' = RowsOf(u)
    BY <1>1, <2>1, Zenon DEF RowsOf
  <2> QED BY <1>1, <1>2, <2>1, <2>2, Zenon DEF StagedNow, RemoveNow
<1>6. t'.op.kind = "uid" => UidNow(t)'
  <2>1. t.op.kind = "uid" => kv'[UidCounter] = kv[UidCounter]
    BY <1>2, <1>3, Zenon DEF StagedNow, UidNow
  <2>2. t.op.kind = "uid" => NextUid' = NextUid
    BY <2>1, Zenon DEF NextUid
  <2> QED BY <1>1, <1>2, <2>1, <2>2, Zenon DEF StagedNow, UidNow
<1> QED BY <1>4, <1>5, <1>6, Zenon DEF StagedNow

(* The table after the commit of each operation.                           *)
LEMMA AppliedInsert ==
  ASSUME Inv, NEW t \in Transaction, InsertNow(t), kv' = Applied(t)
  PROVE  \A k \in Key : kv'[k] = IF k = Fwd(t.op.uuid) THEN t.op.sid
                                 ELSE IF k = Rev(t.op.sid) THEN t.op.uuid ELSE kv[k]
<1>1. DOMAIN kv = Key /\ t.op.uuid \in Uuid /\ t.op.sid \in Sid
  BY Zenon DEF Inv, Types, RowTypes, Transaction, Operation, InsertNow
<1>2. t.op.uuid # Keep /\ t.op.sid # Keep
  BY <1>1, IdentityAssumption, Zenon
<1> QED BY <1>1, <1>2, Zenon DEF Applied, InsertNow

(* What a committed remove leaves: the rows of its UUID are gone.          *)
LEMMA AppliedRemove ==
  ASSUME Inv, NEW t \in Transaction, RemoveNow(t), kv' = Applied(t)
  PROVE  \A k \in Key : kv'[k] = IF k \in RowsOf(t.op.uuid) THEN Absent ELSE kv[k]
<1>1. DOMAIN kv = Key
  BY Zenon DEF Inv, Types, RowTypes
<1> QED BY <1>1, KvAssumption, Zenon DEF Applied, RemoveNow

(* What a committed allocate_uid leaves: its two rows, and the counter one *)
(* higher.                                                                 *)
LEMMA AppliedUid ==
  ASSUME Inv, NEW t \in Transaction, UidNow(t), kv' = Applied(t)
  PROVE  \A k \in Key :
           kv'[k] = IF k = UuidToUid(t.op.uuid) THEN NextUid
                    ELSE IF k = UidIndex(NextUid) THEN t.op.uuid
                    ELSE IF k = UidCounter THEN AsI64(kv[UidCounter]) + 1 ELSE kv[k]
<1> DEFINE u == t.op.uuid
           x == NextUid
<1>1. DOMAIN kv = Key /\ u \in Uuid
  BY Zenon DEF Inv, Types, RowTypes, Transaction, Operation
<1>2. x \in Nat
  BY NextUidFacts, Zenon DEF Inv, Types, UidNow
<1>3. x # Keep /\ u # Keep /\ UuidToUid(u) # UidCounter /\ UidIndex(x) # UidCounter
  BY <1>1, <1>2, KeysApart, KvAssumption, IdentityAssumption
<1>4. \A k \in Key :
        /\ t.adds[k] = IF k = UidCounter THEN 1 ELSE 0
        /\ t.puts[k] = IF k = UuidToUid(u) THEN x ELSE IF k = UidIndex(x) THEN u ELSE Keep
  BY Zenon DEF UidNow
<1> HIDE DEF x, u
<1>5. \A k \in Key :
        kv'[k] = IF k = UuidToUid(u) THEN x ELSE IF k = UidIndex(x) THEN u
                 ELSE IF k = UidCounter THEN AsI64(kv[UidCounter]) + 1 ELSE kv[k]
  BY <1>1, <1>3, <1>4 DEF Applied
<1> QED BY <1>5, Zenon DEF x, u

(* What the invariant says of the table alone.                             *)
TableInv == RowTypes /\ Bijective /\ UidsIssued /\ UidLeadsBack

(* insert adds a pair of names that both had no partner.                   *)
LEMMA InsertTable ==
  ASSUME Inv, NEW t \in Transaction, InsertNow(t), kv' = Applied(t)
  PROVE  TableInv'
<1> DEFINE u == t.op.uuid
           s == t.op.sid
<1>1. /\ u \in Uuid /\ s \in Sid /\ DOMAIN kv = Key /\ DOMAIN kv' = Key
      /\ kv[Fwd(u)] = Absent /\ kv[Rev(s)] = Absent
  BY Zenon DEF Inv, Types, RowTypes, Transaction, Operation, InsertNow, Applied
<1>2. /\ \A v \in Uuid : /\ kv'[Fwd(v)] = IF v = u THEN s ELSE kv[Fwd(v)]
                         /\ kv'[UuidToUid(v)] = kv[UuidToUid(v)]
      /\ \A r \in Sid : kv'[Rev(r)] = IF r = s THEN u ELSE kv[Rev(r)]
      /\ \A x \in UidRange : kv'[UidIndex(x)] = kv[UidIndex(x)]
      /\ kv'[UidCounter] = kv[UidCounter]
  <2>1. \A k \in Key : kv'[k] = IF k = Fwd(u) THEN s ELSE IF k = Rev(s) THEN u ELSE kv[k]
    BY AppliedInsert, Zenon
  <2> HIDE DEF u, s
  <2> QED BY <2>1, KeyFacts, KeysApart, Zenon
<1> HIDE DEF u, s
<1>3. RowTypes /\ Bijective /\ UidsIssued /\ UidLeadsBack
  BY Zenon DEF Inv, Types
<1>4. RowTypes'
  BY <1>1, <1>2, <1>3, Zenon DEF RowTypes
<1>5. Bijective'
  BY <1>1, <1>2, <1>3, IdentityAssumption DEF Bijective
<1>6. UidsIssued' /\ UidLeadsBack'
  BY <1>2, <1>3 DEF UidsIssued, UidLeadsBack, RowTypes
<1> QED BY <1>4, <1>5, <1>6, Zenon DEF TableInv

(* remove takes a pair of names away, and the UID that leads to nobody     *)
(* else.                                                                   *)
LEMMA RemoveTable ==
  ASSUME Inv, NEW t \in Transaction, RemoveNow(t), kv' = Applied(t)
  PROVE  TableInv'
<1> DEFINE u == t.op.uuid
           s == kv[Fwd(u)]
           uid == kv[UuidToUid(u)]
<1>1. /\ u \in Uuid /\ s \in Sid /\ DOMAIN kv = Key /\ DOMAIN kv' = Key
      /\ uid \in UidRange \cup {Absent}
  BY Zenon DEF Inv, Types, RowTypes, Transaction, Operation, RemoveNow, Applied
<1>2. /\ \A v \in Uuid : /\ kv'[Fwd(v)] = IF v = u THEN Absent ELSE kv[Fwd(v)]
                         /\ kv'[UuidToUid(v)] = IF v = u THEN Absent ELSE kv[UuidToUid(v)]
      /\ \A r \in Sid : kv'[Rev(r)] = IF r = s THEN Absent ELSE kv[Rev(r)]
      /\ \A x \in UidRange : kv'[UidIndex(x)] = IF x = uid THEN Absent ELSE kv[UidIndex(x)]
      /\ kv'[UidCounter] = kv[UidCounter]
  <2>1. \A k \in Key : kv'[k] = IF k \in RowsOf(u) THEN Absent ELSE kv[k]
    BY AppliedRemove, Zenon
  <2>2. RowsOf(u) = {Fwd(u), Rev(s)} \cup
                      (IF uid = Absent THEN {} ELSE {UuidToUid(u), UidIndex(uid)})
    BY Zenon DEF RowsOf
  <2>3. \A x \in UidRange : x # Absent
    BY KvAssumption DEF UidRange
  <2>4. uid = kv[UuidToUid(u)]
    BY Zenon
  <2> HIDE DEF u, s, uid
  <2> QED BY <1>1, <2>1, <2>2, <2>3, <2>4, KeyFacts, KeysApart
<1>3. RowTypes /\ Bijective /\ UidsIssued /\ UidLeadsBack
  BY Zenon DEF Inv, Types
<1>4. RowTypes'
  BY <1>1, <1>2, <1>3, Zenon DEF RowTypes
<1>5. Bijective'
  BY <1>1, <1>2, <1>3, IdentityAssumption DEF Bijective
<1>6. UidsIssued'
  BY <1>2, <1>3, Zenon DEF UidsIssued
<1>7. UidLeadsBack'
  <2> SUFFICES ASSUME AsI64(kv[UidCounter]) < UidBase - 1, NEW v \in Uuid,
                      kv'[UuidToUid(v)] # Absent
               PROVE  kv'[UidIndex(kv'[UuidToUid(v)])] = v
    BY <1>2, Zenon DEF UidLeadsBack
  <2>1. v # u /\ kv'[UuidToUid(v)] = kv[UuidToUid(v)] /\ kv[UuidToUid(v)] \in UidRange
    BY <1>2, <1>3, Zenon DEF RowTypes
  <2>2. kv[UidIndex(kv[UuidToUid(v)])] = v /\ (uid # Absent => kv[UidIndex(uid)] = u)
    BY <1>1, <1>3, <2>1, Zenon DEF UidLeadsBack
  <2>3. kv[UuidToUid(v)] # uid
    BY <2>1, <2>2, Zenon
  <2> HIDE DEF uid
  <2> QED BY <1>2, <2>1, <2>2, <2>3, Zenon
<1> QED BY <1>4, <1>5, <1>6, <1>7, Zenon DEF TableInv

(* allocate_uid gives a number that nobody has, until they wrap around.    *)
LEMMA UidTable ==
  ASSUME Inv, NEW t \in Transaction, UidNow(t), kv' = Applied(t)
  PROVE  TableInv'
<1> DEFINE u == t.op.uuid
           x == NextUid
           old == kv[UidCounter]
           new == kv'[UidCounter]
<1>1. /\ u \in Uuid /\ DOMAIN kv = Key /\ DOMAIN kv' = Key
      /\ AsI64(old) < MaxUid /\ old \in 1 .. MaxUid \cup {Absent}
      /\ MaxUid \in Nat /\ UidBase \in Nat \ {0}
  BY IdentityAssumption, Zenon DEF Inv, Types, RowTypes, Transaction, Operation, UidNow, Applied
<1>2. x \in UidRange /\ x \in Nat
  BY NextUidFacts, Zenon DEF Inv, Types, UidNow
<1>3. x = IF old = Absent THEN UidBase ELSE old + 1
  BY Zenon DEF NextUid
<1>4. /\ \A v \in Uuid : /\ kv'[Fwd(v)] = kv[Fwd(v)]
                         /\ kv'[UuidToUid(v)] = IF v = u THEN x ELSE kv[UuidToUid(v)]
      /\ \A r \in Sid : kv'[Rev(r)] = kv[Rev(r)]
      /\ \A y \in UidRange : kv'[UidIndex(y)] = IF y = x THEN u ELSE kv[UidIndex(y)]
      /\ new = AsI64(old) + 1
  <2>1. \A k \in Key :
          kv'[k] = IF k = UuidToUid(u) THEN x ELSE IF k = UidIndex(x) THEN u
                   ELSE IF k = UidCounter THEN AsI64(kv[UidCounter]) + 1 ELSE kv[k]
    BY AppliedUid, Zenon
  <2> HIDE DEF u, x
  <2> QED BY <1>1, <1>2, <2>1, KeyFacts, KeysApart, Zenon
<1>5. RowTypes /\ Bijective /\ UidsIssued /\ UidLeadsBack
  BY Zenon DEF Inv, Types
<1> HIDE DEF x, u, old, new
<1>6. new \in 1 .. MaxUid /\ new # Absent /\ (old # Absent => new = old + 1 /\ old \in 1 .. MaxUid)
  BY <1>1, <1>4, KvAssumption DEF AsI64
<1>7. RowTypes'
  BY <1>1, <1>2, <1>4, <1>5, <1>6, Zenon DEF RowTypes, new
<1>8. Bijective'
  BY <1>4, <1>5 DEF Bijective
<1>9. UidsIssued'
  <2> SUFFICES ASSUME NEW v \in Uuid, kv'[UuidToUid(v)] # Absent
               PROVE  kv'[UuidToUid(v)] = UidBase \/ kv'[UuidToUid(v)] \in 2 .. new
    BY <1>6, Zenon DEF UidsIssued, new
  <2>1. CASE v = u
    BY <1>1, <1>3, <1>4, <1>6, <2>1
  <2>2. CASE v # u
    <3>1. old # Absent /\ (kv[UuidToUid(v)] = UidBase \/ kv[UuidToUid(v)] \in 2 .. old)
      BY <1>4, <1>5, <2>2, Zenon DEF UidsIssued, old
    <3> QED BY <1>4, <1>6, <2>2, <3>1
  <2> QED BY <2>1, <2>2, Zenon
<1>10. UidLeadsBack'
  <2> SUFFICES ASSUME new < UidBase - 1, NEW v \in Uuid, kv'[UuidToUid(v)] # Absent
               PROVE  kv'[UidIndex(kv'[UuidToUid(v)])] = v
    BY <1>6, Zenon DEF UidLeadsBack, AsI64, new
  <2>1. CASE v = u
    BY <1>2, <1>4, <2>1, Zenon
  <2>2. CASE v # u
    <3> DEFINE y == kv[UuidToUid(v)]
    <3>1. /\ kv'[UuidToUid(v)] = y /\ y # Absent
          /\ old # Absent /\ (y = UidBase \/ y \in 2 .. old)
      BY <1>4, <1>5, <2>2, Zenon DEF UidsIssued, old
    <3>2. y \in UidRange
      BY <1>5, <3>1, Zenon DEF RowTypes
    <3>3. AsI64(kv[UidCounter]) < UidBase - 1
      BY <1>1, <1>6, <3>1 DEF AsI64, old
    <3>4. kv[UidIndex(y)] = v
      BY <1>5, <3>1, <3>3, Zenon DEF UidLeadsBack
    <3> HIDE DEF y
    <3>5. y # x
      BY <1>1, <1>3, <1>6, <3>1
    <3> QED BY <1>4, <3>1, <3>2, <3>4, <3>5, Zenon
  <2> QED BY <2>1, <2>2, Zenon
<1> QED BY <1>7, <1>8, <1>9, <1>10, Zenon DEF TableInv

-----------------------------------------------------------------------------
(* A commit changes a forward row only by inserting an absent one or by    *)
(* removing one.                                                           *)
LEMMA ForwardAfter ==
  ASSUME DetectConflicts, Inv, NEW c \in Client, CanCommit(c), CommitApply(c)
  PROVE  LET op == txn[c].op
         IN  /\ op.uuid \in Uuid /\ op.kind \in {"insert", "remove", "uid"}
             /\ op.kind = "insert" => op.sid \in Sid /\ kv'[Fwd(op.uuid)] = op.sid
             /\ \A v \in Uuid :
                  \/ kv'[Fwd(v)] = kv[Fwd(v)]
                  \/ v = op.uuid /\ op.kind = "insert" /\ kv[Fwd(v)] = Absent
                  \/ v = op.uuid /\ op.kind = "remove"
<1> DEFINE t == txn[c]
           u == t.op.uuid
<1>1. /\ t \in Transaction /\ u \in Uuid /\ t.op.kind \in {"insert", "remove", "uid"}
      /\ StagedNow(t) /\ kv' = Applied(t)
  BY CommitFacts, Zenon DEF Transaction, Operation, CommitApply
<1>2. CASE t.op.kind = "insert"
  <2>1. InsertNow(t) /\ t.op.sid \in Sid /\ kv[Fwd(u)] = Absent
    BY <1>1, <1>2, Zenon DEF StagedNow, InsertNow
  <2>2. \A k \in Key : kv'[k] = IF k = Fwd(u) THEN t.op.sid
                                ELSE IF k = Rev(t.op.sid) THEN u ELSE kv[k]
    BY <1>1, <2>1, AppliedInsert, Zenon
  <2>3. \A v \in Uuid : kv'[Fwd(v)] = IF v = u THEN t.op.sid ELSE kv[Fwd(v)]
    BY <2>2, KeyFacts, KeysApart, Zenon
  <2> QED BY <1>1, <1>2, <2>1, <2>3, Zenon
<1>3. CASE t.op.kind = "remove"
  <2>1. \A k \in Key : kv'[k] = IF k \in RowsOf(u) THEN Absent ELSE kv[k]
    BY <1>1, <1>3, AppliedRemove, Zenon DEF StagedNow
  <2>2. \A v \in Uuid : v # u => kv'[Fwd(v)] = kv[Fwd(v)]
    BY <2>1, KeyFacts, KeysApart DEF RowsOf
  <2> QED BY <1>1, <1>3, <2>2, Zenon
<1>4. CASE t.op.kind = "uid"
  <2>1. UidNow(t)
    BY <1>1, <1>4, Zenon DEF StagedNow
  <2>2. \A v \in Uuid : kv'[Fwd(v)] = kv[Fwd(v)]
    BY <1>1, <2>1, AppliedUid, KeyFacts, KeysApart
  <2> QED BY <1>1, <1>4, <2>2, Zenon
<1> QED BY <1>1, <1>2, <1>3, <1>4, Zenon

(* A commit preserves the invariant when the caller goes on to cache what  *)
(* it inserted, if anything, and the removal of a mapping that others may  *)
(* be about to cache is recorded as missed or dropped by this caller.      *)
LEMMA CommitInv ==
  ASSUME DetectConflicts, Inv, NEW c \in Client, CanCommit(c), CommitApply(c),
         UNCHANGED <<cacheFwd, cacheRev>>, missed \subseteq missed',
         NEW step \in CacheStep, todo' = [todo EXCEPT ![c] = step],
         step.step = "put" => /\ txn[c].op.kind = "insert"
                              /\ step.uuid = txn[c].op.uuid /\ step.sid = txn[c].op.sid,
         txn[c].op.kind = "remove" =>
           \/ txn[c].op.uuid \in missed'
           \/ /\ ~InHand(txn[c].op.uuid)
              /\ step.step = "find" /\ step.uuid = txn[c].op.uuid
  PROVE  Inv'
<1> DEFINE op == txn[c].op
<1>1. todo[c] = Idle /\ \A d \in Client : todo'[d] = IF d = c THEN step ELSE todo[d]
  BY Zenon DEF CanCommit, Inv, Types
<1>2. TableInv'
  <2>1. txn[c] \in Transaction /\ StagedNow(txn[c]) /\ kv' = Applied(txn[c])
    BY CommitFacts, Zenon DEF CommitApply
  <2>2. op.kind \in {"insert", "remove", "uid"}
    BY <2>1, Zenon DEF Transaction, Operation
  <2> QED BY <2>1, <2>2, InsertTable, RemoveTable, UidTable, Zenon DEF StagedNow
<1>3. Types'
  <2>1. todo' \in [Client -> CacheStep]
    BY Zenon DEF Inv, Types
  <2>2. \A d \in Client : todo'[d] # Idle => txn'[d] = NoTxn
    BY <1>1, CommitFacts, Zenon DEF Inv, Types
  <2> QED BY <1>2, <2>1, <2>2, CommitFacts, Zenon DEF Inv, Types, TableInv
<1>4. TxnInv'
  BY CommitTxnInv, Zenon
<1>5. /\ op.uuid \in Uuid
      /\ op.kind = "insert" => op.sid \in Sid /\ kv'[Fwd(op.uuid)] = op.sid
      /\ \A v \in Uuid : \/ kv'[Fwd(v)] = kv[Fwd(v)]
                         \/ v = op.uuid /\ op.kind = "insert" /\ kv[Fwd(v)] = Absent
                         \/ v = op.uuid /\ op.kind = "remove"
  BY ForwardAfter, Zenon
<1> HIDE DEF op
<1>6. InHandInv'
  <2> SUFFICES ASSUME NEW d \in Client, todo'[d].step = "put"
               PROVE  todo'[d].sid = kv'[Fwd(todo'[d].uuid)] \/ todo'[d].uuid \in missed'
    BY Zenon DEF InHandInv
  <2>1. CASE d = c
    BY <1>1, <1>5, <2>1, Zenon DEF op
  <2>2. CASE d # c
    <3> DEFINE v == todo[d].uuid
               s == todo[d].sid
    <3>1. todo'[d] = todo[d] /\ todo[d].step = "put" /\ (s = kv[Fwd(v)] \/ v \in missed)
      BY <1>1, <2>2, Zenon DEF Inv, InHandInv
    <3>2. todo[d] \in CacheStep
      BY Zenon DEF Inv, Types
    <3>3. v \in Uuid /\ s \in Sid /\ s # Absent
      BY <3>1, <3>2, IdentityAssumption DEF CacheStep, Idle
    <3>4. v = op.uuid /\ op.kind = "remove" => v \in missed'
      BY <3>1, Zenon DEF InHand, op
    <3> QED BY <1>5, <3>1, <3>3, <3>4, Zenon
  <2> QED BY <2>1, <2>2, Zenon
<1>7. StaleOnlyWhenMissed'
  <2> SUFFICES ASSUME NEW v \in Uuid, cacheFwd[v] # Absent, cacheFwd[v] # kv'[Fwd(v)]
               PROVE  \/ v \in missed'
                      \/ \E d \in Client : todo'[d].step \in {"find", "drop"} /\ todo'[d].uuid = v
    BY Zenon DEF StaleOnlyWhenMissed
  <2>1. CASE v = op.uuid /\ op.kind = "remove"
    BY <1>1, <2>1 DEF op
  <2>2. CASE cacheFwd[v] # kv[Fwd(v)]
    <3>1. CASE v \in missed
      BY <3>1, Zenon
    <3>2. ASSUME NEW d \in Client, todo[d].step \in {"find", "drop"}, todo[d].uuid = v
          PROVE  todo'[d].step \in {"find", "drop"} /\ todo'[d].uuid = v
      BY <1>1, <3>2 DEF Idle
    <3> QED BY <2>2, <3>1, <3>2, Zenon DEF Inv, StaleOnlyWhenMissed
  <2> QED BY <1>5, <2>1, <2>2, Zenon
<1> QED BY <1>2, <1>3, <1>4, <1>6, <1>7, Zenon DEF Inv, TableInv

(* The two ways to commit.                                                 *)
LEMMA CommitStepInv ==
  ASSUME DetectConflicts, Inv, NEW c \in Client, Commit(c) \/ CommitUnknown(c)
  PROVE  Inv'
<1> DEFINE op == txn[c].op
<1>1. CanCommit(c) /\ CommitApply(c) /\ UNCHANGED <<cacheFwd, cacheRev>>
  BY Zenon DEF Commit, CommitUnknown, Apply
<1>2. todo[c] = Idle /\ todo \in [Client -> CacheStep] /\ Idle \in CacheStep
  BY <1>1, Zenon DEF CanCommit, Inv, Types, CacheStep
<1>3. /\ op.uuid \in Uuid /\ op.kind \in {"insert", "remove", "uid"}
      /\ op.kind = "insert" => op.sid \in Sid
  BY <1>1, ForwardAfter, Zenon
<1>4. CASE Commit(c)
  <2> DEFINE step == AfterCommit(c)
  <2>1. /\ todo' = [todo EXCEPT ![c] = step]
        /\ missed' = IF op.kind = "remove" /\ InHand(op.uuid)
                       THEN missed \cup {op.uuid} ELSE missed
    BY <1>4, Zenon DEF Commit, Apply
  <2>2. /\ op.kind = "insert" => step = [step |-> "put", uuid |-> op.uuid, sid |-> op.sid]
        /\ op.kind = "remove" => step = [step |-> "find", uuid |-> op.uuid]
        /\ op.kind = "uid" => step = Idle
    BY <1>3, Zenon DEF AfterCommit
  <2>3. step \in CacheStep
    BY <1>3, <2>2 DEF CacheStep
  <2> HIDE DEF step
  <2>4. step.step = "put" => op.kind = "insert" /\ step.uuid = op.uuid /\ step.sid = op.sid
    BY <1>3, <2>2 DEF Idle
  <2> QED BY <1>1, <2>1, <2>2, <2>3, <2>4, CommitInv, Zenon
<1>5. CASE CommitUnknown(c)
  <2>1. todo' = [todo EXCEPT ![c] = Idle]
    BY <1>2, <1>5, Zenon DEF CommitUnknown
  <2>2. missed' = IF op.kind = "remove" THEN missed \cup {op.uuid} ELSE missed
    BY <1>5, Zenon DEF CommitUnknown
  <2>3. Idle.step # "put"
    BY Zenon DEF Idle
  <2> QED BY <1>1, <1>2, <2>1, <2>2, <2>3, CommitInv, Zenon
<1> QED BY <1>4, <1>5, Zenon

-----------------------------------------------------------------------------
(* A step on the cache leaves the table and the transactions alone.        *)
LEMMA CacheInv ==
  ASSUME Inv, NEW c \in Client, UNCHANGED <<kv, txn, missed>>,
         cacheFwd' \in [Uuid -> Sid \cup {Absent}], cacheRev' \in [Sid -> Uuid \cup {Absent}],
         NEW step \in CacheStep, todo' = [todo EXCEPT ![c] = step],
         step # Idle => txn[c] = NoTxn,
         step.step = "put" => \/ step.sid = kv[Fwd(step.uuid)]
                              \/ step.uuid \in missed,
         StaleOnlyWhenMissed'
  PROVE  Inv'
<1>1. Types'
  <2>1. RowTypes'
    BY Zenon DEF Inv, Types, RowTypes
  <2> QED BY <2>1, Zenon DEF Inv, Types
<1>2. TxnInv'
  BY DEF Inv, TxnInv, StagedNow, InsertNow, RemoveNow, UidNow, RowsOf, NextUid
<1>3. Bijective' /\ UidsIssued' /\ UidLeadsBack'
  BY DEF Inv, Bijective, UidsIssued, UidLeadsBack
<1>4. InHandInv'
  <2> SUFFICES ASSUME NEW d \in Client, todo'[d].step = "put"
               PROVE  todo'[d].sid = kv[Fwd(todo'[d].uuid)] \/ todo'[d].uuid \in missed
    BY Zenon DEF InHandInv
  <2>1. todo'[d] = IF d = c THEN step ELSE todo[d]
    BY Zenon DEF Inv, Types
  <2> QED BY <2>1, Zenon DEF Inv, InHandInv
<1> QED BY <1>1, <1>2, <1>3, <1>4, Zenon DEF Inv

(* The steps of todo[c], from the types of the cache.                      *)
LEMMA CacheStepFacts ==
  ASSUME Inv, NEW c \in Client
  PROVE  /\ todo[c].step \in {"put", "putRev", "drop", "dropRev"} =>
              /\ todo[c].uuid \in Uuid /\ todo[c].sid \in Sid /\ txn[c] = NoTxn
              /\ \A s \in {"put", "putRev", "drop", "dropRev"} :
                   [todo EXCEPT ![c].step = s]
                     = [todo EXCEPT ![c] = [step |-> s, uuid |-> todo[c].uuid, sid |-> todo[c].sid]]
         /\ todo[c].step = "find" => todo[c].uuid \in Uuid /\ txn[c] = NoTxn
<1>1. todo[c] \in CacheStep /\ todo \in [Client -> CacheStep]
  BY Zenon DEF Inv, Types
<1>2. todo[c].step # "idle" => todo[c] # Idle /\ txn[c] = NoTxn
  BY DEF Inv, Types, Idle
<1>3. CASE todo[c] \in [step : {"put", "putRev", "drop", "dropRev"}, uuid : Uuid, sid : Sid]
  <2>1. ASSUME NEW s \in {"put", "putRev", "drop", "dropRev"}
        PROVE  [todo[c] EXCEPT !.step = s]
                 = [step |-> s, uuid |-> todo[c].uuid, sid |-> todo[c].sid]
    BY <1>3
  <2> QED BY <1>1, <1>2, <1>3, <2>1, Zenon
<1>4. CASE todo[c] \in [step : {"find"}, uuid : Uuid]
  BY <1>2, <1>4, Zenon
<1>5. CASE todo[c] = Idle
  BY <1>5 DEF Idle
<1> QED BY <1>1, <1>3, <1>4, <1>5, Zenon DEF CacheStep

(* lookup_sid and lookup_uuid have the mapping of the table in hand.       *)
LEMMA LookupInv ==
  ASSUME Inv, NEW c \in Client, NEW u \in Uuid, NEW s \in Sid,
         LookupSid(c, u) \/ LookupUuid(c, s)
  PROVE  Inv'
<1> DEFINE step(v, r) == [step |-> "put", uuid |-> v, sid |-> r]
<1>1. /\ Ready(c) /\ UNCHANGED <<kv, txn, cacheFwd, cacheRev, missed>>
      /\ \E v \in Uuid, r \in Sid : kv[Fwd(v)] = r /\ todo' = [todo EXCEPT ![c] = step(v, r)]
  <2>1. CASE LookupSid(c, u)
    BY <2>1, Zenon DEF LookupSid, Inv, Types, RowTypes
  <2>2. CASE LookupUuid(c, s)
    <3>1. kv[Rev(s)] \in Uuid /\ kv[Fwd(kv[Rev(s)])] = s
      BY <2>2 DEF LookupUuid, Inv, Types, RowTypes, Bijective
    <3> QED BY <2>2, <3>1, Zenon DEF LookupUuid
  <2> QED BY <2>1, <2>2, Zenon
<1>2. PICK v \in Uuid, r \in Sid : kv[Fwd(v)] = r /\ todo' = [todo EXCEPT ![c] = step(v, r)]
  BY <1>1, Zenon
<1>3. step(v, r) \in CacheStep
  BY Zenon DEF CacheStep
<1>4. StaleOnlyWhenMissed'
  <2> SUFFICES ASSUME NEW w \in Uuid, NEW d \in Client,
                      todo[d].step \in {"find", "drop"}, todo[d].uuid = w
               PROVE  todo'[d].step \in {"find", "drop"} /\ todo'[d].uuid = w
    BY <1>1, Zenon DEF Inv, StaleOnlyWhenMissed
  <2>1. d # c
    BY <1>1 DEF Ready, Idle
  <2> QED BY <1>2, <2>1, Zenon DEF Inv, Types
<1>5. cacheFwd' \in [Uuid -> Sid \cup {Absent}] /\ cacheRev' \in [Sid -> Uuid \cup {Absent}]
  BY <1>1, Zenon DEF Inv, Types
<1> QED BY <1>1, <1>2, <1>3, <1>4, <1>5, CacheInv, Zenon DEF Ready

(* cache_put and cache_remove.  A stale entry stays accounted for: the one *)
(* a put makes was missed, and a removal that ends has dropped its own.    *)
LEMMA CachePutForwardInv ==
  ASSUME Inv, NEW c \in Client, CachePutForward(c)
  PROVE  Inv'
<1> DEFINE u == todo[c].uuid
           s == todo[c].sid
           step == [step |-> "putRev", uuid |-> u, sid |-> s]
<1>1. PICK out \in Victims(u) :
        /\ cacheFwd' = [v \in Uuid |-> IF v = u THEN s
                                       ELSE IF v \in out THEN Absent ELSE cacheFwd[v]]
        /\ cacheRev' = [r \in Sid |-> IF \E v \in out : cacheFwd[v] = r
                                      THEN Absent ELSE cacheRev[r]]
  BY Zenon DEF CachePutForward
<1>2. todo[c].step = "put" /\ UNCHANGED <<kv, txn, missed>>
  BY Zenon DEF CachePutForward
<1>3. /\ u \in Uuid /\ s \in Sid /\ txn[c] = NoTxn
      /\ todo' = [todo EXCEPT ![c] = step]
  BY <1>2, CacheStepFacts, Zenon DEF CachePutForward
<1>4. step \in CacheStep /\ step.step # "put"
  BY <1>3, Zenon DEF CacheStep
<1>5. cacheFwd' \in [Uuid -> Sid \cup {Absent}] /\ cacheRev' \in [Sid -> Uuid \cup {Absent}]
  BY <1>1, <1>3, Zenon DEF Inv, Types
<1>6. StaleOnlyWhenMissed'
  <2> SUFFICES ASSUME NEW w \in Uuid, cacheFwd'[w] # Absent, cacheFwd'[w] # kv[Fwd(w)],
                      w \notin missed
               PROVE  \E d \in Client : todo'[d].step \in {"find", "drop"} /\ todo'[d].uuid = w
    BY <1>2, Zenon DEF StaleOnlyWhenMissed
  <2>1. s = kv[Fwd(u)] \/ u \in missed
    BY <1>2, Zenon DEF Inv, InHandInv
  <2>2. w # u /\ cacheFwd'[w] = cacheFwd[w]
    BY <1>1, <2>1, Zenon
  <2>3. PICK d \in Client : todo[d].step \in {"find", "drop"} /\ todo[d].uuid = w
    BY <2>2, Zenon DEF Inv, StaleOnlyWhenMissed
  <2>4. todo'[d] = todo[d]
    BY <1>2, <1>3, <2>3, Zenon DEF Inv, Types
  <2> QED BY <2>3, <2>4, Zenon
<1> HIDE DEF step
<1> QED BY <1>2, <1>3, <1>4, <1>5, <1>6, CacheInv, Zenon

(* The other half of cache_put, and the three steps of cache_remove.       *)
LEMMA CacheRestInv ==
  ASSUME Inv, NEW c \in Client,
         CachePutReverse(c) \/ CacheFind(c) \/ CacheDropForward(c) \/ CacheDropReverse(c)
  PROVE  Inv'
<1> DEFINE u == todo[c].uuid
           s == todo[c].sid
<1>1. /\ UNCHANGED <<kv, txn, missed>>
      /\ cacheFwd \in [Uuid -> Sid \cup {Absent}] /\ cacheRev \in [Sid -> Uuid \cup {Absent}]
      /\ todo \in [Client -> CacheStep] /\ Idle \in CacheStep /\ Idle.step = "idle"
  BY Zenon DEF CachePutReverse, CacheFind, CacheDropForward, CacheDropReverse, Inv, Types,
         CacheStep, Idle
<1>2. CASE CachePutReverse(c) \/ CacheDropReverse(c)
  <2>1. /\ todo[c].step \in {"putRev", "dropRev"} /\ UNCHANGED cacheFwd
        /\ todo' = [todo EXCEPT ![c] = Idle]
        /\ cacheRev' = [cacheRev EXCEPT ![s] = u] \/ cacheRev' = [cacheRev EXCEPT ![s] = Absent]
    BY <1>2, Zenon DEF CachePutReverse, CacheDropReverse
  <2>2. u \in Uuid /\ s \in Sid
    BY <2>1, CacheStepFacts, Zenon
  <2>3. cacheRev' \in [Sid -> Uuid \cup {Absent}]
    BY <1>1, <2>1, <2>2, Zenon
  <2>4. StaleOnlyWhenMissed'
    BY <1>1, <2>1, Zenon DEF Inv, StaleOnlyWhenMissed
  <2> QED BY <1>1, <2>1, <2>3, <2>4, CacheInv, Zenon
<1>3. CASE CacheFind(c)
  <2> DEFINE step == IF cacheFwd[u] = Absent THEN Idle
                     ELSE [step |-> "drop", uuid |-> u, sid |-> cacheFwd[u]]
  <2>1. /\ todo[c].step = "find" /\ UNCHANGED <<cacheFwd, cacheRev>>
        /\ todo' = [todo EXCEPT ![c] = step]
    BY <1>3, Zenon DEF CacheFind
  <2>2. u \in Uuid /\ txn[c] = NoTxn
    BY <2>1, CacheStepFacts, Zenon
  <2>3. step \in CacheStep /\ step.step # "put"
    BY <1>1, <2>2, Zenon DEF CacheStep
  <2>4. StaleOnlyWhenMissed'
    <3> SUFFICES ASSUME NEW w \in Uuid, cacheFwd[w] # Absent, cacheFwd[w] # kv[Fwd(w)],
                        w \notin missed
                 PROVE  \E d \in Client : todo'[d].step \in {"find", "drop"} /\ todo'[d].uuid = w
      BY <1>1, <2>1, Zenon DEF StaleOnlyWhenMissed
    <3>1. PICK d \in Client : todo[d].step \in {"find", "drop"} /\ todo[d].uuid = w
      BY Zenon DEF Inv, StaleOnlyWhenMissed
    <3> QED BY <1>1, <2>1, <3>1, Zenon
  <2> HIDE DEF step
  <2> QED BY <1>1, <2>1, <2>2, <2>3, <2>4, CacheInv, Zenon
<1>4. CASE CacheDropForward(c)
  <2> DEFINE step == [step |-> "dropRev", uuid |-> u, sid |-> s]
  <2>1. todo[c].step = "drop" /\ UNCHANGED cacheRev /\ cacheFwd' = [cacheFwd EXCEPT ![u] = Absent]
    BY <1>4, Zenon DEF CacheDropForward
  <2>2. u \in Uuid /\ s \in Sid /\ txn[c] = NoTxn /\ todo' = [todo EXCEPT ![c] = step]
    BY <1>4, <2>1, CacheStepFacts, Zenon DEF CacheDropForward
  <2>3. step \in CacheStep /\ step.step # "put"
    BY <2>2, Zenon DEF CacheStep
  <2>4. StaleOnlyWhenMissed'
    <3> SUFFICES ASSUME NEW w \in Uuid, cacheFwd'[w] # Absent, cacheFwd'[w] # kv[Fwd(w)],
                        w \notin missed
                 PROVE  \E d \in Client : todo'[d].step \in {"find", "drop"} /\ todo'[d].uuid = w
      BY <1>1, Zenon DEF StaleOnlyWhenMissed
    <3>1. w # u /\ cacheFwd'[w] = cacheFwd[w]
      BY <1>1, <2>1, Zenon
    <3>2. PICK d \in Client : todo[d].step \in {"find", "drop"} /\ todo[d].uuid = w
      BY <3>1, Zenon DEF Inv, StaleOnlyWhenMissed
    <3>3. todo'[d] = todo[d]
      BY <1>1, <2>2, <3>1, <3>2, Zenon
    <3> QED BY <3>2, <3>3, Zenon
  <2>5. cacheFwd' \in [Uuid -> Sid \cup {Absent}]
    BY <1>1, <2>1, <2>2, Zenon
  <2> HIDE DEF step
  <2> QED BY <1>1, <2>1, <2>2, <2>3, <2>4, <2>5, CacheInv, Zenon
<1> QED BY <1>2, <1>3, <1>4, Zenon

(* Every step preserves the invariant.                                     *)
LEMMA NextInv ==
  ASSUME DetectConflicts, Inv, [Next]_vars
  PROVE  Inv'
<1>1. ASSUME NEW c \in Client, NEW u \in Uuid, LookupSid(c, u) PROVE Inv'
  <2>1. kv[Fwd(u)] \in Sid
    BY <1>1, Zenon DEF LookupSid, Inv, Types, RowTypes
  <2> QED BY <1>1, <2>1, LookupInv, Zenon
<1>2. ASSUME NEW c \in Client, NEW s \in Sid, LookupUuid(c, s) PROVE Inv'
  <2>1. kv[Rev(s)] \in Uuid
    BY <1>2, Zenon DEF LookupUuid, Inv, Types, RowTypes
  <2> QED BY <1>2, <2>1, LookupInv, Zenon
<1>3. ASSUME NEW c \in Client, Fail(c) PROVE Inv'
  <2>1. UNCHANGED <<kv, cacheFwd, cacheRev, todo, missed>> /\ txn' = [txn EXCEPT ![c] = NoTxn]
    BY <1>3, Zenon DEF Fail, CloseTxn, cacheVars
  <2>2. Types' /\ Bijective' /\ InHandInv' /\ StaleOnlyWhenMissed' /\ UidsIssued' /\ UidLeadsBack'
    BY <2>1 DEF Inv, Types, RowTypes, Bijective, InHandInv, StaleOnlyWhenMissed, UidsIssued,
                UidLeadsBack
  <2>3. TxnInv'
    BY <2>1 DEF Inv, Types, TxnInv, StagedNow, InsertNow, RemoveNow, UidNow, RowsOf, NextUid
  <2> QED BY <2>2, <2>3, Zenon DEF Inv
<1>4. CASE Restart
  <2>1. /\ UNCHANGED kv /\ missed' = {}
        /\ txn' = [c \in Client |-> NoTxn] /\ todo' = [c \in Client |-> Idle]
        /\ cacheFwd' = [u \in Uuid |-> Absent] /\ cacheRev' = [s \in Sid |-> Absent]
    BY <1>4, Zenon DEF Restart
  <2>2. Types'
    BY <2>1, Zenon DEF Inv, Types, RowTypes, CacheStep
  <2>3. TxnInv' /\ InHandInv' /\ StaleOnlyWhenMissed'
    BY <2>1, Zenon DEF TxnInv, InHandInv, StaleOnlyWhenMissed, Idle
  <2>4. Bijective' /\ UidsIssued' /\ UidLeadsBack'
    BY <2>1, Zenon DEF Inv, Bijective, UidsIssued, UidLeadsBack
  <2> QED BY <2>2, <2>3, <2>4, Zenon DEF Inv
<1>5. CASE UNCHANGED vars
  <2>1. UNCHANGED <<kv, txn, cacheFwd, cacheRev, todo, missed>>
    BY <1>5, Zenon DEF vars, cacheVars
  <2>2. Types' /\ Bijective' /\ InHandInv' /\ StaleOnlyWhenMissed' /\ UidsIssued' /\ UidLeadsBack'
    BY <2>1 DEF Inv, Types, RowTypes, Bijective, InHandInv, StaleOnlyWhenMissed, UidsIssued,
                UidLeadsBack
  <2>3. TxnInv'
    BY <2>1 DEF Inv, Types, TxnInv, StagedNow, InsertNow, RemoveNow, UidNow, RowsOf, NextUid
  <2> QED BY <2>2, <2>3, Zenon DEF Inv
<1> QED BY <1>1, <1>2, <1>3, <1>4, <1>5, InsertInv, RemoveInv, AllocateUidInv, CommitStepInv,
           CachePutForwardInv, CacheRestInv, Zenon DEF Next

-----------------------------------------------------------------------------
(* On a store that detects conflicts, the invariant holds of every         *)
(* behaviour of the mapping and its cache.                                 *)
THEOREM Invariance ==
  ASSUME DetectConflicts
  PROVE  Spec => []Inv
<1>1. Init => Inv
  BY InitInv, Zenon
<1>2. Inv /\ [Next]_vars => Inv'
  BY NextInv, Zenon
<1> QED BY <1>1, <1>2, PTL DEF Spec

(* The rows and the cache keep their types.                                *)
THEOREM TypeCorrect ==
  ASSUME DetectConflicts
  PROVE  Spec => []TypeOK
<1>1. Inv => TypeOK
  <2> SUFFICES ASSUME Inv PROVE TypeOK
    BY Zenon
  <2>1. AsI64(kv[UidCounter]) \in 0 .. MaxUid
    BY IdentityAssumption DEF Inv, Types, RowTypes, AsI64
  <2> QED BY <2>1, Zenon DEF Inv, Types, RowTypes, TypeOK
<1> QED BY <1>1, Invariance, PTL

(* insert and remove keep the table a bijection between UUIDs and SIDs,    *)
(* whatever inserts and removes of the same names are in flight.           *)
THEOREM TableBijective ==
  ASSUME DetectConflicts
  PROVE  Spec => []Bijective
<1>1. Inv => Bijective
  BY Zenon DEF Inv
<1> QED BY <1>1, Invariance, PTL

(* The cache returns a mapping that the table no longer has only while     *)
(* remove is about to drop it, or when the removal was overtaken by a      *)
(* caller that cached it afterwards, or lost its answer.                   *)
THEOREM CacheStaleness ==
  ASSUME DetectConflicts
  PROVE  Spec => []StaleOnlyWhenMissed
<1>1. Inv => StaleOnlyWhenMissed
  BY Zenon DEF Inv
<1> QED BY <1>1, Invariance, PTL

(* allocate_uid gives no two principals the same UID, and the index leads  *)
(* from a UID back to its principal, until the counter reaches the first   *)
(* UID.                                                                    *)
THEOREM UidIndexLeadsBack ==
  ASSUME DetectConflicts
  PROVE  Spec => []UidLeadsBack
<1>1. Inv => UidLeadsBack
  BY Zenon DEF Inv
<1> QED BY <1>1, Invariance, PTL
=============================================================================
