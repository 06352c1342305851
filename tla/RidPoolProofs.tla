--------------------------- MODULE RidPoolProofs ---------------------------
(***************************************************************************)
(* Proofs about RidPool for a store that detects conflicts: whatever the   *)
(* number of callers and pools and the sizes of the batches, no RID is     *)
(* returned twice and none lies beyond the high-water mark.                *)
(***************************************************************************)
EXTENDS RidPool, TLAPS

(* The two rows of a pool are created and reclaimed together.              *)
RowsTogether ==
  \A p \in Pool : kv[CounterKey(p)] = Absent <=> kv[StateKey(p)] = Absent

(* What transaction t leaves in the state row of its pool, whose mark is   *)
(* now mark.                                                               *)
LastAfter(t, mark) ==
  IF t.puts[StateKey(t.op.pool)] = Keep THEN mark ELSE t.puts[StateKey(t.op.pool)]

(* Allocation t was computed from a counter of value old (an absent one if *)
(* unseeded) and a high-water mark mark, and covers what it dispenses.     *)
ComputedFrom(t, unseeded, old, mark) ==
  LET p == t.op.pool
  IN  /\ t.op.first = old + 1
      /\ t.op.last >= t.op.first
      /\ t.adds = [k \in Key |-> IF k = CounterKey(p) THEN t.op.last - old ELSE 0]
      /\ t.puts[CounterKey(p)] = IF unseeded THEN InitialRid - 1 ELSE Keep
      /\ unseeded => t.puts[StateKey(p)] # Keep
      /\ t.puts[StateKey(p)] # Absent
      /\ LastAfter(t, mark) \in Rid
      /\ t.op.last < U32 => t.op.last <= LastAfter(t, mark)

(* What a transaction stages outside its own pool is nothing; a reclaim    *)
(* deletes both rows and adds nothing; an allocation has read both.        *)
WellFormed(t) ==
  LET p == t.op.pool
  IN  /\ \A k \in Key : k[2] # p => t.puts[k] = Keep /\ t.adds[k] = 0
      /\ t.op.kind = "reclaim" =>
           /\ t.puts[CounterKey(p)] = Absent /\ t.puts[StateKey(p)] = Absent
           /\ t.adds[CounterKey(p)] = 0 /\ t.adds[StateKey(p)] = 0
      /\ t.op.kind = "allocate" =>
           /\ t.reads = {StateKey(p), CounterKey(p)}
           /\ t.adds[CounterKey(p)] > 0

(* Every open transaction is well formed, and an open allocation that may  *)
(* still commit was computed from what the store holds now.                *)
TxnInv ==
  \A c \in Client : txn[c] # NoTxn =>
    /\ WellFormed(txn[c])
    /\ txn[c].op.kind = "allocate" /\ ~txn[c].stale =>
         LET p == txn[c].op.pool
         IN  ComputedFrom(txn[c], kv[CounterKey(p)] = Absent, CounterOld(p), LastAllocated(p))

(* No RID above the counter has been returned, and the counter is not      *)
(* below its seed.                                                         *)
IssuedBelowCounter ==
  \A p \in Pool :
    /\ CounterOld(p) >= InitialRid - 1
    /\ InRange(p) => \A r \in Rid : r > CounterOld(p) => times[p][r] = 0

Inv ==
  /\ TypeOK
  /\ RowsTogether
  /\ TxnInv
  /\ IssuedBelowCounter
  /\ RidUnique
  /\ HighWater

-----------------------------------------------------------------------------
(* Arithmetic of the 32-bit conversions and of div_ceil.                   *)

(* A value below 2^32 survives "as u32", and every value becomes a u32.    *)
LEMMA AsU32Facts ==
  ASSUME NEW v \in Nat
  PROVE  AsU32(v) \in Rid /\ (v < U32 => AsU32(v) = v)
BY RidAssumption, SMT DEF AsU32, Rid

(* Rounding up to whole batches covers what was asked for.                 *)
LEMMA DivCeilCovers ==
  ASSUME NEW a \in Nat, NEW b \in Nat \ {0}
  PROVE  DivCeil(a, b) * b \in Nat /\ DivCeil(a, b) * b >= a
<1>1. ASSUME NEW x \in Nat PROVE (x \div b) * b \in Nat /\ (x \div b) * b > x - b
  BY <1>1, SMT
<1>2. a + b - 1 \in Nat
  OBVIOUS
<1> QED BY <1>1, <1>2 DEF DivCeil

(* saturating_add yields a u32, and covers every u32 its argument covers.  *)
LEMMA SaturateFacts ==
  ASSUME NEW v \in Nat
  PROVE  /\ Saturate(v) \in Rid
         /\ \A w \in Nat : w < U32 /\ w <= v => w <= Saturate(v)
BY RidAssumption DEF Saturate, Rid

(* The counter after a commit: seeded or not, the add that was computed    *)
(* from its value takes it to the last RID dispensed.                      *)
LEMMA CounterAfter ==
  ASSUME NEW v \in Nat \cup {Absent}, NEW old \in Nat, NEW put, NEW last \in Nat,
         old = IF v = Absent THEN InitialRid - 1 ELSE v,
         put = IF v = Absent THEN InitialRid - 1 ELSE Keep,
         last > old
  PROVE  /\ AsI64(IF put = Keep THEN v ELSE put) + (last - old) = last
         /\ last - old # 0
<1>1. AsI64(IF put = Keep THEN v ELSE put) = old
  <2>1. CASE v = Absent
    <3>1. put = old /\ put \in Int
      BY <2>1
    <3>2. put # Keep /\ put # Absent
      BY <3>1, KvAssumption, Zenon
    <3> QED BY <3>1, <3>2, Zenon DEF AsI64
  <2>2. CASE v # Absent
    BY <2>2, Zenon DEF AsI64
  <2> QED BY <2>1, <2>2, Zenon
<1> QED BY <1>1

(* A RID that is dispensed for the first time has been returned once, and  *)
(* none beyond the last.                                                   *)
LEMMA CountedOnce ==
  ASSUME NEW old \in Nat, NEW last \in Nat, last > old, NEW r \in Nat,
         NEW before \in Nat, before <= 1, r > old => before = 0,
         NEW after, \/ after = before
                    \/ r > old /\ r <= last /\ after = before + 1
  PROVE  after <= 1 /\ (r > last => after = 0)
OBVIOUS

(* Within 32 bits, the RIDs of a range are the numbers of the range.       *)
LEMMA DispensedAbove ==
  ASSUME NEW old \in Nat, NEW op, op.first = old + 1, op.last \in Nat, op.last < U32,
         NEW r \in Dispensed(op)
  PROVE  r > old /\ r <= op.last
<1>1. PICK w \in op.first .. op.last : r = AsU32(w)
  BY Zenon DEF Dispensed
<1>2. w \in Nat /\ w < U32 /\ w > old /\ w <= op.last
  BY <1>1, RidAssumption
<1> QED BY <1>1, <1>2, AsU32Facts, Zenon

(* The mark that allocate stores covers the RID it dispenses, if the mark  *)
(* covered the counter before.                                             *)
LEMMA ExtendOnceCovers ==
  ASSUME NEW p \in Pool, LastAllocated(p) \in Rid, NEW old \in Nat,
         old < U32 => old <= LastAllocated(p)
  PROVE  /\ ExtendOnce(p, old + 1) \in Rid
         /\ old + 1 < U32 => old + 1 <= ExtendOnce(p, old + 1)
         /\ ~(AsU32(old + 1) > LastAllocated(p)) => ExtendOnce(p, old + 1) = LastAllocated(p)
<1> DEFINE last == LastAllocated(p)
<1>1. last \in Nat /\ last + BatchSize \in Nat /\ old + 1 \in Nat
  BY RidAssumption DEF Rid
<1>2. AsU32(old + 1) \in Rid /\ (old + 1 < U32 => AsU32(old + 1) = old + 1)
  BY <1>1, AsU32Facts, Zenon
<1>3. /\ Saturate(last + BatchSize) \in Rid
      /\ \A w \in Nat : w < U32 /\ w <= last + BatchSize => w <= Saturate(last + BatchSize)
  BY <1>1, SaturateFacts, Zenon
<1>4. old + 1 < U32 => old + 1 <= last + BatchSize
  BY <1>1, RidAssumption
<1> HIDE DEF last
<1> QED BY <1>1, <1>2, <1>3, <1>4 DEF ExtendOnce, Rid, last

(* The mark that allocate_batch stores covers the RIDs it dispenses.       *)
LEMMA ExtendToCoverCovers ==
  ASSUME NEW p \in Pool, LastAllocated(p) \in Rid, NEW v \in Nat
  PROVE  /\ ExtendToCover(p, v) \in Rid
         /\ v < U32 => v <= ExtendToCover(p, v)
         /\ ~(AsU32(v) > LastAllocated(p)) => ExtendToCover(p, v) = LastAllocated(p)
<1> DEFINE last == LastAllocated(p)
           needed == AsU32(v) - last
           whole == DivCeil(needed, BatchSize) * BatchSize
           extra == Saturate(whole)
<1>1. AsU32(v) \in Rid /\ (v < U32 => AsU32(v) = v)
  BY AsU32Facts, Zenon
<1>2. CASE AsU32(v) > last
  <2>1. needed \in Nat /\ needed < U32 /\ last \in Nat
    BY <1>1, <1>2, RidAssumption DEF Rid
  <2>2. whole \in Nat /\ whole >= needed
    BY <2>1, DivCeilCovers, RidAssumption, Zenon
  <2>3. extra \in Rid /\ \A w \in Nat : w < U32 /\ w <= whole => w <= extra
    BY <2>2, SaturateFacts, Zenon
  <2>4. extra \in Nat /\ needed <= extra
    BY <2>1, <2>2, <2>3, RidAssumption DEF Rid
  <2>5. last + extra \in Nat /\ AsU32(v) <= last + extra
    BY <2>1, <2>4, <1>1 DEF Rid
  <2>6. /\ Saturate(last + extra) \in Rid
        /\ \A w \in Nat : w < U32 /\ w <= last + extra => w <= Saturate(last + extra)
    BY <2>5, SaturateFacts, Zenon
  <2>7. ExtendToCover(p, v) = Saturate(last + extra)
    BY <1>2, Zenon DEF ExtendToCover
  <2> HIDE DEF extra, last
  <2> QED BY <1>1, <1>2, <2>5, <2>6, <2>7, Zenon DEF last
<1>3. CASE ~(AsU32(v) > last)
  BY <1>1, <1>3 DEF ExtendToCover, Rid
<1> QED BY <1>2, <1>3, Zenon

-----------------------------------------------------------------------------
(* The inductive invariant, action by action.                              *)

(* The keys of pools are distinct keys of the store.                       *)
LEMMA KeyFacts ==
  ASSUME NEW p \in Pool
  PROVE  /\ StateKey(p) \in Key /\ CounterKey(p) \in Key
         /\ StateKey(p) # CounterKey(p)
         /\ StateKey(p)[2] = p /\ CounterKey(p)[2] = p
         /\ \A k \in Key : k[2] = p => k = StateKey(p) \/ k = CounterKey(p)
BY DEF StateKey, CounterKey, Key

(* The empty store satisfies the invariant.                                *)
LEMMA InitInv == Init => Inv
<1> SUFFICES ASSUME Init PROVE Inv
  BY Zenon
<1> USE DEF Init
<1>1. ASSUME NEW p \in Pool
      PROVE  /\ kv[StateKey(p)] = Absent /\ kv[CounterKey(p)] = Absent
             /\ LastAllocated(p) = InitialLast /\ CounterOld(p) = InitialRid - 1
  BY KeyFacts, Zenon DEF LastAllocated, CounterOld
<1>2. InitialLast \in Rid
  BY RidAssumption DEF InitialLast, Rid
<1>3. TypeOK
  BY <1>1, <1>2, Zenon DEF TypeOK
<1>4. RowsTogether /\ HighWater
  BY <1>1, Zenon DEF RowsTogether, HighWater
<1>5. TxnInv
  BY Zenon DEF TxnInv
<1>6. IssuedBelowCounter
  BY <1>1, RidAssumption DEF IssuedBelowCounter
<1>7. RidUnique
  BY DEF RidUnique
<1> QED BY <1>3, <1>4, <1>5, <1>6, <1>7, Zenon DEF Inv

(* Opening a transaction whose record satisfies the invariant preserves it. *)
LEMMA BeginInv ==
  ASSUME Inv, NEW c \in Client, NEW t \in Transaction,
         txn' = [txn EXCEPT ![c] = t], UNCHANGED <<kv, times, reclaimed>>,
         WellFormed(t),
         t.op.kind = "allocate" =>
           ComputedFrom(t, kv[CounterKey(t.op.pool)] = Absent,
                        CounterOld(t.op.pool), LastAllocated(t.op.pool))
  PROVE  Inv'
<1>1. TypeOK'
  BY Zenon DEF Inv, TypeOK, LastAllocated
<1>2. RowsTogether' /\ IssuedBelowCounter' /\ RidUnique' /\ HighWater'
  BY Zenon DEF Inv, RowsTogether, IssuedBelowCounter, RidUnique, HighWater,
         CounterOld, LastAllocated, InRange
<1>3. TxnInv'
  <2> SUFFICES ASSUME NEW d \in Client, (txn[d] # NoTxn)'
               PROVE  /\ WellFormed(txn[d])'
                      /\ (txn[d].op.kind = "allocate" /\ ~txn[d].stale)' =>
                           ComputedFrom(txn[d], kv[CounterKey(txn[d].op.pool)] = Absent,
                             CounterOld(txn[d].op.pool), LastAllocated(txn[d].op.pool))'
    BY Zenon DEF TxnInv
  <2>1. txn'[d] = IF d = c THEN t ELSE txn[d]
    BY Zenon DEF Inv, TypeOK
  <2>2. CASE d = c
    BY <2>1, <2>2, Zenon DEF CounterOld, LastAllocated
  <2>3. CASE d # c
    BY <2>1, <2>3, Zenon DEF Inv, TxnInv, CounterOld, LastAllocated
  <2> QED BY <2>2, <2>3, Zenon
<1> QED BY <1>1, <1>2, <1>3, Zenon DEF Inv

(* An allocation's first step, for the mark that either caller computes.   *)
LEMMA DispenseInv ==
  ASSUME Inv, NEW c \in Client, NEW p \in Pool, NEW n \in Nat \ {0}, NEW high \in Rid,
         CounterOld(p) + n < U32 => CounterOld(p) + n <= high,
         ~(AsU32(CounterOld(p) + n) > LastAllocated(p)) => high = LastAllocated(p),
         Dispense(c, p, n, high)
  PROVE  Inv'
<1> DEFINE last == CounterOld(p) + n
           t == [op |-> [kind |-> "allocate", pool |-> p,
                         first |-> CounterOld(p) + 1, last |-> last],
                 reads |-> {StateKey(p), CounterKey(p)},
                 puts |-> StagedPuts(p, last, high),
                 adds |-> [NoAdds EXCEPT ![CounterKey(p)] = n],
                 stale |-> FALSE]
<1>1. txn' = [txn EXCEPT ![c] = t] /\ UNCHANGED <<kv, times, reclaimed>>
  BY Zenon DEF Dispense, Begin
<1>2. /\ CounterOld(p) \in Nat /\ last \in Nat /\ DOMAIN kv = Key
      /\ high \in Nat /\ InitialRid - 1 \in Nat
  <2>1. kv[CounterKey(p)] \in Nat \cup {Absent} /\ InitialRid - 1 \in Nat
    BY KeyFacts, RidAssumption DEF Inv, TypeOK
  <2> QED BY <2>1, RidAssumption DEF CounterOld, Rid, Inv, TypeOK
<1>3. t.adds = [k \in Key |-> IF k = CounterKey(p) THEN n ELSE 0]
  BY <1>2, Zenon DEF NoAdds
<1>4. t \in Transaction
  <2>1. t.puts \in [Key -> Nat \cup {Absent, Keep}]
    BY <1>2, Zenon DEF StagedPuts
  <2>2. t.adds \in [Key -> Nat]
    <3>1. [k \in Key |-> IF k = CounterKey(p) THEN n ELSE 0] \in [Key -> Nat]
      BY Zenon
    <3> QED BY <1>3, <3>1, Zenon
  <2>3. t.op \in Operation /\ t.reads \in SUBSET Key
    BY <1>2, KeyFacts DEF Operation
  <2> QED BY <2>1, <2>2, <2>3, Zenon DEF Transaction
<1>5. WellFormed(t)
  <2>1. \A k \in Key : k[2] # p => t.puts[k] = Keep /\ t.adds[k] = 0
    BY <1>3, KeyFacts, Zenon DEF StagedPuts
  <2>2. t.adds[CounterKey(p)] > 0
    BY <1>3, KeyFacts
  <2> QED BY <2>1, <2>2, Zenon DEF WellFormed
<1>6. ComputedFrom(t, kv[CounterKey(p)] = Absent, CounterOld(p), LastAllocated(p))
  <2>1. t.puts[CounterKey(p)] = IF kv[CounterKey(p)] = Absent THEN InitialRid - 1 ELSE Keep
    BY KeyFacts, Zenon DEF StagedPuts
  <2>2. t.puts[StateKey(p)] = IF \/ kv[CounterKey(p)] = Absent
                                 \/ AsU32(last) > LastAllocated(p)
                              THEN high ELSE Keep
    BY KeyFacts, Zenon DEF StagedPuts
  <2>3. high # Keep /\ high # Absent
    BY <1>2, KvAssumption
  <2>4. LastAfter(t, LastAllocated(p)) = high
    BY <2>2, <2>3, Zenon DEF LastAfter
  <2>5. t.adds = [k \in Key |-> IF k = CounterKey(p)
                                  THEN t.op.last - CounterOld(p) ELSE 0]
    BY <1>2, <1>3
  <2>6. t.op.first = CounterOld(p) + 1 /\ t.op.last >= t.op.first
    BY <1>2
  <2>7. Keep # Absent /\ (kv[CounterKey(p)] = Absent => t.puts[StateKey(p)] # Keep)
    BY <2>2, <2>3, KvAssumption, Zenon
  <2>8. t.puts[StateKey(p)] # Absent
    BY <2>2, <2>3, <2>7, Zenon
  <2> QED BY <2>1, <2>4, <2>5, <2>6, <2>7, <2>8, Zenon DEF ComputedFrom
<1>7. t.op.pool = p
  BY Zenon
<1> HIDE DEF t
<1> QED BY <1>1, <1>4, <1>5, <1>6, <1>7, BeginInv, Zenon

(* The first step of reclaim_domain, when no pool's SID ends in 0xFF.      *)
LEMMA ReclaimInv ==
  ASSUME EndsInFF = {}, Inv, NEW c \in Client, NEW p \in Pool, Reclaim(c, p)
  PROVE  Inv'
<1> DEFINE found == {k \in ScanPrefix(p) : kv[k] # Absent}
           t == [op |-> [kind |-> "reclaim", pool |-> p, first |-> 0, last |-> 0],
                 reads |-> {},
                 puts |-> [k \in Key |-> IF k \in found THEN Absent ELSE Keep],
                 adds |-> NoAdds, stale |-> FALSE]
<1>1. /\ txn' = [txn EXCEPT ![c] = t] /\ UNCHANGED <<kv, times, reclaimed>>
      /\ found # {}
  BY Zenon DEF Reclaim, Begin
<1>2. ScanPrefix(p) = {StateKey(p), CounterKey(p)} /\ DOMAIN kv = Key
  BY Zenon DEF ScanPrefix, Inv, TypeOK
<1>3. found = {StateKey(p), CounterKey(p)}
  BY <1>1, <1>2, Zenon DEF Inv, RowsTogether
<1>4. t.adds = [k \in Key |-> 0]
  BY <1>2, Zenon DEF NoAdds
<1>5. t \in Transaction
  BY <1>4 DEF Transaction, Operation
<1>6. WellFormed(t)
  <2>1. StateKey(p) \in Key /\ CounterKey(p) \in Key
    BY KeyFacts, Zenon
  <2>2. t.puts[CounterKey(p)] = Absent /\ t.puts[StateKey(p)] = Absent
    BY <1>3, <2>1, Zenon
  <2>3. \A k \in Key : t.adds[k] = 0
    BY <1>4, Zenon
  <2>4. \A k \in Key : k[2] # p => t.puts[k] = Keep
    BY <1>3, KeyFacts, Zenon
  <2>5. t.op.pool = p /\ t.op.kind = "reclaim"
    BY Zenon
  <2> HIDE DEF t
  <2> QED BY <2>1, <2>2, <2>3, <2>4, <2>5, Zenon DEF WellFormed
<1> HIDE DEF t
<1>7. t.op.kind # "allocate"
  BY Zenon DEF t
<1> QED BY <1>1, <1>5, <1>6, <1>7, BeginInv, Zenon

-----------------------------------------------------------------------------
(* What a commit writes: nothing outside the transaction's pool.           *)
LEMMA AppliedElsewhere ==
  ASSUME Inv, NEW c \in Client, txn[c] # NoTxn, CommitApply(c),
         NEW q \in Pool, q # txn[c].op.pool
  PROVE  /\ kv'[StateKey(q)] = kv[StateKey(q)]
         /\ kv'[CounterKey(q)] = kv[CounterKey(q)]
<1>1. WellFormed(txn[c]) /\ DOMAIN kv = Key
  BY Zenon DEF Inv, TxnInv, TypeOK
<1>2. \A k \in Key : k[2] # txn[c].op.pool => txn[c].puts[k] = Keep /\ txn[c].adds[k] = 0
  BY <1>1, Zenon DEF WellFormed
<1>3. \A k \in Key : k[2] # txn[c].op.pool => kv'[k] = kv[k]
  BY <1>1, <1>2, Zenon DEF CommitApply, Applied
<1> QED BY <1>3, KeyFacts, Zenon

(* An allocation moves its pool's counter to the last RID it dispenses and *)
(* its mark to one that covers it.                                         *)
LEMMA AppliedAllocation ==
  ASSUME DetectConflicts, Inv, NEW c \in Client, CanCommit(c), CommitApply(c),
         txn[c].op.kind = "allocate"
  PROVE  LET t == txn[c]
             p == t.op.pool
         IN  /\ p \in Pool
             /\ t.op.first = CounterOld(p) + 1
             /\ t.op.last \in Nat /\ t.op.last >= t.op.first
             /\ kv'[CounterKey(p)] = t.op.last
             /\ kv'[StateKey(p)] \in Rid
             /\ t.op.last < U32 => t.op.last <= kv'[StateKey(p)]
<1> DEFINE t == txn[c]
           p == t.op.pool
<1>1. t \in Transaction /\ ~t.stale
  BY Zenon DEF CanCommit, Inv, TypeOK
<1>2. p \in Pool /\ t.op.last \in Nat /\ DOMAIN kv = Key
  BY <1>1, Zenon DEF Transaction, Operation, Inv, TypeOK
<1>3. ComputedFrom(t, kv[CounterKey(p)] = Absent, CounterOld(p), LastAllocated(p))
  BY <1>1, Zenon DEF Inv, TxnInv, CanCommit
<1>4. /\ t.op.first = CounterOld(p) + 1
      /\ t.op.last >= t.op.first
      /\ t.adds = [k \in Key |-> IF k = CounterKey(p) THEN t.op.last - CounterOld(p) ELSE 0]
      /\ t.puts[CounterKey(p)] = IF kv[CounterKey(p)] = Absent THEN InitialRid - 1 ELSE Keep
      /\ kv[CounterKey(p)] = Absent => t.puts[StateKey(p)] # Keep
      /\ t.puts[StateKey(p)] # Absent
      /\ LastAfter(t, LastAllocated(p)) \in Rid
      /\ t.op.last < U32 => t.op.last <= LastAfter(t, LastAllocated(p))
  BY <1>3, Zenon DEF ComputedFrom
<1>5. StateKey(p) \in Key /\ CounterKey(p) \in Key /\ StateKey(p) # CounterKey(p)
  BY <1>2, KeyFacts, Zenon
<1>6. CounterOld(p) \in Nat /\ kv[CounterKey(p)] \in Nat \cup {Absent}
  BY <1>5, RidAssumption DEF Inv, TypeOK, CounterOld
<1>7. kv'[CounterKey(p)] = t.op.last
  <2> DEFINE v == kv[CounterKey(p)]
             old == CounterOld(p)
             put == t.puts[CounterKey(p)]
             last == t.op.last
  <2>1. t.adds[CounterKey(p)] = last - old
    BY <1>4, <1>5, Zenon
  <2>2. kv'[CounterKey(p)] =
          IF t.adds[CounterKey(p)] = 0 THEN (IF put = Keep THEN v ELSE put)
          ELSE AsI64(IF put = Keep THEN v ELSE put) + t.adds[CounterKey(p)]
    BY <1>2, <1>5, Zenon DEF CommitApply, Applied
  <2>3. old = IF v = Absent THEN InitialRid - 1 ELSE v
    BY Zenon DEF CounterOld
  <2>4. put = IF v = Absent THEN InitialRid - 1 ELSE Keep
    BY <1>4, Zenon
  <2>5. v \in Nat \cup {Absent} /\ old \in Nat /\ last \in Nat
    BY <1>2, <1>6, Zenon
  <2>6. last > old
    <3>1. last >= old + 1
      BY <1>4, Zenon
    <3> HIDE DEF last, old
    <3> QED BY <2>5, <3>1
  <2> HIDE DEF v, old, put, last
  <2>7. AsI64(IF put = Keep THEN v ELSE put) + (last - old) = last /\ last - old # 0
    BY <2>3, <2>4, <2>5, <2>6, CounterAfter
  <2> QED BY <2>1, <2>2, <2>7, Zenon DEF last
<1>8. kv'[StateKey(p)] = LastAfter(t, LastAllocated(p))
  <2>1. t.adds[StateKey(p)] = 0
    BY <1>4, <1>5, Zenon
  <2>2. kv'[StateKey(p)] = IF t.puts[StateKey(p)] = Keep THEN kv[StateKey(p)]
                           ELSE t.puts[StateKey(p)]
    BY <1>2, <1>5, <2>1, Zenon DEF CommitApply, Applied
  <2>3. t.puts[StateKey(p)] = Keep => kv[StateKey(p)] = LastAllocated(p)
    BY <1>2, <1>4, Zenon DEF Inv, RowsTogether, LastAllocated
  <2> QED BY <2>2, <2>3, Zenon DEF LastAfter
<1> QED BY <1>2, <1>4, <1>7, <1>8, Zenon

(* A reclaim removes both rows of its pool.                                *)
LEMMA AppliedReclaim ==
  ASSUME Inv, NEW c \in Client, CanCommit(c), CommitApply(c),
         txn[c].op.kind = "reclaim"
  PROVE  LET p == txn[c].op.pool
         IN  p \in Pool /\ kv'[CounterKey(p)] = Absent /\ kv'[StateKey(p)] = Absent
<1> DEFINE t == txn[c]
           p == t.op.pool
<1>1. t \in Transaction /\ WellFormed(t) /\ DOMAIN kv = Key
  BY Zenon DEF CanCommit, Inv, TypeOK, TxnInv
<1>2. p \in Pool
  BY <1>1, Zenon DEF Transaction, Operation
<1>3. /\ t.puts[CounterKey(p)] = Absent /\ t.puts[StateKey(p)] = Absent
      /\ t.adds[CounterKey(p)] = 0 /\ t.adds[StateKey(p)] = 0
  BY <1>1, Zenon DEF WellFormed
<1>4. StateKey(p) \in Key /\ CounterKey(p) \in Key
  BY <1>2, KeyFacts, Zenon
<1> QED BY <1>1, <1>2, <1>3, <1>4, KvAssumption, Zenon DEF CommitApply, Applied

-----------------------------------------------------------------------------
(* Commits preserve the types.                                             *)
LEMMA CommitTypes ==
  ASSUME DetectConflicts, Inv, NEW c \in Client, CanCommit(c), CommitApply(c)
  PROVE  /\ kv' \in [Key -> Nat \cup {Absent}]
         /\ txn' \in [Client -> Transaction \cup {NoTxn}]
         /\ \A p \in Pool : LastAllocated(p)' \in Rid
<1> DEFINE t == txn[c]
<1>1. t \in Transaction /\ DOMAIN kv = Key /\ kv \in [Key -> Nat \cup {Absent}]
  BY Zenon DEF CanCommit, Inv, TypeOK
<1>2. kv' \in [Key -> Nat \cup {Absent}]
  <2> SUFFICES ASSUME NEW k \in Key PROVE Applied(t)[k] \in Nat \cup {Absent}
    BY <1>1, Zenon DEF CommitApply, Applied
  <2>1. t.puts[k] \in Nat \cup {Absent, Keep} /\ t.adds[k] \in Nat
    BY <1>1, Zenon DEF Transaction
  <2> DEFINE base == IF t.puts[k] = Keep THEN kv[k] ELSE t.puts[k]
  <2>2. base \in Nat \cup {Absent}
    BY <1>1, <2>1, Zenon
  <2>3. AsI64(base) \in Nat
    BY <2>2, Zenon DEF AsI64
  <2>4. Applied(t)[k] = IF t.adds[k] = 0 THEN base ELSE AsI64(base) + t.adds[k]
    BY <1>1, Zenon DEF Applied
  <2> HIDE DEF base
  <2> QED BY <2>1, <2>2, <2>3, <2>4
<1>3. txn' \in [Client -> Transaction \cup {NoTxn}]
  <2> SUFFICES ASSUME NEW d \in Client
               PROVE  MarkStale(txn[d], WriteSet(t)) \in Transaction \cup {NoTxn}
    BY Zenon DEF CommitApply
  <2>1. txn[d] \in Transaction \cup {NoTxn}
    BY Zenon DEF Inv, TypeOK
  <2>2. CASE txn[d] # NoTxn
    <3>1. txn[d] \in Transaction
      BY <2>1, <2>2, Zenon
    <3>2. [txn[d] EXCEPT !.stale = txn[d].stale \/ txn[d].reads \cap WriteSet(t) # {}]
            \in Transaction
      BY <3>1, Zenon DEF Transaction
    <3> QED BY <2>2, <3>2, Zenon DEF MarkStale
  <2> QED BY <2>1, <2>2, Zenon DEF MarkStale
<1>4. ASSUME NEW p \in Pool PROVE LastAllocated(p)' \in Rid
  <2>1. InitialLast \in Rid
    BY RidAssumption DEF InitialLast, Rid
  <2>2. CASE p # t.op.pool
    BY <2>2, AppliedElsewhere, Zenon DEF LastAllocated, Inv, TypeOK, CanCommit
  <2>3. CASE p = t.op.pool /\ t.op.kind = "allocate"
    BY <2>1, <2>3, AppliedAllocation, Zenon DEF LastAllocated
  <2>4. CASE p = t.op.pool /\ t.op.kind = "reclaim"
    BY <2>1, <2>4, AppliedReclaim, Zenon DEF LastAllocated
  <2>5. t.op.kind \in {"allocate", "reclaim"}
    BY <1>1, Zenon DEF Transaction, Operation
  <2> QED BY <2>2, <2>3, <2>4, <2>5, Zenon
<1> QED BY <1>2, <1>3, <1>4, Zenon

(* Commits keep the other open transactions right: those of the same pool  *)
(* that have read become stale, and the rest do not see the difference.    *)
LEMMA CommitTxnInv ==
  ASSUME DetectConflicts, Inv, NEW c \in Client, CanCommit(c), CommitApply(c)
  PROVE  TxnInv'
<1> DEFINE t == txn[c]
           p == t.op.pool
<1> SUFFICES ASSUME NEW d \in Client, (txn[d] # NoTxn)'
             PROVE  /\ WellFormed(txn[d])'
                    /\ (txn[d].op.kind = "allocate" /\ ~txn[d].stale)' =>
                         ComputedFrom(txn[d], kv[CounterKey(txn[d].op.pool)] = Absent,
                           CounterOld(txn[d].op.pool), LastAllocated(txn[d].op.pool))'
  BY Zenon DEF TxnInv
<1> DEFINE u == txn[d]
           q == u.op.pool
           v == [u EXCEPT !.stale = u.stale \/ u.reads \cap WriteSet(t) # {}]
<1>1. d # c /\ u # NoTxn /\ txn'[d] = v
  BY Zenon DEF CommitApply, MarkStale
<1>2. u \in Transaction /\ t \in Transaction /\ DOMAIN kv = Key
  BY <1>1, Zenon DEF Inv, TypeOK, CanCommit
<1>3. /\ v.op = u.op /\ v.reads = u.reads /\ v.puts = u.puts /\ v.adds = u.adds
      /\ v.stale = (u.stale \/ u.reads \cap WriteSet(t) # {})
  BY <1>2, Zenon DEF Transaction
<1> HIDE DEF v
<1>4. WellFormed(u) /\ WellFormed(t)
  BY <1>1, Zenon DEF Inv, TxnInv, CanCommit
<1>5. WellFormed(v)
  BY <1>3, <1>4, Zenon DEF WellFormed
<1>6. p \in Pool /\ q \in Pool /\ t.op.kind \in {"allocate", "reclaim"}
  BY <1>2, Zenon DEF Transaction, Operation
<1>7. CounterKey(p) \in WriteSet(t)
  <2>1. CounterKey(p) \in DOMAIN kv
    BY <1>2, <1>6, KeyFacts, Zenon
  <2>2. t.puts[CounterKey(p)] # Keep \/ t.adds[CounterKey(p)] # 0
    <3>1. CASE t.op.kind = "allocate"
      <4>1. t.adds[CounterKey(p)] > 0
        BY <1>4, <3>1, Zenon DEF WellFormed
      <4> QED BY <4>1
    <3>2. CASE t.op.kind = "reclaim"
      BY <1>4, <3>2, KvAssumption, Zenon DEF WellFormed
    <3> QED BY <1>6, <3>1, <3>2, Zenon
  <2> QED BY <2>1, <2>2, Zenon DEF WriteSet
<1>8. ASSUME v.op.kind = "allocate", ~v.stale
      PROVE  /\ ComputedFrom(u, kv[CounterKey(q)] = Absent, CounterOld(q), LastAllocated(q))
             /\ q # p
  <2>1. u.op.kind = "allocate" /\ ~u.stale /\ u.reads \cap WriteSet(t) = {}
    BY <1>3, <1>8, Zenon
  <2>2. u.reads = {StateKey(q), CounterKey(q)}
    BY <1>4, <2>1, Zenon DEF WellFormed
  <2>3. q # p
    BY <1>7, <2>1, <2>2, Zenon
  <2> QED BY <1>1, <2>1, <2>3, Zenon DEF Inv, TxnInv
<1>9. ASSUME v.op.kind = "allocate", ~v.stale
      PROVE  ComputedFrom(v, kv'[CounterKey(q)] = Absent, CounterOld(q)', LastAllocated(q)')
  <2>1. kv'[CounterKey(q)] = kv[CounterKey(q)] /\ kv'[StateKey(q)] = kv[StateKey(q)]
    BY <1>6, <1>8, <1>9, AppliedElsewhere, Zenon DEF CanCommit
  <2>2. ComputedFrom(v, kv[CounterKey(q)] = Absent, CounterOld(q), LastAllocated(q))
    BY <1>3, <1>8, <1>9, Zenon DEF ComputedFrom, LastAfter
  <2>3. q' = q
    BY <1>1, <1>3, Zenon
  <2> QED BY <2>1, <2>2, <2>3, Zenon DEF CounterOld, LastAllocated
<1> QED BY <1>1, <1>3, <1>5, <1>9, Zenon

(* The history after a commit counts at most the RIDs of the operation as  *)
(* returned once more, and forgets those of a reclaimed pool.              *)
Recorded(c) ==
  LET op == txn[c].op
  IN  /\ times' \in [Pool -> [Rid -> Nat]] /\ reclaimed' \in [Pool -> BOOLEAN]
      /\ \A q \in Pool : q # op.pool => times'[q] = times[q]
      /\ op.kind = "reclaim" => \A r \in Rid : times'[op.pool][r] = 0
      /\ op.kind = "allocate" =>
           \A r \in Rid : \/ times'[op.pool][r] = times[op.pool][r]
                          \/ /\ r \in Dispensed(op)
                             /\ times'[op.pool][r] = times[op.pool][r] + 1

(* A commit that is recorded so preserves the invariant.                   *)
LEMMA CommitInv ==
  ASSUME DetectConflicts, Inv, NEW c \in Client, CanCommit(c), CommitApply(c), Recorded(c)
  PROVE  Inv'
<1> DEFINE t == txn[c]
           p == t.op.pool
           Good(q) == /\ kv'[CounterKey(q)] = Absent <=> kv'[StateKey(q)] = Absent
                      /\ CounterOld(q)' >= InitialRid - 1
                      /\ InRange(q)' => \A r \in Rid : r > CounterOld(q)' => times'[q][r] = 0
                      /\ InRange(q)' => \A r \in Rid : times'[q][r] <= 1
                      /\ kv'[CounterKey(q)] # Absent /\ InRange(q)'
                           => kv'[CounterKey(q)] <= LastAllocated(q)'
<1>1. TypeOK' /\ TxnInv'
  BY CommitTypes, CommitTxnInv, Zenon DEF TypeOK, Recorded
<1>2. t \in Transaction /\ t.op.kind \in {"allocate", "reclaim"} /\ p \in Pool
  BY Zenon DEF CanCommit, Inv, TypeOK, Transaction, Operation
<1>3. ASSUME NEW q \in Pool, q # p PROVE Good(q)
  <2>1. /\ kv'[CounterKey(q)] = kv[CounterKey(q)] /\ kv'[StateKey(q)] = kv[StateKey(q)]
        /\ times'[q] = times[q]
    BY <1>3, AppliedElsewhere, Zenon DEF CanCommit, Recorded
  <2>2. /\ CounterOld(q)' = CounterOld(q) /\ LastAllocated(q)' = LastAllocated(q)
        /\ InRange(q)' <=> InRange(q)
    BY <2>1, Zenon DEF CounterOld, LastAllocated, InRange
  <2> QED BY <2>1, <2>2, Zenon DEF Inv, RowsTogether, IssuedBelowCounter, RidUnique, HighWater
<1>4. CASE t.op.kind = "reclaim"
  <2>1. kv'[CounterKey(p)] = Absent /\ kv'[StateKey(p)] = Absent
    BY <1>4, AppliedReclaim, Zenon
  <2>2. ASSUME NEW q \in Pool, q = p PROVE Good(q)
    <3>1. CounterOld(q)' = InitialRid - 1
      BY <2>1, <2>2, Zenon DEF CounterOld
    <3>2. \A r \in Rid : times'[q][r] = 0
      BY <1>4, <2>2, Zenon DEF Recorded
    <3> HIDE DEF t, p
    <3>3. CounterOld(q)' >= InitialRid - 1
      BY <3>1, RidAssumption
    <3> QED BY <2>1, <2>2, <3>2, <3>3
  <2> QED BY <1>1, <1>3, <2>2, Zenon
          DEF Inv, RowsTogether, IssuedBelowCounter, RidUnique, HighWater
<1>5. CASE t.op.kind = "allocate"
  <2>1. /\ t.op.first = CounterOld(p) + 1
        /\ t.op.last \in Nat /\ t.op.last >= t.op.first
        /\ kv'[CounterKey(p)] = t.op.last
        /\ kv'[StateKey(p)] \in Rid
        /\ t.op.last < U32 => t.op.last <= kv'[StateKey(p)]
    BY <1>5, AppliedAllocation, Zenon
  <2>2. CounterOld(p) \in Nat /\ CounterOld(p) >= InitialRid - 1
    <3>1. kv[CounterKey(p)] \in Nat \cup {Absent}
      BY <1>2, KeyFacts, Zenon DEF Inv, TypeOK
    <3>2. CounterOld(p) \in Nat
      BY <3>1, RidAssumption DEF CounterOld
    <3> QED BY <1>2, <3>2, Zenon DEF Inv, IssuedBelowCounter
  <2>3. ASSUME NEW q \in Pool, q = p PROVE Good(q)
    <3> DEFINE last == t.op.last
               old == CounterOld(p)
    <3>1. last \in Nat /\ old \in Nat /\ last >= old + 1
      BY <2>1, <2>2, Zenon
    <3>2. last > old
      <4> HIDE DEF last, old
      <4> QED BY <3>1
    <3>3. last # Absent /\ kv'[StateKey(q)] # Absent /\ kv'[CounterKey(q)] = last
      <4>1. kv'[StateKey(q)] \in Int /\ last \in Int
        <5>1. Rid \subseteq Int /\ Nat \subseteq Int
          BY DEF Rid
        <5> QED BY <2>1, <2>3, <5>1, Zenon
      <4> QED BY <2>1, <2>3, <4>1, KvAssumption, Zenon
    <3>4. CounterOld(q)' = last /\ LastAllocated(q)' = kv'[StateKey(q)]
      BY <3>3, Zenon DEF CounterOld, LastAllocated
    <3>5. InRange(q)' <=> last < U32
      BY <3>3, Zenon DEF InRange, AsI64
    <3>6. InRange(q)' => InRange(q)
      <4>1. AsI64(kv[CounterKey(q)]) = old \/ kv[CounterKey(q)] = Absent
        BY <2>3, Zenon DEF AsI64, CounterOld
      <4>2. U32 \in Nat /\ U32 > 0
        BY RidAssumption
      <4> HIDE DEF last, old
      <4> QED BY <3>1, <3>2, <3>5, <4>1, <4>2 DEF InRange, AsI64
    <3>7. ASSUME InRange(q)', NEW r \in Rid
          PROVE  times'[q][r] <= 1 /\ (r > last => times'[q][r] = 0)
      <4> DEFINE before == times[q][r]
                 after == times'[q][r]
      <4>1. r \in Nat
        BY RidAssumption DEF Rid
      <4>2. before \in Nat
        BY Zenon DEF Inv, TypeOK
      <4>3. before <= 1 /\ (r > old => before = 0)
        BY <2>3, <3>6, <3>7, Zenon DEF Inv, RidUnique, IssuedBelowCounter
      <4>4. after = before \/ (r \in Dispensed(t.op) /\ after = before + 1)
        BY <1>5, <2>3, Zenon DEF Recorded
      <4>5. r \in Dispensed(t.op) => r > old /\ r <= last
        <5>1. last < U32
          BY <3>5, <3>7, Zenon
        <5> QED BY <2>1, <3>1, <5>1, DispensedAbove, Zenon
      <4>6. after = before \/ (r > old /\ r <= last /\ after = before + 1)
        BY <4>4, <4>5, Zenon
      <4> HIDE DEF before, after, last, old, t, p
      <4> QED BY <3>1, <3>2, <4>1, <4>2, <4>3, <4>6, CountedOnce DEF after
    <3>8. CounterOld(q)' >= InitialRid - 1
      <4>1. old >= InitialRid - 1 /\ InitialRid - 1 \in Int
        BY <2>2, RidAssumption
      <4> HIDE DEF last, old
      <4> QED BY <3>1, <3>2, <3>4, <4>1
    <3>9. InRange(q)' => kv'[CounterKey(q)] <= LastAllocated(q)'
      BY <2>1, <2>3, <3>3, <3>4, <3>5, Zenon
    <3> HIDE DEF t, p, last
    <3> QED BY <3>3, <3>4, <3>7, <3>8, <3>9, Zenon
  <2> QED BY <1>1, <1>3, <2>3, Zenon
          DEF Inv, RowsTogether, IssuedBelowCounter, RidUnique, HighWater
<1> QED BY <1>2, <1>4, <1>5, Zenon

(* Every step of the allocators preserves the invariant.                   *)
LEMMA NextInv ==
  ASSUME DetectConflicts, EndsInFF = {}, Inv, [Next]_vars
  PROVE  Inv'
<1>1. ASSUME NEW p \in Pool
      PROVE  /\ CounterOld(p) \in Nat /\ LastAllocated(p) \in Rid
             /\ CounterOld(p) < U32 => CounterOld(p) <= LastAllocated(p)
  <2>1. kv[CounterKey(p)] \in Nat \cup {Absent}
    BY KeyFacts, Zenon DEF Inv, TypeOK
  <2>2. CounterOld(p) \in Nat /\ LastAllocated(p) \in Rid
    BY <2>1, RidAssumption DEF CounterOld, Inv, TypeOK
  <2>3. CASE kv[CounterKey(p)] = Absent
    <3>1. CounterOld(p) = InitialRid - 1 /\ LastAllocated(p) = InitialLast
      BY <2>3, Zenon DEF CounterOld, LastAllocated, Inv, RowsTogether
    <3> QED BY <2>2, <3>1, RidAssumption DEF InitialLast
  <2>4. CASE kv[CounterKey(p)] # Absent
    BY <2>2, <2>4, Zenon DEF CounterOld, Inv, HighWater, InRange, AsI64
  <2> QED BY <2>2, <2>3, <2>4, Zenon
<1>2. ASSUME NEW c \in Client, NEW p \in Pool, Allocate(c, p) PROVE Inv'
  BY <1>1, <1>2, DispenseInv, ExtendOnceCovers DEF Allocate
<1>3. ASSUME NEW c \in Client, NEW p \in Pool, NEW n \in BatchRequest, AllocateBatch(c, p, n)
      PROVE  Inv'
  <2>1. n \in Nat \ {0} /\ CounterOld(p) + n \in Nat
    BY <1>1, RidAssumption
  <2> QED BY <1>1, <1>3, <2>1, DispenseInv, ExtendToCoverCovers, Zenon DEF AllocateBatch
<1>4. ASSUME NEW c \in Client, NEW p \in Pool, Reclaim(c, p) PROVE Inv'
  BY <1>4, ReclaimInv, Zenon
<1>5. ASSUME NEW c \in Client, CanCommit(c)
      PROVE  /\ txn[c].op.pool \in Pool /\ txn[c].op.kind \in {"allocate", "reclaim"}
             /\ times \in [Pool -> [Rid -> Nat]] /\ reclaimed \in [Pool -> BOOLEAN]
  BY <1>5, Zenon DEF CanCommit, Inv, TypeOK, Transaction, Operation
<1>6. ASSUME NEW c \in Client, Commit(c) PROVE Inv'
  <2> DEFINE op == txn[c].op
             counted == [r \in Rid |-> IF op.kind = "reclaim" THEN 0
                           ELSE IF r \in Dispensed(op) THEN times[op.pool][r] + 1
                           ELSE times[op.pool][r]]
  <2>1. /\ CanCommit(c) /\ CommitApply(c)
        /\ times' = [times EXCEPT ![op.pool] = counted]
        /\ reclaimed' = [reclaimed EXCEPT ![op.pool] = (op.kind = "reclaim")]
    BY <1>6, Zenon DEF Commit
  <2>2. counted \in [Rid -> Nat]
    <3>1. times[op.pool] \in [Rid -> Nat]
      BY <1>5, <2>1, Zenon
    <3>2. ASSUME NEW r \in Rid PROVE times[op.pool][r] \in Nat /\ times[op.pool][r] + 1 \in Nat
      <4> DEFINE n == times[op.pool][r]
      <4>1. n \in Nat
        BY <3>1, Zenon
      <4> HIDE DEF n
      <4> QED BY <4>1 DEF n
    <3> QED BY <3>2, Zenon
  <2>3. Recorded(c)
    <3>1. times' \in [Pool -> [Rid -> Nat]] /\ reclaimed' \in [Pool -> BOOLEAN]
      <4> HIDE DEF counted
      <4> QED BY <1>5, <2>1, <2>2, Zenon
    <3>2. /\ \A q \in Pool : q # op.pool => times'[q] = times[q]
          /\ times'[op.pool] = counted
      <4> HIDE DEF counted
      <4> QED BY <1>5, <2>1, Zenon
    <3> QED BY <3>1, <3>2, Zenon DEF Recorded
  <2> QED BY <2>1, <2>3, CommitInv, Zenon
<1>7. ASSUME NEW c \in Client, CommitUnknown(c) PROVE Inv'
  <2> DEFINE op == txn[c].op
  <2>1. /\ CanCommit(c) /\ CommitApply(c)
        /\ times' = IF op.kind = "reclaim" THEN [times EXCEPT ![op.pool] = [r \in Rid |-> 0]]
                    ELSE times
        /\ reclaimed' = [reclaimed EXCEPT ![op.pool] = (op.kind = "reclaim")]
    BY <1>7, Zenon DEF CommitUnknown
  <2>2. Recorded(c)
    BY <1>5, <2>1, Zenon DEF Recorded
  <2> QED BY <2>1, <2>2, CommitInv, Zenon
<1>8. ASSUME NEW c \in Client, Fail(c) PROVE Inv'
  <2>1. UNCHANGED <<kv, times, reclaimed>> /\ txn' = [txn EXCEPT ![c] = NoTxn]
    BY <1>8, Zenon DEF Fail, CloseTxn
  <2>2. TypeOK' /\ RowsTogether' /\ IssuedBelowCounter' /\ RidUnique' /\ HighWater'
    BY <2>1, Zenon DEF Inv, TypeOK, RowsTogether, IssuedBelowCounter, RidUnique, HighWater,
                CounterOld, LastAllocated, InRange
  <2>3. TxnInv'
    BY <2>1, Zenon DEF Inv, TypeOK, TxnInv, CounterOld, LastAllocated
  <2> QED BY <2>2, <2>3, Zenon DEF Inv
<1>9. CASE UNCHANGED vars
  BY <1>9, Zenon DEF vars, Inv, TypeOK, RowsTogether, IssuedBelowCounter, RidUnique, HighWater,
              TxnInv, CounterOld, LastAllocated, InRange
<1> QED BY <1>2, <1>3, <1>4, <1>6, <1>7, <1>8, <1>9, Zenon DEF Next

-----------------------------------------------------------------------------
(* On a store that detects conflicts, and when no domain SID ends in 0xFF, *)
(* the invariant holds of every behaviour of the allocators.               *)
THEOREM Invariance ==
  ASSUME DetectConflicts, EndsInFF = {}
  PROVE  Spec => []Inv
<1>1. Init => Inv
  BY InitInv, Zenon
<1>2. Inv /\ [Next]_vars => Inv'
  BY NextInv, Zenon
<1> QED BY <1>1, <1>2, PTL DEF Spec

(* The store, the open transactions and the history keep their types.      *)
THEOREM TypeCorrect ==
  ASSUME DetectConflicts, EndsInFF = {}
  PROVE  Spec => []TypeOK
<1>1. Inv => TypeOK
  BY Zenon DEF Inv
<1> QED BY <1>1, Invariance, PTL

(* allocate and allocate_batch never return a RID twice, for any number of *)
(* concurrent callers, however their transactions overlap and fail.        *)
THEOREM RidsAreUnique ==
  ASSUME DetectConflicts, EndsInFF = {}
  PROVE  Spec => []RidUnique
<1>1. Inv => RidUnique
  BY Zenon DEF Inv
<1> QED BY <1>1, Invariance, PTL

(* last_allocated_rid always covers every RID dispensed.                   *)
THEOREM HighWaterCovers ==
  ASSUME DetectConflicts, EndsInFF = {}
  PROVE  Spec => []HighWater
<1>1. Inv => HighWater
  BY Zenon DEF Inv
<1> QED BY <1>1, Invariance, PTL

(* The next_rid that state() reports is above the counter, so that nobody  *)
(* has been given it, as long as it does not wrap to zero.                 *)
THEOREM NextRidFresh ==
  ASSUME DetectConflicts, EndsInFF = {}
  PROVE  Spec => []NextRidIsFresh
<1>1. Inv => NextRidIsFresh
  <2> SUFFICES ASSUME Inv, NEW p \in Pool, InRange(p), NextRid(p) # 0
               PROVE  times[p][NextRid(p)] = 0
    BY Zenon DEF NextRidIsFresh
  <2>1. kv[CounterKey(p)] \in Nat \cup {Absent}
    BY KeyFacts, Zenon DEF Inv, TypeOK
  <2>2. NextRid(p) \in Rid /\ NextRid(p) > CounterOld(p)
    <3>1. CASE kv[CounterKey(p)] = Absent
      BY <3>1, RidAssumption DEF NextRid, CounterOld, Rid
    <3>2. CASE kv[CounterKey(p)] # Absent
      <4> DEFINE v == kv[CounterKey(p)]
      <4>1. v \in Nat /\ v + 1 \in Nat /\ v < U32 /\ CounterOld(p) = v /\ NextRid(p) = AsU32(v + 1)
        BY <2>1, <3>2 DEF InRange, AsI64, CounterOld, NextRid
      <4>2. AsU32(v + 1) # 0
        BY <4>1, Zenon
      <4> HIDE DEF v
      <4>3. v + 1 # U32
        BY <4>1, <4>2, RidAssumption, SMT DEF AsU32
      <4>4. v + 1 < U32
        BY <4>1, <4>3, RidAssumption
      <4> QED BY <4>1, <4>4, AsU32Facts
    <3> QED BY <3>1, <3>2, Zenon
  <2> QED BY <2>2, Zenon DEF Inv, IssuedBelowCounter
<1> QED BY <1>1, Invariance, PTL

(* A reclaim that was the last thing to happen to a pool has left no       *)
(* counter behind.                                                         *)
ReclaimedEmpty == \A p \in Pool : reclaimed[p] => kv[CounterKey(p)] = Absent

(* A commit that records whether it was a reclaim preserves that.          *)
LEMMA CommitReclaimedEmpty ==
  ASSUME Inv, ReclaimedEmpty, NEW c \in Client, CanCommit(c), CommitApply(c),
         reclaimed' = [reclaimed EXCEPT ![txn[c].op.pool] = (txn[c].op.kind = "reclaim")]
  PROVE  ReclaimedEmpty'
<1> DEFINE q == txn[c].op.pool
<1>1. txn[c] # NoTxn /\ q \in Pool
  BY Zenon DEF CanCommit, Inv, TypeOK, Transaction, Operation
<1> SUFFICES ASSUME NEW p \in Pool, reclaimed'[p] PROVE kv'[CounterKey(p)] = Absent
  BY Zenon DEF ReclaimedEmpty
<1>2. CASE p = q
  <2>1. txn[c].op.kind = "reclaim"
    BY <1>2, Zenon DEF Inv, TypeOK
  <2> QED BY <1>2, <2>1, AppliedReclaim, Zenon
<1>3. CASE p # q
  <2>1. reclaimed[p]
    BY <1>3, Zenon DEF Inv, TypeOK
  <2>2. kv'[CounterKey(p)] = kv[CounterKey(p)]
    BY <1>1, <1>3, AppliedElsewhere, Zenon
  <2> QED BY <2>1, <2>2, Zenon DEF ReclaimedEmpty
<1> QED BY <1>2, <1>3, Zenon

(* After reclaim_domain or reclaim_dc the pool starts again at INITIAL_RID *)
(* when no allocation commits after it, whatever was in flight.            *)
THEOREM ReclaimRestarts ==
  ASSUME DetectConflicts, EndsInFF = {}
  PROVE  Spec => []ReclaimReinitialises
<1>1. Init => ReclaimedEmpty
  BY Zenon DEF Init, ReclaimedEmpty
<1>2. Inv /\ ReclaimedEmpty /\ [Next]_vars => ReclaimedEmpty'
  <2> SUFFICES ASSUME Inv, ReclaimedEmpty, [Next]_vars PROVE ReclaimedEmpty'
    BY Zenon
  <2>1. CASE UNCHANGED <<kv, reclaimed>>
    BY <2>1, Zenon DEF ReclaimedEmpty
  <2>2. ASSUME NEW c \in Client, Commit(c) \/ CommitUnknown(c) PROVE ReclaimedEmpty'
    BY <2>2, CommitReclaimedEmpty, Zenon DEF Commit, CommitUnknown
  <2>3. ASSUME NEW c \in Client, NEW p \in Pool, NEW n,
               Allocate(c, p) \/ AllocateBatch(c, p, n) \/ Reclaim(c, p)
        PROVE  UNCHANGED <<kv, reclaimed>>
    BY <2>3, Zenon DEF Allocate, AllocateBatch, Dispense, Reclaim
  <2>4. ASSUME NEW c \in Client, Fail(c) PROVE UNCHANGED <<kv, reclaimed>>
    BY <2>4, Zenon DEF Fail, CloseTxn
  <2> QED BY <2>1, <2>2, <2>3, <2>4, Zenon DEF Next, vars
<1>3. ReclaimedEmpty => ReclaimReinitialises
  BY RidAssumption DEF ReclaimedEmpty, ReclaimReinitialises, CounterOld
<1> QED BY <1>1, <1>2, <1>3, Invariance, PTL DEF Spec
=============================================================================
