------------------------------ MODULE RidPool ------------------------------
(***************************************************************************)
(* adrian-identity-ridpool: FdbRidPoolAllocator and LocalRidAllocator.     *)
(*                                                                         *)
(* A pool is one pair of keys of the store: the state row, of which only   *)
(* last_allocated_rid ever changes, and the next_rid counter, which holds  *)
(* the last RID dispensed.  The per-domain allocator keeps one pool for a  *)
(* domain SID, the per-DC allocator one for each (DC, domain SID); both    *)
(* run the same code on them.                                              *)
(***************************************************************************)
EXTENDS KvTxn

CONSTANTS
  Pool,           \* the pools in use
  LocalPool,      \* those of LocalRidAllocator
  EndsInFF,       \* those whose domain SID ends in the byte 0xFF
  InitialRid,     \* INITIAL_RID (1000)
  BatchSize,      \* RID_BATCH_SIZE (500)
  U32,            \* 2^32
  BatchRequest,   \* the sizes n > 0 asked of allocate_batch
  MaxCounter      \* bound: no allocation takes a counter beyond this

VARIABLES
  times,      \* history: how often each RID of a pool has been returned to a caller
  reclaimed   \* history: the pool was reclaimed and nothing allocated since

ASSUME RidAssumption ==
  /\ LocalPool \subseteq Pool /\ EndsInFF \subseteq Pool
  /\ InitialRid \in Nat \ {0} /\ BatchSize \in Nat \ {0}
  /\ U32 \in Nat /\ InitialRid + BatchSize <= U32
  /\ BatchRequest \subseteq Nat \ {0} /\ MaxCounter \in Nat

vars == <<kv, txn, times, reclaimed>>

StateKey(p) == <<"state", p>>
CounterKey(p) == <<"counter", p>>
Key == {"state", "counter"} \X Pool
Rid == 0 .. U32 - 1

(* RidPoolState::initial().last_allocated_rid                              *)
InitialLast == InitialRid + BatchSize - 1

LastAllocated(p) ==
  IF kv[StateKey(p)] = Absent THEN InitialLast ELSE kv[StateKey(p)]

(* The counter as allocate reads it: absent, it is seeded.                 *)
CounterOld(p) ==
  IF kv[CounterKey(p)] = Absent THEN InitialRid - 1 ELSE kv[CounterKey(p)]

(* "v as u32", and u32 arithmetic that saturates.                          *)
AsU32(v) == v % U32
MutNoSaturate(v) == v
Saturate(v) == IF v < U32 THEN v ELSE U32 - 1
DivCeil(a, b) == (a + b - 1) \div b

(* The high-water mark after dispensing up to last: one more batch in      *)
(* allocate, whole batches up to last in allocate_batch.                   *)
ExtendOnce(p, last) ==
  IF AsU32(last) > LastAllocated(p)
    THEN Saturate(LastAllocated(p) + BatchSize)
    ELSE LastAllocated(p)

MutExtendOnce(p, last) == ExtendOnce(p, last)
ExtendToCover(p, last) ==
  IF AsU32(last) > LastAllocated(p)
    THEN LET needed == AsU32(last) - LastAllocated(p)
             extra == Saturate(DivCeil(needed, BatchSize) * BatchSize)
         IN  Saturate(LastAllocated(p) + extra)
    ELSE LastAllocated(p)

(* The writes of an allocation: the counter is seeded when absent, and the *)
(* state row put when it is new or the mark was passed.                    *)
StagedPuts(p, last, high) ==
  [k \in Key |->
     IF k = CounterKey(p) /\ kv[k] = Absent THEN InitialRid - 1
     ELSE IF k = StateKey(p) /\ (\/ kv[CounterKey(p)] = Absent
                                 \/ AsU32(last) > LastAllocated(p))
       THEN high
     ELSE Keep]

Dispense(c, p, n, high) ==
  /\ CounterOld(p) + n <= MaxCounter
  /\ Begin(c, [kind |-> "allocate", pool |-> p,
               first |-> CounterOld(p) + 1, last |-> CounterOld(p) + n],
           {StateKey(p), CounterKey(p)},
           StagedPuts(p, CounterOld(p) + n, high),
           [NoAdds EXCEPT ![CounterKey(p)] = n])
  /\ UNCHANGED <<kv, times, reclaimed>>

(* allocate and allocate_batch, up to their commit.                        *)
Allocate(c, p) == Dispense(c, p, 1, ExtendOnce(p, CounterOld(p) + 1))

AllocateBatch(c, p, n) == Dispense(c, p, n, ExtendToCover(p, CounterOld(p) + n))

(* scan_prefix on the pool's prefix.  The end of the range is the prefix   *)
(* with its last byte incremented, unless that byte is 0xFF: then it is    *)
(* the prefix followed by 0x00, below every longer key.  The state key of  *)
(* the per-domain allocator is the bare prefix.                            *)
MutScanStateOnly(p) == {StateKey(p)}
ScanPrefix(p) ==
  IF p \notin EndsInFF THEN {StateKey(p), CounterKey(p)}
  ELSE IF p \in LocalPool THEN {}
  ELSE {StateKey(p)}

(* reclaim_domain and reclaim_dc: a scan in a read transaction, then a     *)
(* write transaction that deletes what the scan found and reads nothing.   *)
Reclaim(c, p) ==
  LET found == {k \in ScanPrefix(p) : kv[k] # Absent}
  IN  /\ found # {}
      /\ Begin(c, [kind |-> "reclaim", pool |-> p, first |-> 0, last |-> 0], {},
               [k \in Key |-> IF k \in found THEN Absent ELSE Keep], NoAdds)
      /\ UNCHANGED <<kv, times, reclaimed>>

(* The RIDs an allocation returns, each truncated to 32 bits.              *)
Dispensed(op) == {AsU32(v) : v \in op.first .. op.last}

(* commit succeeds and the caller gets the RIDs.                           *)
Commit(c) ==
  LET op == txn[c].op
  IN  /\ CanCommit(c)
      /\ CommitApply(c)
      /\ times' = [times EXCEPT ![op.pool] =
                     [r \in Rid |-> IF op.kind = "reclaim" THEN 0
                                    ELSE IF r \in Dispensed(op) THEN @[r] + 1 ELSE @[r]]]
      /\ reclaimed' = [reclaimed EXCEPT ![op.pool] = (op.kind = "reclaim")]

(* FoundationDB may apply a commit whose answer is lost: the caller gets   *)
(* an error, and no RID.                                                   *)
CommitUnknown(c) ==
  LET op == txn[c].op
  IN  /\ DetectConflicts
      /\ CanCommit(c)
      /\ CommitApply(c)
      /\ times' = IF op.kind = "reclaim"
                    THEN [times EXCEPT ![op.pool] = [r \in Rid |-> 0]] ELSE times
      /\ reclaimed' = [reclaimed EXCEPT ![op.pool] = (op.kind = "reclaim")]

(* The commit is refused (the error is returned, there is no retry), or    *)
(* the caller goes away before it commits.                                 *)
Fail(c) == CloseTxn(c) /\ UNCHANGED <<times, reclaimed>>

Init ==
  /\ kv = [k \in Key |-> Absent]
  /\ txn = [c \in Client |-> NoTxn]
  /\ times = [p \in Pool |-> [r \in Rid |-> 0]]
  /\ reclaimed = [p \in Pool |-> FALSE]

Next ==
  \E c \in Client :
    \/ \E p \in Pool : \/ Allocate(c, p)
                       \/ \E n \in BatchRequest : AllocateBatch(c, p, n)
                       \/ Reclaim(c, p)
    \/ Commit(c)
    \/ CommitUnknown(c)
    \/ Fail(c)

Spec == Init /\ [][Next]_vars

-----------------------------------------------------------------------------
(* state(): what the allocator reports of a pool.                          *)
MutNextIsLast(p) ==
  IF kv[CounterKey(p)] = Absent THEN InitialRid ELSE AsU32(kv[CounterKey(p)])
NextRid(p) ==
  IF kv[CounterKey(p)] = Absent THEN InitialRid ELSE AsU32(kv[CounterKey(p)] + 1)

(* The counter is within 32 bits: beyond, "as u32" starts again from zero. *)
InRange(p) == AsI64(kv[CounterKey(p)]) < U32

Operation ==
  [kind : {"allocate", "reclaim"}, pool : Pool, first : Nat, last : Nat]

Transaction ==
  [op : Operation, reads : SUBSET Key, puts : [Key -> Nat \cup {Absent, Keep}],
   adds : [Key -> Nat], stale : BOOLEAN]

(* Types of the store (last_allocated_rid stays a u32 as saturating_add    *)
(* caps it), of the open transactions and of the history.                  *)
TypeOK ==
  /\ kv \in [Key -> Nat \cup {Absent}]
  /\ \A p \in Pool : LastAllocated(p) \in Rid
  /\ txn \in [Client -> Transaction \cup {NoTxn}]
  /\ times \in [Pool -> [Rid -> Nat]]
  /\ reclaimed \in [Pool -> BOOLEAN]

(* No RID of a pool is returned to two callers, or twice to one, whatever  *)
(* transactions overlap, fail, or commit without an answer: allocate and   *)
(* allocate_batch compute the RID from the snapshot and rely on commit.    *)
RidUnique ==
  \A p \in Pool : InRange(p) => \A r \in Rid : times[p][r] <= 1

(* Every RID dispensed so far lies within the batches the pool was given:  *)
(* last_allocated_rid, extended by allocate once and by allocate_batch by  *)
(* whole batches, is never behind the counter.                             *)
HighWater ==
  \A p \in Pool :
    kv[CounterKey(p)] # Absent /\ InRange(p) => kv[CounterKey(p)] <= LastAllocated(p)

(* The next_rid that state() reports has not been returned to anybody,     *)
(* until it wraps to zero.                                                 *)
NextRidIsFresh ==
  \A p \in Pool :
    InRange(p) /\ NextRid(p) # 0 => times[p][NextRid(p)] = 0

(* Once reclaim_domain has succeeded, and until something is allocated     *)
(* again, the next allocation starts from INITIAL_RID.                     *)
ReclaimReinitialises ==
  \A p \in Pool : reclaimed[p] => CounterOld(p) + 1 = InitialRid
=============================================================================
