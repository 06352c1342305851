---------------------------- MODULE IdentityMap ----------------------------
(***************************************************************************)
(* adrian-identity-fdb: FdbIdentityMapping, the UUID <-> SID table, with   *)
(* its in-memory cache, and allocate_uid, on the transactions of KvTxn.    *)
(*                                                                         *)
(* The callers share the cache of one process (they hold clones of one     *)
(* FdbIdentityMapping).  The two halves of the cache have a lock each, so  *)
(* cache_put and cache_remove are several steps, which interleave.  The    *)
(* watches on the store that the crate's documentation names for cache     *)
(* invalidation do not exist in the code and are not modelled.             *)
(***************************************************************************)
EXTENDS KvTxn, FiniteSets

CONSTANTS
  Uuid, Sid,
  UidBase,        \* 65536, the first UID returned
  MaxUid,         \* bound: allocate_uid is not called once the counter is here
  CacheCapacity   \* cache_capacity (100000)

VARIABLES
  cacheFwd,   \* cache_uuid_to_sid
  cacheRev,   \* cache_sid_to_uuid
  todo,       \* per caller: the cache step it still has to take
  missed      \* history: UUIDs whose removal the cache may have missed

ASSUME IdentityAssumption ==
  /\ UidBase \in Nat \ {0} /\ MaxUid \in Nat /\ CacheCapacity \in Nat \ {0}
  /\ Absent \notin Uuid /\ Absent \notin Sid /\ Keep \notin Uuid /\ Keep \notin Sid

cacheVars == <<cacheFwd, cacheRev, todo, missed>>
vars == <<kv, txn, cacheVars>>

UidRange == 1 .. UidBase + MaxUid

Fwd(u) == <<"fwd", u>>          \* forward_key
Rev(s) == <<"rev", s>>          \* reverse_key
UidIndex(x) == <<"uid", x>>     \* uid_index_key
UuidToUid(u) == <<"uidOf", u>>  \* uuid_to_uid_key
UidCounter == <<"next_uid", 0>> \* uid_counter_key
Key ==
  {Fwd(u) : u \in Uuid} \cup {Rev(s) : s \in Sid} \cup {UidCounter}
    \cup {UidIndex(x) : x \in UidRange} \cup {UuidToUid(u) : u \in Uuid}

Idle == [step |-> "idle"]
Ready(c) == txn[c] = NoTxn /\ todo[c] = Idle
Staged(f) == [k \in Key |-> IF k \in DOMAIN f THEN f[k] ELSE Keep]
Op(kind, u, s) == [kind |-> kind, uuid |-> u, sid |-> s]

(* insert, up to its commit.  A SID or UUID mapped elsewhere is an error,  *)
(* and the mapping that is there already is left alone.                    *)
MutInsertChecksUuidOnly(c, u, s) ==
  /\ Ready(c)
  /\ kv[Fwd(u)] = Absent
  /\ Begin(c, Op("insert", u, s), {Rev(s), Fwd(u)},
           Staged([k \in {Fwd(u), Rev(s)} |-> IF k = Fwd(u) THEN s ELSE u]), NoAdds)
  /\ UNCHANGED <<kv, cacheVars>>
Insert(c, u, s) ==
  /\ Ready(c)
  /\ kv[Rev(s)] \in {Absent, u}
  /\ kv[Fwd(u)] = Absent
  /\ Begin(c, Op("insert", u, s), {Rev(s), Fwd(u)},
           Staged([k \in {Fwd(u), Rev(s)} |-> IF k = Fwd(u) THEN s ELSE u]), NoAdds)
  /\ UNCHANGED <<kv, cacheVars>>

(* remove, up to its commit: both directions, and the UID rows if any.     *)
Remove(c, u) ==
  LET s == kv[Fwd(u)]
      uid == kv[UuidToUid(u)]
      gone == {Fwd(u), Rev(s)} \cup
                (IF uid = Absent THEN {} ELSE {UuidToUid(u), UidIndex(uid)})
  IN  /\ Ready(c)
      /\ s # Absent
      /\ Begin(c, Op("remove", u, s), {Fwd(u), UuidToUid(u)},
               Staged([k \in gone |-> Absent]), NoAdds)
      /\ UNCHANGED <<kv, cacheVars>>

(* allocate_uid, up to its commit.  An absent counter is taken for         *)
(* UidBase - 1, but the atomic add that is staged starts it from zero.     *)
MutUidUnseeded == AsI64(kv[UidCounter])
NextUid == IF kv[UidCounter] = Absent THEN UidBase ELSE kv[UidCounter] + 1

AllocateUid(c, u) ==
  /\ Ready(c)
  /\ AsI64(kv[UidCounter]) < MaxUid
  /\ Begin(c, Op("uid", u, Absent), {UidCounter},
           Staged([k \in {UuidToUid(u), UidIndex(NextUid)} |->
                     IF k = UuidToUid(u) THEN NextUid ELSE u]),
           [NoAdds EXCEPT ![UidCounter] = 1])
  /\ UNCHANGED <<kv, cacheVars>>

(* What is left to do for the cache after a commit.                        *)
MutRemoveKeepsCache(c) ==
  LET op == txn[c].op
  IN  IF op.kind = "insert" THEN [step |-> "put", uuid |-> op.uuid, sid |-> op.sid] ELSE Idle
AfterCommit(c) ==
  LET op == txn[c].op
  IN  CASE op.kind = "insert" -> [step |-> "put", uuid |-> op.uuid, sid |-> op.sid]
        [] op.kind = "remove" -> [step |-> "find", uuid |-> op.uuid]
        [] op.kind = "uid" -> Idle

(* Some caller has read or written the mapping of u and not yet cached it. *)
InHand(u) == \E d \in Client : todo[d].step = "put" /\ todo[d].uuid = u

Apply(c) ==
  LET op == txn[c].op
  IN  /\ CanCommit(c)
      /\ CommitApply(c)
      /\ missed' = IF op.kind = "remove" /\ InHand(op.uuid)
                     THEN missed \cup {op.uuid} ELSE missed
      /\ UNCHANGED <<cacheFwd, cacheRev>>

(* A commit that succeeds; one whose answer is lost (the caller gets the   *)
(* error and leaves the cache alone); one that is refused or never made.   *)
Commit(c) == Apply(c) /\ todo' = [todo EXCEPT ![c] = AfterCommit(c)]

CommitUnknown(c) ==
  LET op == txn[c].op
  IN  /\ DetectConflicts
      /\ CanCommit(c)
      /\ CommitApply(c)
      /\ missed' = IF op.kind = "remove" THEN missed \cup {op.uuid} ELSE missed
      /\ UNCHANGED <<cacheFwd, cacheRev, todo>>

Fail(c) == CloseTxn(c) /\ UNCHANGED cacheVars

(* lookup_sid and lookup_uuid after a miss: the row is read, and cached by *)
(* later steps.  The cache was looked at before the store was asked, and   *)
(* others may have filled it since.  A hit, and an absent row, change      *)
(* nothing.                                                                *)
LookupSid(c, u) ==
  /\ Ready(c)
  /\ kv[Fwd(u)] # Absent
  /\ todo' = [todo EXCEPT ![c] = [step |-> "put", uuid |-> u, sid |-> kv[Fwd(u)]]]
  /\ UNCHANGED <<kv, txn, cacheFwd, cacheRev, missed>>

LookupUuid(c, s) ==
  /\ Ready(c)
  /\ kv[Rev(s)] # Absent
  /\ todo' = [todo EXCEPT ![c] = [step |-> "put", uuid |-> kv[Rev(s)], sid |-> s]]
  /\ UNCHANGED <<kv, txn, cacheFwd, cacheRev, missed>>

(* cache_put under the lock of the forward half: at capacity an arbitrary  *)
(* entry is evicted, from both halves, unless the UUID has one already.    *)
Cached == {u \in Uuid : cacheFwd[u] # Absent}
Victims(u) ==
  IF Cardinality(Cached) >= CacheCapacity /\ u \notin Cached
    THEN {{v} : v \in Cached} ELSE {{}}

CachePutForward(c) ==
  LET u == todo[c].uuid
      s == todo[c].sid
  IN  /\ todo[c].step = "put"
      /\ \E out \in Victims(u) :
           /\ cacheFwd' = [v \in Uuid |-> IF v = u THEN s
                                          ELSE IF v \in out THEN Absent ELSE cacheFwd[v]]
           /\ cacheRev' = [r \in Sid |-> IF \E v \in out : cacheFwd[v] = r
                                         THEN Absent ELSE cacheRev[r]]
      /\ todo' = [todo EXCEPT ![c].step = "putRev"]
      /\ UNCHANGED <<kv, txn, missed>>

CachePutReverse(c) ==
  /\ todo[c].step = "putRev"
  /\ cacheRev' = [cacheRev EXCEPT ![todo[c].sid] = todo[c].uuid]
  /\ todo' = [todo EXCEPT ![c] = Idle]
  /\ UNCHANGED <<kv, txn, cacheFwd, missed>>

(* cache_remove: read the forward entry, drop it, drop the reverse entry.  *)
CacheFind(c) ==
  LET u == todo[c].uuid
  IN  /\ todo[c].step = "find"
      /\ todo' = [todo EXCEPT ![c] =
                    IF cacheFwd[u] = Absent THEN Idle
                    ELSE [step |-> "drop", uuid |-> u, sid |-> cacheFwd[u]]]
      /\ UNCHANGED <<kv, txn, cacheFwd, cacheRev, missed>>

CacheDropForward(c) ==
  /\ todo[c].step = "drop"
  /\ cacheFwd' = [cacheFwd EXCEPT ![todo[c].uuid] = Absent]
  /\ todo' = [todo EXCEPT ![c].step = "dropRev"]
  /\ UNCHANGED <<kv, txn, cacheRev, missed>>

CacheDropReverse(c) ==
  /\ todo[c].step = "dropRev"
  /\ cacheRev' = [cacheRev EXCEPT ![todo[c].sid] = Absent]
  /\ todo' = [todo EXCEPT ![c] = Idle]
  /\ UNCHANGED <<kv, txn, cacheFwd, missed>>

(* The process restarts: open transactions and the cache are gone.         *)
Restart ==
  /\ txn' = [c \in Client |-> NoTxn]
  /\ todo' = [c \in Client |-> Idle]
  /\ cacheFwd' = [u \in Uuid |-> Absent]
  /\ cacheRev' = [s \in Sid |-> Absent]
  /\ missed' = {}
  /\ UNCHANGED kv

Init ==
  /\ kv = [k \in Key |-> Absent]
  /\ txn = [c \in Client |-> NoTxn]
  /\ cacheFwd = [u \in Uuid |-> Absent]
  /\ cacheRev = [s \in Sid |-> Absent]
  /\ todo = [c \in Client |-> Idle]
  /\ missed = {}

Next ==
  \/ \E c \in Client :
       \/ \E u \in Uuid : \/ \E s \in Sid : Insert(c, u, s)
                          \/ Remove(c, u)
                          \/ AllocateUid(c, u)
                          \/ LookupSid(c, u)
       \/ \E s \in Sid : LookupUuid(c, s)
       \/ Commit(c) \/ CommitUnknown(c) \/ Fail(c)
       \/ CachePutForward(c) \/ CachePutReverse(c)
       \/ CacheFind(c) \/ CacheDropForward(c) \/ CacheDropReverse(c)
  \/ Restart

Spec == Init /\ [][Next]_vars

-----------------------------------------------------------------------------
(* Types of the table, of the cache and of the cache steps in progress.    *)
TypeOK ==
  /\ \A u \in Uuid : /\ kv[Fwd(u)] \in Sid \cup {Absent}
                     /\ kv[UuidToUid(u)] \in UidRange \cup {Absent}
                     /\ cacheFwd[u] \in Sid \cup {Absent}
  /\ \A s \in Sid : kv[Rev(s)] \in Uuid \cup {Absent} /\ cacheRev[s] \in Uuid \cup {Absent}
  /\ AsI64(kv[UidCounter]) \in 0 .. MaxUid
  /\ \A c \in Client : todo[c] # Idle => txn[c] = NoTxn

(* The table stays a bijection: a SID is mapped to one UUID and back, with *)
(* inserts and removes of the same names in flight.  insert relies on the  *)
(* store's conflict detection for it, and removes both rows or neither.    *)
Bijective ==
  \A u \in Uuid, s \in Sid : kv[Fwd(u)] = s <=> kv[Rev(s)] = u

(* A forward hit returns the mapping the table has, unless remove is still *)
(* about to drop it, or the removal overtook a caller that had the mapping *)
(* in hand and cached it afterwards, or lost its answer.                   *)
StaleOnlyWhenMissed ==
  \A u \in Uuid :
    cacheFwd[u] # Absent /\ cacheFwd[u] # kv[Fwd(u)] =>
      \/ u \in missed
      \/ \E c \in Client : todo[c].step \in {"find", "drop"} /\ todo[c].uuid = u

(* While fewer UIDs were allocated than lie below the first, the UID of a  *)
(* principal leads back to it.                                             *)
UidLeadsBack ==
  AsI64(kv[UidCounter]) < UidBase - 1 =>
    \A u \in Uuid : kv[UuidToUid(u)] # Absent => kv[UidIndex(kv[UuidToUid(u)])] = u

(* "UIDs start at 65536 and are allocated in increasing order".            *)
UidsStartAtBase ==
  \A u \in Uuid : kv[UuidToUid(u)] # Absent => kv[UuidToUid(u)] >= UidBase
=============================================================================
