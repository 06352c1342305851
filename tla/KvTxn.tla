------------------------------- MODULE KvTxn -------------------------------
(***************************************************************************)
(* Transactions of the directory's ordered key-value store: the WriteTxn   *)
(* interface of adrian-storage-core and its two implementations, the       *)
(* in-process BTreeMap of adrian-storage-testkit (the default build) and   *)
(* the FoundationDB client of adrian-storage-fdb (cargo feature "fdb").    *)
(*                                                                         *)
(* Every read of a transaction sees the store as it was at begin_write,    *)
(* overlaid by the transaction's own puts; writes and atomic adds are      *)
(* staged and applied together by commit.  An operation of a caller is     *)
(* therefore two steps: one that takes the snapshot, reads it and stages,  *)
(* and one that commits.  The backends differ in one thing.  FoundationDB  *)
(* refuses the commit of a transaction when a key it has read was written  *)
(* since its snapshot; the in-memory store applies every commit.           *)
(*                                                                         *)
(* A module that uses the store extends this one, defines its keys (the    *)
(* domain of kv), and composes Begin, CommitApply and CloseTxn.            *)
(***************************************************************************)
EXTENDS Integers

CONSTANTS
  Client,           \* concurrent callers, each with at most one open transaction
  DetectConflicts,  \* TRUE: FoundationDB; FALSE: InMemoryDirectoryStore
  Absent,           \* "no such key"; staged, it is a delete
  Keep,             \* "no put or delete is staged for this key"
  NoTxn             \* the caller has no open transaction

VARIABLES
  kv,   \* the committed store: key -> value or Absent
  txn   \* per client: NoTxn, or what it has read and staged, and for which operation

ASSUME KvAssumption ==
  /\ DetectConflicts \in BOOLEAN
  /\ Absent \notin Int /\ Keep \notin Int /\ Absent # Keep

(* No atomic add is staged.                                                *)
NoAdds == [k \in DOMAIN kv |-> 0]

(* begin_write, then the reads and staged writes of operation op.          *)
Begin(c, op, reads, puts, adds) ==
  /\ txn[c] = NoTxn
  /\ txn' = [txn EXCEPT ![c] = [op |-> op, reads |-> reads, puts |-> puts,
                                adds |-> adds, stale |-> FALSE]]

(* An absent counter counts as zero.                                       *)
AsI64(v) == IF v = Absent THEN 0 ELSE v

(* The store after commit: first the puts and deletes, then the atomic     *)
(* adds, each on the value the key has at commit time.                     *)
Applied(t) ==
  [k \in DOMAIN kv |->
     LET base == IF t.puts[k] = Keep THEN kv[k] ELSE t.puts[k]
     IN  IF t.adds[k] = 0 THEN base ELSE AsI64(base) + t.adds[k]]

WriteSet(t) == {k \in DOMAIN kv : t.puts[k] # Keep \/ t.adds[k] # 0}

(* A commit makes every other open transaction stale that has read one of  *)
(* the keys it writes.                                                     *)
MarkStale(t, written) ==
  IF t = NoTxn THEN NoTxn
  ELSE [t EXCEPT !.stale = t.stale \/ t.reads \cap written # {}]

MutCommitUnchecked(c) == txn[c] # NoTxn
CanCommit(c) == txn[c] # NoTxn /\ ~(DetectConflicts /\ txn[c].stale)

CommitApply(c) ==
  /\ kv' = Applied(txn[c])
  /\ txn' = [d \in Client |-> IF d = c THEN NoTxn
                              ELSE MarkStale(txn[d], WriteSet(txn[c]))]

(* Rollback, a refused commit, or a dropped transaction.                   *)
CloseTxn(c) ==
  /\ txn[c] # NoTxn
  /\ txn' = [txn EXCEPT ![c] = NoTxn]
  /\ UNCHANGED kv
=============================================================================
