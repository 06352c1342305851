---------------------------- MODULE Replication ----------------------------
(***************************************************************************)
(* Replication between directory servers: RaftDirectoryReplicator of       *)
(* adrian-raft, whose log is read by get_changes with the up-to-dateness   *)
(* vector of the one who asks, and extended by apply_changes; and          *)
(* resolve_conflict of adrian-repl-core, which decides between two writes  *)
(* of one value.                                                           *)
(*                                                                         *)
(* Every server writes, serves its log and pulls from any other, one pull  *)
(* at a time; the batch may be applied long after it was read, or be lost. *)
(***************************************************************************)
EXTENDS Naturals, Sequences, FiniteSets

CONSTANTS
  Node,           \* the invocation IDs of the servers
  Writes,         \* the writes of one value that may happen: metadata records
  MaxWrites,      \* bound: the log that a server still writes to is shorter
  MaxPulled,      \* bound: entries in a log
  None

VARIABLES
  log,            \* RaftNodeState.log, of every server
  commit_index,
  batch,          \* per server: the payload of its pull, None without one
  seen,           \* per server: the writes of the value that it received
  value           \* per server: the metadata of the value it holds

replVars == <<log, commit_index, batch, seen, value>>

LastLogIndex(s) == IF s = <<>> THEN 0 ELSE s[Len(s)].index

-----------------------------------------------------------------------------
(* The highest index of each origin in a log. *)
Highest(S) == CHOOSE k \in S : \A m \in S : k >= m

SynthesizeUtdVector(s) ==
  [o \in {s[i].origin : i \in DOMAIN s} |-> Highest({s[i].index : i \in {j \in DOMAIN s : s[j].origin = o}})]

(* Mutant: an entry exactly at the cursor is sent again. *)
BeyondInclusive(entry, cursor) ==
  entry.index >= (IF entry.origin \in DOMAIN cursor THEN cursor[entry.origin] ELSE 0)

(* What the cursor has not seen: an unknown origin starts at zero. *)
Beyond(entry, cursor) ==
  entry.index > (IF entry.origin \in DOMAIN cursor THEN cursor[entry.origin] ELSE 0)

GetChanges(n, cursor) ==
  LET tail[i \in 0 .. Len(log[n])] ==
        IF i = 0 THEN <<>>
        ELSE IF Beyond(log[n][i], cursor) THEN Append(tail[i - 1], log[n][i].payload) ELSE tail[i - 1]
  IN [operations |-> tail[Len(log[n])], origin |-> n, highest_usn |-> LastLogIndex(log[n])]

(* Every operation gets the next index of the log it goes to, the origin of
   the batch, and is committed. *)
ApplyChanges(n, b) ==
  LET start == LastLogIndex(log[n])
      entry(i) == [index |-> start + i, origin |-> b.origin, payload |-> b.operations[i]]
      new == log[n] \o [i \in DOMAIN b.operations |-> entry(i)]
  IN /\ log' = [log EXCEPT ![n] = new]
     /\ commit_index' = [commit_index EXCEPT ![n] = LastLogIndex(new)]

-----------------------------------------------------------------------------
ReplInit ==
  /\ log = [n \in Node |-> <<>>]
  /\ commit_index = [n \in Node |-> 0]
  /\ batch = [r \in Node |-> None]
  /\ seen = [r \in Node |-> {}]
  /\ value = [r \in Node |-> None]

(* A local write is a batch of the server's own: its operation is known by the
   one who wrote it and the place it got. *)
Write(o) ==
  /\ Len(log[o]) < MaxWrites
  /\ ApplyChanges(o, [operations |-> <<<<o, Len(log[o]) + 1>>>>, origin |-> o])
  /\ UNCHANGED <<batch, seen, value>>

Pull(r, o) ==
  /\ r # o
  /\ batch[r] = None
  /\ LET b == GetChanges(o, SynthesizeUtdVector(log[r]))
     IN /\ Len(log[r]) + Len(b.operations) <= MaxPulled
        /\ batch' = [batch EXCEPT ![r] = b]
  /\ UNCHANGED <<log, commit_index, seen, value>>

Deliver(r) ==
  /\ batch[r] # None
  /\ ApplyChanges(r, batch[r])
  /\ batch' = [batch EXCEPT ![r] = None]
  /\ UNCHANGED <<seen, value>>

Lose(r) ==
  /\ batch[r] # None
  /\ batch' = [batch EXCEPT ![r] = None]
  /\ UNCHANGED <<log, commit_index, seen, value>>

-----------------------------------------------------------------------------
(* Mutant: a write of the same version and time replaces the local one. *)
ResolveLatest(local, incoming) ==
  incoming.version > local.version
  \/ (incoming.version = local.version /\ incoming.timestamp >= local.timestamp)

(* resolve_conflict, TRUE for IncomingWins: version, time, USN, invocation
   ID; the local value wins a tie. *)
ResolveConflict(local, incoming) ==
  IF incoming.version # local.version THEN incoming.version > local.version
  ELSE IF incoming.timestamp # local.timestamp THEN incoming.timestamp > local.timestamp
  ELSE IF incoming.usn # local.usn THEN incoming.usn > local.usn
  ELSE incoming.origin > local.origin

(* A write of the value reaches a server, perhaps again. *)
ReceiveWrite(r, w) ==
  /\ seen' = [seen EXCEPT ![r] = @ \cup {w}]
  /\ value' = [value EXCEPT ![r] = IF @ = None THEN w
                                   ELSE IF ResolveConflict(@, w) THEN w ELSE @]
  /\ UNCHANGED <<log, commit_index, batch>>

LogNext ==
  \E n \in Node : Write(n) \/ Deliver(n) \/ Lose(n) \/ \E o \in Node : Pull(n, o)

ValueNext == \E r \in Node, w \in Writes : ReceiveWrite(r, w)

LogSpec == ReplInit /\ [][LogNext]_replVars

ValueSpec == ReplInit /\ [][ValueNext]_replVars

-----------------------------------------------------------------------------
(* The server a has not been sent its own operations by another. *)
NoneCameBack(a) ==
  \A i \in DOMAIN log[a] : log[a][i].payload[1] = a => log[a][i].origin = a

(* get_changes and apply_changes: whatever other servers it pulls from and *)
(* writes itself, and whatever batches it loses, a server receives from a  *)
(* the operations of a in their order and none of them twice, as long as   *)
(* none of them came back to a; a server whose log has nothing else has    *)
(* all of them, up to the last that it received.  (An operation that comes *)
(* from another server than its author may come again with every pull.)    *)
PullsInOrder ==
  \A r, a \in Node : NoneCameBack(a) =>
    LET own == {i \in DOMAIN log[r] : log[r][i].origin = a /\ log[r][i].payload[1] = a}
    IN /\ \A i, j \in own : i < j => log[r][i].payload[2] < log[r][j].payload[2]
       /\ own = DOMAIN log[r] => \A i \in own : log[r][i].payload[2] = i

(* resolve_conflict: two servers that received the same writes of a value, *)
(* in whatever order and however often, hold the same one.                 *)
ReplicasConverge ==
  \A r, s \in Node : seen[r] = seen[s] => value[r] = value[s]
=============================================================================
