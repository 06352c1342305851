----------------------------- MODULE RaftState -----------------------------
(***************************************************************************)
(* adrian-raft: the state of ManualRaftReplicator, one RaftNodeState per   *)
(* node, what its driver keeps (see Raft), and the questions the handlers  *)
(* ask of a log.                                                           *)
(***************************************************************************)
EXTENDS Integers, Sequences

CONSTANTS
  Node,
  Quorum,    \* the sets of nodes that elect a leader or commit an entry
  Nil,       \* no candidate, no leader, no such entry
  MaxTerm,   \* bound: no election starts beyond this term
  MaxLog     \* bound: a leader whose log has this length appends nothing

VARIABLES
  currentTerm, votedFor, leaderId,   \* fields of each node's RaftNodeState
  log, commitIndex,
  candidacy,   \* driver: the log coordinates a node campaigns with in a term
  granted,     \* driver: who has granted a candidate the vote of a term
  leaders,     \* driver: who has won a term
  leaderLog,   \* driver: the log of the leader of a term, as long as it led
  leaderCommit,\* driver: how much of it is committed, by acknowledgements
  match        \* driver: how much of it each node has acknowledged

Term == 1 .. MaxTerm

ASSUME RaftAssumption ==
  /\ Nil \notin Node /\ Nil \notin Nat /\ Nil \notin [index : Nat, term : Nat]
  /\ MaxTerm \in Nat /\ MaxLog \in Nat
  /\ Quorum \subseteq SUBSET Node
  /\ \A q1, q2 \in Quorum : q1 \cap q2 # {}

-----------------------------------------------------------------------------
(* RaftNodeState.  An entry carries its index; the code finds it by that   *)
(* index and not by its place.  Index 0 is the implicit genesis entry.     *)
Entry(term, index, origin) == [term |-> term, index |-> index, origin |-> origin]

LastLogIndex(lg) == IF lg = <<>> THEN 0 ELSE lg[Len(lg)].index
LastLogTerm(lg) == IF lg = <<>> THEN 0 ELSE lg[Len(lg)].term

TermAt(lg, index) ==
  LET hits == {i \in 1 .. Len(lg) : lg[i].index = index}
      first == CHOOSE i \in hits : \A j \in hits : i <= j
  IN  IF index = 0 THEN 0 ELSE IF hits = {} THEN Nil ELSE lg[first].term

(* The candidate's log is at least as up to date as the receiver's.        *)
MutAlwaysUpToDate(lg, lastIndex, lastTerm) == TRUE
UpToDate(lg, lastIndex, lastTerm) ==
  IF lastTerm # LastLogTerm(lg) THEN lastTerm > LastLogTerm(lg)
  ELSE lastIndex >= LastLogIndex(lg)
=============================================================================
