------------------------------- MODULE Raft --------------------------------
(***************************************************************************)
(* adrian-raft: the RPC handlers of ManualRaftReplicator (append_entries,  *)
(* vote, install_snapshot), one replicator per node.  A handler holds the  *)
(* write lock of the node for the whole call, so a call is one step.       *)
(*                                                                         *)
(* The crate has no driver: elections, log propagation and the count of    *)
(* acknowledgements belong to whoever calls the handlers.  The driver here *)
(* is external.  It is the driver of the Raft paper that the handlers cite *)
(* and it acts on a node through the handlers only.  Its messages may be   *)
(* lost, repeated, delayed and reordered: what a candidate or a leader of  *)
(* a term has ever been able to send can be delivered at any later time.   *)
(***************************************************************************)
EXTENDS RaftState

nodeVars == <<currentTerm, votedFor, leaderId, log, commitIndex>>
voteVars == <<candidacy, granted, leaders>>
copyVars == <<leaderLog, leaderCommit, match>>
vars == <<nodeVars, voteVars, copyVars>>

-----------------------------------------------------------------------------
(* Vec::retain: the entries below an index, in their order.                *)
TruncateFrom(lg, from) ==
  LET kept[i \in 0 .. Len(lg)] ==
        IF i = 0 THEN <<>>
        ELSE IF lg[i].index < from THEN Append(kept[i - 1], lg[i]) ELSE kept[i - 1]
  IN  kept[Len(lg)]

(* A higher term makes the node a follower that has not voted.             *)
MutVoteForgotten(n, t) == Nil
VoteIn(n, t) == IF t > currentTerm[n] THEN Nil ELSE votedFor[n]

(* One round of the loop of append_entries: an entry that is there is left *)
(* alone, a conflicting one is replaced and what follows it removed.       *)
MutTruncateAlways(lg, e) == Append(TruncateFrom(lg, e.index), e)
Absorb(lg, e) ==
  CASE TermAt(lg, e.index) = Nil -> Append(lg, e)
    [] TermAt(lg, e.index) = e.term -> lg
    [] OTHER -> Append(TruncateFrom(lg, e.index), e)

(* The loop.                                                               *)
AbsorbAll(lg, entries) ==
  LET after[i \in 0 .. Len(entries)] ==
        IF i = 0 THEN lg ELSE Absorb(after[i - 1], entries[i])
  IN  after[Len(entries)]

(* The log has the entry that precedes the ones sent.                      *)
MutPrevIndexOnly(lg, prev, prevTerm) == TermAt(lg, prev) # Nil
MutNoPrevCheck(lg, prev, prevTerm) == TRUE
PrevMatches(lg, prev, prevTerm) == TermAt(lg, prev) = prevTerm

(* append_entries.  A stale term is refused, and nothing changes.          *)
AppendEntries(n, t, leader, prev, prevTerm, entries, commit) ==
  LET accepted == PrevMatches(log[n], prev, prevTerm)
      newLog == AbsorbAll(log[n], entries)
      last == LastLogIndex(newLog)
  IN  /\ t >= currentTerm[n]
      /\ currentTerm' = [currentTerm EXCEPT ![n] = t]
      /\ votedFor' = [votedFor EXCEPT ![n] = VoteIn(n, t)]
      /\ leaderId' = [leaderId EXCEPT ![n] = leader]
      /\ log' = IF accepted THEN [log EXCEPT ![n] = newLog] ELSE log
      /\ commitIndex' = IF accepted /\ commit > commitIndex[n]
                          THEN [commitIndex EXCEPT ![n] = IF commit < last THEN commit ELSE last]
                          ELSE commitIndex
      /\ match' = IF accepted /\ match[t][n] < prev + Len(entries)
                    THEN [match EXCEPT ![t][n] = prev + Len(entries)] ELSE match

Grants(n, t, candidate, lastIndex, lastTerm) ==
  VoteIn(n, t) \in {Nil, candidate} /\ UpToDate(log[n], lastIndex, lastTerm)

(* vote.  A stale term is refused, and nothing changes.                    *)
Vote(n, t, candidate, lastIndex, lastTerm) ==
  LET grant == Grants(n, t, candidate, lastIndex, lastTerm)
  IN  /\ t >= currentTerm[n]
      /\ currentTerm' = [currentTerm EXCEPT ![n] = t]
      /\ votedFor' = [votedFor EXCEPT ![n] = IF grant THEN candidate ELSE VoteIn(n, t)]
      /\ granted' = IF grant THEN [granted EXCEPT ![t][candidate] = @ \cup {n}] ELSE granted
      /\ UNCHANGED <<leaderId, log, commitIndex>>

(* install_snapshot: the snapshot is discarded, the term is taken.         *)
InstallSnapshot(n, t) ==
  /\ t >= currentTerm[n]
  /\ currentTerm' = [currentTerm EXCEPT ![n] = t]
  /\ votedFor' = [votedFor EXCEPT ![n] = VoteIn(n, t)]
  /\ UNCHANGED <<leaderId, log, commitIndex>>

-----------------------------------------------------------------------------
(* The driver.                                                             *)

Leads(n) == currentTerm[n] \in Term /\ n \in leaders[currentTerm[n]]

(* A node campaigns: it votes for itself in the next term.                 *)
StartElection(n) ==
  LET t == currentTerm[n] + 1
  IN  /\ t \in Term /\ ~Leads(n)
      /\ Vote(n, t, n, LastLogIndex(log[n]), LastLogTerm(log[n]))
      /\ candidacy' = [candidacy EXCEPT ![t][n] =
                         [index |-> LastLogIndex(log[n]), term |-> LastLogTerm(log[n])]]
      /\ UNCHANGED <<leaders, copyVars>>

RequestVote(n, t, c) ==
  /\ n # c /\ candidacy[t][c] # Nil
  /\ Vote(n, t, c, candidacy[t][c].index, candidacy[t][c].term)
  /\ UNCHANGED <<candidacy, leaders, copyVars>>

BecomeLeader(n) ==
  LET t == currentTerm[n]
  IN  /\ t \in Term /\ ~Leads(n)
      /\ \E q \in Quorum : q \subseteq granted[t][n]
      /\ leaders' = [leaders EXCEPT ![t] = @ \cup {n}]
      /\ leaderLog' = [leaderLog EXCEPT ![t] = log[n]]
      /\ match' = [match EXCEPT ![t][n] = Len(log[n])]
      /\ UNCHANGED <<nodeVars, candidacy, granted, leaderCommit>>

(* The leader appends an entry to its own log.                             *)
ClientRequest(n) ==
  LET t == currentTerm[n]
      e == Entry(t, LastLogIndex(log[n]) + 1, n)
  IN  /\ Leads(n) /\ Len(log[n]) < MaxLog
      /\ AppendEntries(n, t, n, LastLogIndex(log[n]), LastLogTerm(log[n]), <<e>>, leaderCommit[t])
      /\ leaderLog' = [leaderLog EXCEPT ![t] = Append(@, e)]
      /\ UNCHANGED <<voteVars, leaderCommit>>

(* A request of the leader of term t reaches node n: any stretch of its    *)
(* log, with a commit index it has had.                                    *)
Replicate(n, t, leader, prev, last, commit) ==
  /\ leader \in leaders[t] /\ n # leader
  /\ AppendEntries(n, t, leader, prev, IF prev = 0 THEN 0 ELSE leaderLog[t][prev].term,
                   SubSeq(leaderLog[t], prev + 1, last), commit)
  /\ UNCHANGED <<voteVars, leaderLog, leaderCommit>>

(* The leader commits an entry of its own term that a quorum has           *)
(* acknowledged, and records it on its own node.                           *)
AdvanceCommit(n, index) ==
  LET t == currentTerm[n]
  IN  /\ Leads(n)
      /\ index \in leaderCommit[t] + 1 .. Len(leaderLog[t])
      /\ leaderLog[t][index].term = t
      /\ \E q \in Quorum : \A m \in q : match[t][m] >= index
      /\ AppendEntries(n, t, n, LastLogIndex(log[n]), LastLogTerm(log[n]), <<>>, index)
      /\ leaderCommit' = [leaderCommit EXCEPT ![t] = index]
      /\ UNCHANGED <<voteVars, leaderLog>>

SendSnapshot(n, t) ==
  /\ leaders[t] \ {n} # {}
  /\ InstallSnapshot(n, t)
  /\ UNCHANGED <<voteVars, copyVars>>

Init ==
  /\ currentTerm = [n \in Node |-> 0]
  /\ votedFor = [n \in Node |-> Nil]
  /\ leaderId = [n \in Node |-> Nil]
  /\ log = [n \in Node |-> <<>>]
  /\ commitIndex = [n \in Node |-> 0]
  /\ candidacy = [t \in Term |-> [n \in Node |-> Nil]]
  /\ granted = [t \in Term |-> [n \in Node |-> {}]]
  /\ leaders = [t \in Term |-> {}]
  /\ leaderLog = [t \in Term |-> <<>>]
  /\ leaderCommit = [t \in Term |-> 0]
  /\ match = [t \in Term |-> [n \in Node |-> 0]]

Next ==
  \E n \in Node :
    \/ StartElection(n)
    \/ \E t \in Term, c \in Node : RequestVote(n, t, c)
    \/ BecomeLeader(n)
    \/ ClientRequest(n)
    \/ \E t \in Term, leader \in Node : \E last \in 0 .. Len(leaderLog[t]) :
         \E prev \in 0 .. last, commit \in 0 .. leaderCommit[t] :
           Replicate(n, t, leader, prev, last, commit)
    \/ \E index \in 1 .. MaxLog : AdvanceCommit(n, index)
    \/ \E t \in Term : SendSnapshot(n, t)

Spec == Init /\ [][Next]_vars

-----------------------------------------------------------------------------
(* Types; and the entries of a log have consecutive indices, which         *)
(* append_entries takes for granted.                                       *)
TypeOK ==
  /\ currentTerm \in [Node -> 0 .. MaxTerm]
  /\ votedFor \in [Node -> Node \cup {Nil}]
  /\ leaderId \in [Node -> Node \cup {Nil}]
  /\ \A n \in Node : \A i \in 1 .. Len(log[n]) :
       /\ log[n][i].index = i /\ log[n][i].term \in Term /\ log[n][i].origin \in Node
  /\ commitIndex \in [Node -> 0 .. MaxLog]

(* vote elects at most one leader of a term: a node does not vote for two  *)
(* candidates of one term, in whatever order the requests reach it, and    *)
(* forgets its vote only with the term.                                    *)
ElectionSafety ==
  \A t \in Term : \A n, m \in leaders[t] : n = m

(* Two logs that have an entry of the same index and term are equal up to  *)
(* that entry: what the prev_log check and the truncation are for.         *)
LogMatching ==
  \A n, m \in Node : \A i \in 1 .. Len(log[n]) :
    i <= Len(log[m]) /\ log[n][i].term = log[m][i].term =>
      SubSeq(log[n], 1, i) = SubSeq(log[m], 1, i)

(* The log has the first k entries of the other.                           *)
HasFirst(lg, other, k) == k <= Len(lg) /\ SubSeq(lg, 1, k) = SubSeq(other, 1, k)

(* A late or repeated request of a leader removes nothing that the node    *)
(* has acknowledged to it.                                                 *)
AcknowledgedKept ==
  \A n \in Node :
    currentTerm[n] \in Term =>
      LET t == currentTerm[n]
      IN  HasFirst(log[n], leaderLog[t], match[t][n])

(* What a quorum has acknowledged to the leader of a term is in the log of *)
(* every later leader: the up-to-date check of vote.                       *)
LeaderCompleteness ==
  \A t1, t2 \in Term :
    t1 < t2 /\ leaders[t2] # {} =>
      HasFirst(leaderLog[t2], leaderLog[t1], leaderCommit[t1])

(* commit_index is "the highest log index known to be committed": what a   *)
(* node has up to there, some leader has committed.                        *)
KnownCommitted ==
  \A n \in Node :
    commitIndex[n] > 0 =>
      \E t \in Term : /\ commitIndex[n] <= leaderCommit[t]
                      /\ HasFirst(leaderLog[t], log[n], commitIndex[n])
=============================================================================
