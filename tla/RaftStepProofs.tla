--------------------------- MODULE RaftStepProofs ---------------------------
(***************************************************************************)
(* Proofs about Raft: the invariant of the votes and of the logs, and the  *)
(* kinds of step that preserve it, for any nodes, quorums that intersect,  *)
(* terms and log lengths.  RaftProofs shows that the handlers take only    *)
(* steps of these kinds.                                                   *)
(*                                                                         *)
(* The invariant of the logs says where entries come from: an entry of a   *)
(* term is in the log of that term's leader, at the same place and after   *)
(* the same entries.  Completeness needs what may still be committed: an   *)
(* entry of a leader's own term that a quorum has acknowledged, or may     *)
(* acknowledge because its nodes have not gone beyond that term.           *)
(***************************************************************************)
EXTENDS RaftState, TLAPS

(* Types of the variables that the votes depend on.                        *)
VoteTypes ==
  /\ currentTerm \in [Node -> Nat]
  /\ votedFor \in [Node -> Node \cup {Nil}]
  /\ granted \in [Term -> [Node -> SUBSET Node]]
  /\ leaders \in [Term -> SUBSET Node]

(* A vote that was granted belongs to a term the node has reached, and is  *)
(* the one on record while that term lasts.                                *)
VotesOnRecord ==
  \A t \in Term, c, n \in Node :
    n \in granted[t][c] =>
      t <= currentTerm[n] /\ (t = currentTerm[n] => votedFor[n] = c)

(* A node grants one candidate the vote of a term.                         *)
OneVote ==
  \A t \in Term, c, d, n \in Node :
    n \in granted[t][c] /\ n \in granted[t][d] => c = d

(* A leader has the votes of a quorum.                                     *)
LeadersElected ==
  \A t \in Term : \A c \in leaders[t] : \E q \in Quorum : q \subseteq granted[t][c]

VoteInv == VoteTypes /\ VotesOnRecord /\ OneVote /\ LeadersElected

(* Two quorums of votes share a node, which has voted once.                *)
LEMMA VoteInvImplies == VoteInv => \A t \in Term : \A n, m \in leaders[t] : n = m
<1> SUFFICES ASSUME VoteInv, NEW t \in Term, NEW n \in leaders[t], NEW m \in leaders[t]
             PROVE  n = m
  BY Zenon
<1>1. n \in Node /\ m \in Node
  BY Zenon DEF VoteInv, VoteTypes
<1>2. PICK q \in Quorum : q \subseteq granted[t][n]
  BY Zenon DEF VoteInv, LeadersElected
<1>3. PICK r \in Quorum : r \subseteq granted[t][m]
  BY Zenon DEF VoteInv, LeadersElected
<1>4. PICK x : x \in q \cap r
  BY RaftAssumption
<1>5. x \in Node
  BY <1>4, RaftAssumption, Zenon
<1> QED BY <1>1, <1>2, <1>3, <1>4, <1>5, Zenon DEF VoteInv, OneVote
-----------------------------------------------------------------------------
Entries == [term : Term, index : Nat, origin : Node]

(* The entries of a log are numbered from 1, and their terms do not fall.  *)
IsLog(lg) ==
  /\ lg \in Seq(Entries)
  /\ \A i \in 1 .. Len(lg) : lg[i].index = i
  /\ \A i, j \in 1 .. Len(lg) : i <= j => lg[i].term <= lg[j].term

(* Two logs have the same first k entries.                                 *)
Agree(a, b, k) == k <= Len(a) /\ k <= Len(b) /\ \A i \in 1 .. k : a[i] = b[i]

LogTypes ==
  /\ VoteInv
  /\ \A n \in Node : currentTerm[n] <= MaxTerm
  /\ leaderId \in [Node -> Node \cup {Nil}]
  /\ commitIndex \in [Node -> 0 .. MaxLog]
  /\ log \in [Node -> Seq(Entries)]
  /\ \A n \in Node : IsLog(log[n]) /\ Len(log[n]) <= MaxLog
  /\ leaderLog \in [Term -> Seq(Entries)]
  /\ \A t \in Term : IsLog(leaderLog[t]) /\ Len(leaderLog[t]) <= MaxLog
  /\ leaderCommit \in [Term -> Nat]
  /\ match \in [Term -> [Node -> Nat]]
  /\ candidacy \in [Term -> [Node -> [index : Nat, term : Nat] \cup {Nil}]]

(* The terms of entries, and what a term without a leader does not have.   *)
TermInv ==
  /\ \A n \in Node : \A i \in 1 .. Len(log[n]) : log[n][i].term <= currentTerm[n]
  /\ \A t \in Term : \A i \in 1 .. Len(leaderLog[t]) : leaderLog[t][i].term <= t
  /\ \A t \in Term : leaders[t] = {} => Len(leaderLog[t]) = 0
  /\ \A t \in Term, n \in Node :
       /\ n \in leaders[t] => t <= currentTerm[n]
       /\ n \in leaders[t] /\ t = currentTerm[n] => log[n] = leaderLog[t]
       /\ match[t][n] <= Len(leaderLog[t])
       /\ match[t][n] > 0 => t <= currentTerm[n]

(* An entry of a term is in the log of its leader, at the same place and   *)
(* after the same entries.                                                 *)
FromLeader ==
  /\ \A n \in Node : \A i \in 1 .. Len(log[n]) : Agree(log[n], leaderLog[log[n][i].term], i)
  /\ \A t \in Term : \A i \in 1 .. Len(leaderLog[t]) :
       Agree(leaderLog[t], leaderLog[leaderLog[t][i].term], i)

(* What a node has acknowledged to the leader of its term is in its log.   *)
AckedInv ==
  \A n \in Node, t \in Term :
    t = currentTerm[n] => Agree(leaderLog[t], log[n], match[t][n])

(* A candidate campaigns with the end of its log, which stays as it is     *)
(* until somebody wins the term.                                           *)
CandidateInv ==
  \A t \in Term, c \in Node :
    /\ granted[t][c] # {} => candidacy[t][c] # Nil
    /\ candidacy[t][c] # Nil =>
         /\ t <= currentTerm[c]
         /\ candidacy[t][c].term < t
         /\ t = currentTerm[c] /\ leaders[t] = {} =>
              /\ candidacy[t][c].index = LastLogIndex(log[c])
              /\ candidacy[t][c].term = LastLogTerm(log[c])

(* Entry k of the log of t's leader, one of its own term, has or may still *)
(* get the acknowledgements of a quorum.                                   *)
Open(t, k) ==
  /\ k \in 1 .. Len(leaderLog[t]) /\ leaderLog[t][k].term = t
  /\ \E q \in Quorum : \A m \in q : match[t][m] >= k \/ currentTerm[m] <= t

(* A node keeps what it has acknowledged while it may be committed, asks   *)
(* it of the candidates it votes for, and so every later leader has it.    *)
OpenInv ==
  \A t \in Term : \A k \in 1 .. Len(leaderLog[t]) :
    Open(t, k) =>
      /\ \A m \in Node : match[t][m] >= k => Agree(leaderLog[t], log[m], k)
      /\ \A u \in Term, c, m \in Node :
           t < u /\ m \in granted[u][c] /\ match[t][m] >= k =>
             \/ candidacy[u][c].term > t
             \/ candidacy[u][c].term = t /\ candidacy[u][c].index >= k
      /\ \A u \in Term : t < u /\ leaders[u] # {} => Agree(leaderLog[t], leaderLog[u], k)

(* A committed entry is of the leader's term and a quorum has it.          *)
CommitInv ==
  \A t \in Term :
    leaderCommit[t] > 0 =>
      /\ leaderCommit[t] <= Len(leaderLog[t]) /\ leaderLog[t][leaderCommit[t]].term = t
      /\ \E q \in Quorum : \A m \in q : match[t][m] >= leaderCommit[t]

LogInv ==
  /\ LogTypes
  /\ TermInv
  /\ FromLeader
  /\ AckedInv
  /\ CandidateInv
  /\ OpenInv
  /\ CommitInv

-----------------------------------------------------------------------------
(* Logs and types.                                                         *)

(* term_at finds the entry at its place: the indices have no gap.          *)
LEMMA TermAtFacts ==
  ASSUME NEW lg, IsLog(lg), NEW k \in Nat
  PROVE  TermAt(lg, k) = IF k = 0 THEN 0 ELSE IF k <= Len(lg) THEN lg[k].term ELSE Nil
<1> DEFINE I == {i \in 1 .. Len(lg) : lg[i].index = k}
<1>1. Len(lg) \in Nat /\ \A i \in 1 .. Len(lg) : lg[i].index = i
  BY DEF IsLog
<1>2. CASE k \in 1 .. Len(lg)
  <2>1. I = {k}
    BY <1>1, <1>2, Zenon
  <2>2. (CHOOSE x \in I : \A y \in I : x <= y) = k
    BY <1>2, <2>1
  <2> QED BY <1>1, <1>2, <2>1, <2>2 DEF TermAt
<1>3. CASE k \notin 1 .. Len(lg)
  <2>1. I = {}
    BY <1>1, <1>3, Zenon
  <2> QED BY <1>1, <1>3, <2>1 DEF TermAt
<1> QED BY <1>2, <1>3, Zenon

(* The end of a log.                                                       *)
LEMMA LastFacts ==
  ASSUME NEW lg, IsLog(lg)
  PROVE  /\ LastLogIndex(lg) = Len(lg)
         /\ LastLogTerm(lg) = IF Len(lg) = 0 THEN 0 ELSE lg[Len(lg)].term
         /\ \A i \in 1 .. Len(lg) : lg[i].term <= LastLogTerm(lg)
         /\ TermAt(lg, Len(lg)) = LastLogTerm(lg)
<1>1. /\ lg \in Seq(Entries) /\ Len(lg) \in Nat
      /\ \A i \in 1 .. Len(lg) : lg[i].index = i
      /\ \A i, j \in 1 .. Len(lg) : i <= j => lg[i].term <= lg[j].term
  BY DEF IsLog
<1>2. lg = <<>> <=> Len(lg) = 0
  BY <1>1
<1>3. LastLogIndex(lg) = Len(lg)
  BY <1>1, <1>2 DEF LastLogIndex
<1>4. LastLogTerm(lg) = IF Len(lg) = 0 THEN 0 ELSE lg[Len(lg)].term
  BY <1>2, Zenon DEF LastLogTerm
<1>5. \A i \in 1 .. Len(lg) : lg[i].term <= LastLogTerm(lg)
  BY <1>1, <1>4
<1>6. TermAt(lg, Len(lg)) = LastLogTerm(lg)
  BY <1>1, <1>4, TermAtFacts
<1> QED BY <1>3, <1>4, <1>5, <1>6, Zenon

(* What the types give about one node and one term.                        *)
LEMMA TypeFacts ==
  ASSUME LogTypes, NEW n \in Node, NEW t \in Term
  PROVE  /\ IsLog(log[n]) /\ Len(log[n]) \in Nat /\ Len(log[n]) <= MaxLog
         /\ \A i \in 1 .. Len(log[n]) : log[n][i] \in Entries /\ log[n][i].term \in Term
         /\ IsLog(leaderLog[t]) /\ Len(leaderLog[t]) \in Nat /\ Len(leaderLog[t]) <= MaxLog
         /\ \A i \in 1 .. Len(leaderLog[t]) :
              leaderLog[t][i] \in Entries /\ leaderLog[t][i].term \in Term
         /\ currentTerm[n] \in Nat /\ t \in Nat /\ t >= 1
         /\ match[t][n] \in Nat /\ leaderCommit[t] \in Nat
<1>1. IsLog(log[n]) /\ IsLog(leaderLog[t]) /\ Len(log[n]) <= MaxLog /\ Len(leaderLog[t]) <= MaxLog
  BY Zenon DEF LogTypes
<1>2. \A x \in Entries : x.term \in Term
  BY Zenon DEF Entries
<1>3. /\ currentTerm[n] \in Nat /\ t \in Nat /\ t >= 1
      /\ match[t][n] \in Nat /\ leaderCommit[t] \in Nat
  BY RaftAssumption DEF LogTypes, VoteInv, VoteTypes, Term
<1>4. /\ Len(log[n]) \in Nat /\ \A i \in 1 .. Len(log[n]) : log[n][i] \in Entries
      /\ Len(leaderLog[t]) \in Nat /\ \A i \in 1 .. Len(leaderLog[t]) : leaderLog[t][i] \in Entries
  BY <1>1 DEF IsLog
<1> QED BY <1>1, <1>2, <1>3, <1>4, Zenon

(* A node's log matches the log of a leader: an entry that both have at a  *)
(* place is the entry of a third leader, that of its term.                 *)
LEMMA Matching ==
  ASSUME LogTypes, FromLeader, NEW n \in Node, NEW t \in Term, NEW i \in 1 .. Len(leaderLog[t]),
         i <= Len(log[n]), log[n][i].term = leaderLog[t][i].term
  PROVE  Agree(log[n], leaderLog[t], i)
<1> DEFINE u == log[n][i].term
<1>1. Len(log[n]) \in Nat /\ Len(leaderLog[t]) \in Nat /\ i \in 1 .. Len(log[n])
  BY TypeFacts
<1>2. Agree(log[n], leaderLog[u], i) /\ Agree(leaderLog[t], leaderLog[u], i)
  BY <1>1, Zenon DEF FromLeader
<1> HIDE DEF u
<1> QED BY <1>1, <1>2, Zenon DEF Agree

-----------------------------------------------------------------------------
(* The effect of a step on the logs.                                       *)

(* append_entries on node n for the leader of term t, vote when it refuses *)
(* and install_snapshot: the term is taken.  Entries up to last may have   *)
(* been accepted, and then new is the log they leave.                      *)
Receives(n, t, new) ==
  /\ t >= currentTerm[n] /\ currentTerm' = [currentTerm EXCEPT ![n] = t]
  /\ UNCHANGED <<candidacy, granted, leaders, leaderLog>>
  /\ IsLog(new) /\ log' = [log EXCEPT ![n] = new]
  /\ \/ new = log[n] /\ match' = match
     \/ \E last \in 0 .. Len(leaderLog[t]) :
          /\ leaders[t] # {} /\ Agree(leaderLog[t], new, last)
          /\ \/ new = log[n]
             \/ Len(new) = last /\ ~Agree(log[n], leaderLog[t], last)
          /\ \/ match' = match
             \/ match[t][n] < last /\ match' = [match EXCEPT ![t][n] = last]

(* The leader's name and the commit index that a call leaves.              *)
NodeTypes == leaderId \in [Node -> Node \cup {Nil}] /\ commitIndex \in [Node -> 0 .. MaxLog]

(* What Receives changes, pointwise.  In particular a log keeps what it    *)
(* shares with the leader's: a late request removes none of it.            *)
LEMMA ReceivesFacts ==
  ASSUME LogTypes, NEW n \in Node, NEW t \in Term, NEW new, Receives(n, t, new)
  PROVE  /\ t >= currentTerm[n]
         /\ \A m \in Node : /\ currentTerm'[m] = IF m = n THEN t ELSE currentTerm[m]
                            /\ currentTerm'[m] >= currentTerm[m]
                            /\ log'[m] = IF m = n THEN new ELSE log[m]
         /\ IsLog(new) /\ Len(new) \in Nat /\ Len(new) <= MaxLog
         /\ match' \in [Term -> [Node -> Nat]]
         /\ \A u \in Term, m \in Node : match'[u][m] >= match[u][m]
         /\ \A u \in Term, m \in Node : u # t \/ m # n => match'[u][m] = match[u][m]
         /\ match'[t][n] # match[t][n] => Agree(leaderLog[t], new, match'[t][n])
         /\ \A k \in Nat : Agree(leaderLog[t], log[n], k) => Agree(leaderLog[t], new, k)
         /\ new # log[n] =>
              /\ leaders[t] # {}
              /\ \E last \in 0 .. Len(leaderLog[t]) :
                   /\ ~Agree(log[n], leaderLog[t], last)
                   /\ Len(new) = last /\ \A i \in 1 .. last : new[i] = leaderLog[t][i]
<1> DEFINE ll == leaderLog[t]
           lg == log[n]
<1>1. /\ Len(lg) \in Nat /\ Len(lg) <= MaxLog
      /\ IsLog(ll) /\ Len(ll) \in Nat /\ Len(ll) <= MaxLog
      /\ currentTerm[n] \in Nat /\ t \in Nat
  BY TypeFacts, Zenon
<1>2. /\ currentTerm \in [Node -> Nat] /\ log \in [Node -> Seq(Entries)]
      /\ match \in [Term -> [Node -> Nat]]
  BY Zenon DEF LogTypes, VoteInv, VoteTypes
<1>3. /\ t >= currentTerm[n] /\ currentTerm' = [currentTerm EXCEPT ![n] = t]
      /\ IsLog(new) /\ log' = [log EXCEPT ![n] = new]
  BY Zenon DEF Receives
<1>4. \A m \in Node : /\ currentTerm'[m] = IF m = n THEN t ELSE currentTerm[m]
                      /\ currentTerm'[m] >= currentTerm[m]
                      /\ log'[m] = IF m = n THEN new ELSE log[m]
  BY <1>1, <1>2, <1>3
<1>5. Len(new) \in Nat
  BY <1>3 DEF IsLog
<1>6. CASE new = lg /\ match' = match
  BY <1>1, <1>2, <1>3, <1>4, <1>5, <1>6
<1>7. CASE ~(new = lg /\ match' = match)
  <2>1. PICK last \in 0 .. Len(ll) :
          /\ leaders[t] # {} /\ Agree(ll, new, last)
          /\ new = lg \/ (Len(new) = last /\ ~Agree(lg, ll, last))
          /\ match' = match \/ (match[t][n] < last /\ match' = [match EXCEPT ![t][n] = last])
    BY <1>7, Zenon DEF Receives
  <2>2. last \in Nat /\ last <= Len(ll)
    BY <1>1
  <2>3. /\ match' \in [Term -> [Node -> Nat]]
        /\ \A u \in Term, m \in Node : match'[u][m] >= match[u][m]
        /\ \A u \in Term, m \in Node : u # t \/ m # n => match'[u][m] = match[u][m]
        /\ match'[t][n] # match[t][n] => match'[t][n] = last
    <3>1. CASE match' = match
      BY <1>2, <3>1
    <3>2. CASE match[t][n] < last /\ match' = [match EXCEPT ![t][n] = last]
      BY <1>2, <2>2, <3>2
    <3> QED BY <2>1, <3>1, <3>2, Zenon
  <2>4. match'[t][n] # match[t][n] => Agree(ll, new, match'[t][n])
    BY <2>1, <2>3, Zenon
  <2>5. CASE new = lg
    <3> HIDE DEF ll, lg
    <3> QED BY <1>1, <1>3, <1>4, <1>5, <2>3, <2>4, <2>5, Zenon DEF ll, lg
  <2>6. CASE Len(new) = last /\ ~Agree(lg, ll, last)
    <3>1. Len(new) = last /\ \A i \in 1 .. last : new[i] = ll[i]
      BY <2>1, <2>6, Zenon DEF Agree
    <3>2. Len(new) <= MaxLog
      BY <1>1, <2>2, <3>1, RaftAssumption
    <3>3. ASSUME NEW k \in Nat, Agree(ll, lg, k) PROVE Agree(ll, new, k)
      <4>1. k <= Len(ll) /\ k <= Len(lg) /\ \A i \in 1 .. k : ll[i] = lg[i]
        BY <3>3, Zenon DEF Agree
      <4>2. k < last
        <5> SUFFICES ASSUME last <= k PROVE FALSE
          BY <2>2
        <5>1. Agree(lg, ll, last)
          BY <1>1, <2>2, <4>1 DEF Agree
        <5> QED BY <2>6, <5>1, Zenon
      <4>3. \A i \in 1 .. k : new[i] = ll[i]
        BY <2>2, <3>1, <4>2
      <4>4. k <= Len(new) /\ k <= Len(ll)
        BY <2>2, <3>1, <4>1, <4>2
      <4> QED BY <4>3, <4>4, Zenon DEF Agree
    <3> HIDE DEF ll, lg
    <3>4. /\ leaders[t] # {}
          /\ \E k \in 0 .. Len(ll) :
               ~Agree(lg, ll, k) /\ Len(new) = k /\ \A i \in 1 .. k : new[i] = ll[i]
      BY <2>1, <2>6, <3>1, Zenon
    <3> QED BY <1>3, <1>4, <1>5, <2>3, <2>4, <3>2, <3>3, <3>4, Zenon DEF ll, lg
  <2> QED BY <2>1, <2>5, <2>6, Zenon
<1> QED BY <1>6, <1>7, Zenon

(* The log a call leaves still comes from the leaders of its entries.      *)
LEMMA ReceivedEntries ==
  ASSUME LogTypes, TermInv, FromLeader, NEW n \in Node, NEW t \in Term, NEW new,
         Receives(n, t, new), NEW i \in 1 .. Len(new)
  PROVE  new[i].term <= t /\ Agree(new, leaderLog[new[i].term], i)
<1>1. /\ Len(leaderLog[t]) \in Nat /\ Len(log[n]) \in Nat /\ currentTerm[n] \in Nat /\ t \in Nat
      /\ \A j \in 1 .. Len(log[n]) : log[n][j].term \in Nat
  BY TypeFacts, Zenon DEF Term
<1>2. /\ t >= currentTerm[n] /\ Len(new) \in Nat
      /\ new # log[n] => \E last \in 0 .. Len(leaderLog[t]) :
                           Len(new) = last /\ \A j \in 1 .. last : new[j] = leaderLog[t][j]
  BY ReceivesFacts
<1>3. CASE new = log[n]
  <2>1. new[i].term <= currentTerm[n]
    BY <1>3, Zenon DEF TermInv
  <2>2. Agree(new, leaderLog[new[i].term], i)
    BY <1>3, Zenon DEF FromLeader
  <2> QED BY <1>1, <1>2, <1>3, <2>1, <2>2
<1>4. CASE new # log[n]
  <2>1. PICK last \in 0 .. Len(leaderLog[t]) :
          Len(new) = last /\ \A j \in 1 .. last : new[j] = leaderLog[t][j]
    BY <1>2, <1>4, Zenon
  <2>2. i \in 1 .. Len(leaderLog[t]) /\ new[i] = leaderLog[t][i] /\ i \in Nat /\ i <= Len(new)
        /\ \A j \in 1 .. i : new[j] = leaderLog[t][j]
    BY <1>1, <2>1
  <2>3. new[i].term <= t
    BY <2>2, Zenon DEF TermInv
  <2>4. Agree(leaderLog[t], leaderLog[new[i].term], i)
    BY <2>2, Zenon DEF FromLeader
  <2>5. Agree(new, leaderLog[new[i].term], i)
    BY <2>2, <2>4, Zenon DEF Agree
  <2> QED BY <2>3, <2>5, Zenon
<1> QED BY <1>3, <1>4, Zenon

(* Receives preserves the types.                                           *)
LEMMA ReceivesTypes ==
  ASSUME LogTypes, VoteInv', NodeTypes', leaderCommit' \in [Term -> Nat],
         NEW n \in Node, NEW t \in Term, NEW new, Receives(n, t, new)
  PROVE  LogTypes'
<1>1. UNCHANGED <<candidacy, leaderLog>> /\ log' = [log EXCEPT ![n] = new]
  BY Zenon DEF Receives
<1>2. \A m \in Node : /\ currentTerm'[m] = IF m = n THEN t ELSE currentTerm[m]
                      /\ log'[m] = IF m = n THEN new ELSE log[m]
  BY ReceivesFacts
<1>3. IsLog(new) /\ Len(new) <= MaxLog /\ match' \in [Term -> [Node -> Nat]]
  BY ReceivesFacts, Zenon
<1>4. t <= MaxTerm /\ \A m \in Node : currentTerm[m] <= MaxTerm
  BY DEF Term, LogTypes
<1>5. \A m \in Node : currentTerm'[m] <= MaxTerm
  BY <1>2, <1>4, Zenon
<1>6. log' \in [Node -> Seq(Entries)] /\ \A m \in Node : IsLog(log'[m]) /\ Len(log'[m]) <= MaxLog
  <2>1. \A m \in Node : IsLog(log[m]) /\ Len(log[m]) <= MaxLog
    BY Zenon DEF LogTypes
  <2>2. log \in [Node -> Seq(Entries)] /\ new \in Seq(Entries)
    BY <1>3, Zenon DEF LogTypes, IsLog
  <2> QED BY <1>1, <1>2, <1>3, <2>1, <2>2, Zenon
<1>7. /\ leaderLog' \in [Term -> Seq(Entries)]
      /\ \A u \in Term : IsLog(leaderLog'[u]) /\ Len(leaderLog'[u]) <= MaxLog
      /\ candidacy' \in [Term -> [Node -> [index : Nat, term : Nat] \cup {Nil}]]
  BY <1>1, Zenon DEF LogTypes
<1> QED BY <1>3, <1>5, <1>6, <1>7, Zenon DEF LogTypes, NodeTypes, IsLog

(* Receives preserves what is known of terms, origins, acknowledgements    *)
(* and candidates.                                                         *)
LEMMA ReceivesBasics ==
  ASSUME LogTypes, TermInv, FromLeader, AckedInv, CandidateInv,
         NEW n \in Node, NEW t \in Term, NEW new, Receives(n, t, new)
  PROVE  (TermInv /\ FromLeader /\ AckedInv /\ CandidateInv)'
<1>1. UNCHANGED <<candidacy, granted, leaders, leaderLog>>
  BY Zenon DEF Receives
<1>2. \A m \in Node : /\ currentTerm'[m] = IF m = n THEN t ELSE currentTerm[m]
                      /\ currentTerm'[m] >= currentTerm[m]
                      /\ log'[m] = IF m = n THEN new ELSE log[m]
  BY ReceivesFacts
<1>3. /\ t >= currentTerm[n]
      /\ \A u \in Term, m \in Node : match'[u][m] >= match[u][m]
      /\ \A u \in Term, m \in Node : u # t \/ m # n => match'[u][m] = match[u][m]
      /\ match'[t][n] # match[t][n] => Agree(leaderLog[t], new, match'[t][n])
      /\ \A k \in Nat : Agree(leaderLog[t], log[n], k) => Agree(leaderLog[t], new, k)
      /\ new # log[n] => leaders[t] # {}
      /\ match' \in [Term -> [Node -> Nat]]
  BY ReceivesFacts
<1>4. \A i \in 1 .. Len(new) : new[i].term <= t /\ Agree(new, leaderLog[new[i].term], i)
  BY ReceivedEntries, Zenon
<1>5. /\ \A m \in Node : currentTerm[m] \in Nat
      /\ \A u \in Term : u \in Nat /\ u >= 1 /\ Len(leaderLog[u]) \in Nat
      /\ \A u \in Term, m \in Node : match[u][m] \in Nat
  BY TypeFacts, Zenon
<1>6. TermInv'
  <2>1. ASSUME NEW m \in Node, NEW i \in 1 .. Len(log'[m]) PROVE log'[m][i].term <= currentTerm'[m]
    BY <1>2, <1>4, Zenon DEF TermInv
  <2>2. ASSUME NEW u \in Term, NEW m \in Node
        PROVE  /\ m \in leaders[u] => u <= currentTerm'[m]
               /\ m \in leaders[u] /\ u = currentTerm'[m] => log'[m] = leaderLog[u]
               /\ match'[u][m] <= Len(leaderLog[u])
               /\ match'[u][m] > 0 => u <= currentTerm'[m]
    <3>1. /\ m \in leaders[u] => u <= currentTerm[m]
          /\ m \in leaders[u] /\ u = currentTerm[m] => log[m] = leaderLog[u]
          /\ match[u][m] <= Len(leaderLog[u])
          /\ match[u][m] > 0 => u <= currentTerm[m]
      BY Zenon DEF TermInv
    <3>2. m \in leaders[u] => u <= currentTerm'[m]
      BY <1>2, <1>5, <3>1
    <3>3. m \in leaders[u] /\ u = currentTerm'[m] => log'[m] = leaderLog[u]
      <4> SUFFICES ASSUME m = n, n \in leaders[t], u = t PROVE new = leaderLog[t]
        BY <1>2, <3>1, Zenon
      <4>1. t = currentTerm[n] /\ log[n] = leaderLog[t]
        BY <1>3, <1>5, <3>1
      <4> SUFFICES ASSUME new # log[n] PROVE FALSE
        BY <4>1, Zenon
      <4>2. PICK last \in 0 .. Len(leaderLog[t]) : ~Agree(log[n], leaderLog[t], last)
        BY ReceivesFacts
      <4> QED BY <1>5, <4>1, <4>2 DEF Agree
    <3>4. match'[u][m] <= Len(leaderLog[u])
      BY <1>3, <3>1, Zenon DEF Agree
    <3>5. match'[u][m] > 0 => u <= currentTerm'[m]
      <4>1. CASE u = t /\ m = n
        BY <1>2, <1>5, <4>1
      <4>2. CASE ~(u = t /\ m = n)
        BY <1>2, <1>3, <1>5, <3>1, <4>2
      <4> QED BY <4>1, <4>2, Zenon
    <3> QED BY <3>2, <3>3, <3>4, <3>5, Zenon
  <2> QED BY <1>1, <2>1, <2>2, Zenon DEF TermInv
<1>7. FromLeader'
  BY <1>1, <1>2, <1>4, Zenon DEF FromLeader
<1>8. AckedInv'
  <2> SUFFICES ASSUME NEW m \in Node, NEW u \in Term, u = currentTerm'[m]
               PROVE  Agree(leaderLog[u], log'[m], match'[u][m])
    BY <1>1, Zenon DEF AckedInv
  <2>1. CASE m # n
    BY <1>2, <1>3, <2>1, Zenon DEF AckedInv
  <2>2. CASE m = n /\ match'[t][n] # match[t][n]
    BY <1>2, <1>3, <2>2, Zenon
  <2>3. CASE m = n /\ match'[t][n] = match[t][n]
    <3>1. u = t
      BY <1>2, <2>3, Zenon
    <3>2. CASE t = currentTerm[n]
      BY <1>2, <1>3, <1>5, <2>3, <3>1, <3>2, Zenon DEF AckedInv
    <3>3. CASE t # currentTerm[n]
      <4>1. match[t][n] = 0
        BY <1>3, <1>5, <3>3 DEF TermInv
      <4>2. Len(new) \in Nat
        BY ReceivesFacts, Zenon
      <4> QED BY <1>2, <1>5, <2>3, <3>1, <4>1, <4>2 DEF Agree
    <3> QED BY <3>2, <3>3, Zenon
  <2> QED BY <2>1, <2>2, <2>3, Zenon
<1>9. CandidateInv'
  <2> SUFFICES ASSUME NEW u \in Term, NEW c \in Node, candidacy[u][c] # Nil
               PROVE  /\ u <= currentTerm'[c] /\ candidacy[u][c].term < u
                      /\ u = currentTerm'[c] /\ leaders[u] = {} =>
                           /\ candidacy[u][c].index = LastLogIndex(log'[c])
                           /\ candidacy[u][c].term = LastLogTerm(log'[c])
    BY <1>1, Zenon DEF CandidateInv
  <2>1. /\ u <= currentTerm[c] /\ candidacy[u][c].term < u
        /\ u = currentTerm[c] /\ leaders[u] = {} =>
             /\ candidacy[u][c].index = LastLogIndex(log[c])
             /\ candidacy[u][c].term = LastLogTerm(log[c])
    BY Zenon DEF CandidateInv
  <2>2. u <= currentTerm'[c]
    BY <1>2, <1>5, <2>1
  <2>3. u = currentTerm'[c] /\ leaders[u] = {} => u = currentTerm[c] /\ log'[c] = log[c]
    BY <1>2, <1>3, <1>5, <2>1
  <2> QED BY <2>1, <2>2, <2>3, Zenon
<1> QED BY <1>6, <1>7, <1>8, <1>9, Zenon

(* Receives preserves OpenInv.  A node that replaces what it has           *)
(* acknowledged to an earlier leader does it for a leader that has the     *)
(* same entries.                                                           *)
LEMMA ReceivesOpen ==
  ASSUME LogTypes, TermInv, OpenInv, NEW n \in Node, NEW t \in Term, NEW new, Receives(n, t, new)
  PROVE  OpenInv'
<1>1. UNCHANGED <<candidacy, granted, leaders, leaderLog>>
  BY Zenon DEF Receives
<1>2. \A m \in Node : /\ currentTerm'[m] = IF m = n THEN t ELSE currentTerm[m]
                      /\ currentTerm'[m] >= currentTerm[m]
                      /\ log'[m] = IF m = n THEN new ELSE log[m]
  BY ReceivesFacts
<1>3. /\ t >= currentTerm[n]
      /\ \A u \in Term, m \in Node : u # t \/ m # n => match'[u][m] = match[u][m]
      /\ match'[t][n] # match[t][n] => Agree(leaderLog[t], new, match'[t][n])
      /\ \A k \in Nat : Agree(leaderLog[t], log[n], k) => Agree(leaderLog[t], new, k)
      /\ match' \in [Term -> [Node -> Nat]]
  BY ReceivesFacts
<1>4. /\ \A m \in Node : currentTerm[m] \in Nat /\ Len(log[m]) \in Nat
      /\ \A u \in Term : u \in Nat /\ u >= 1 /\ Len(leaderLog[u]) \in Nat
      /\ \A u \in Term, m \in Node : match[u][m] \in Nat
  BY TypeFacts, Zenon
<1> SUFFICES ASSUME NEW s \in Term, NEW k \in 1 .. Len(leaderLog[s]), Open(s, k)'
             PROVE  /\ \A m \in Node : match'[s][m] >= k => Agree(leaderLog[s], log'[m], k)
                    /\ \A u \in Term, c, m \in Node :
                         s < u /\ m \in granted[u][c] /\ match'[s][m] >= k =>
                           \/ candidacy[u][c].term > s
                           \/ candidacy[u][c].term = s /\ candidacy[u][c].index >= k
                    /\ \A u \in Term : s < u /\ leaders[u] # {} =>
                                         Agree(leaderLog[s], leaderLog[u], k)
  BY <1>1 DEF OpenInv
<1>5. k \in Nat /\ k >= 1
  BY <1>4
<1>6. Open(s, k)
  <2>1. PICK q \in Quorum : \A m \in q : match'[s][m] >= k \/ currentTerm'[m] <= s
    BY Zenon DEF Open
  <2>2. q \subseteq Node
    BY RaftAssumption, Zenon
  <2>3. ASSUME NEW m \in q PROVE match[s][m] >= k \/ currentTerm[m] <= s
    <3>1. CASE currentTerm'[m] <= s
      BY <1>2, <1>4, <2>2, <3>1
    <3>2. CASE match'[s][m] >= k
      BY <1>3, <1>4, <2>2, <3>2, Zenon
    <3> QED BY <2>1, <3>1, <3>2, Zenon
  <2> QED BY <1>1, <2>3, Zenon DEF Open
<1>7. /\ \A m \in Node : match[s][m] >= k => Agree(leaderLog[s], log[m], k)
      /\ \A u \in Term, c, m \in Node :
           s < u /\ m \in granted[u][c] /\ match[s][m] >= k =>
             \/ candidacy[u][c].term > s
             \/ candidacy[u][c].term = s /\ candidacy[u][c].index >= k
      /\ \A u \in Term : s < u /\ leaders[u] # {} => Agree(leaderLog[s], leaderLog[u], k)
  BY <1>6, Zenon DEF OpenInv
<1>8. ASSUME NEW m \in Node, match'[s][m] >= k PROVE Agree(leaderLog[s], log'[m], k)
  <2>1. CASE m # n
    BY <1>2, <1>3, <1>7, <1>8, <2>1, Zenon
  <2>2. CASE m = n /\ s = t
    <3>1. CASE match'[t][n] = match[t][n]
      BY <1>2, <1>3, <1>5, <1>7, <1>8, <2>2, <3>1, Zenon
    <3>2. CASE match'[t][n] # match[t][n]
      <4>1. Agree(leaderLog[t], new, match'[t][n]) /\ match'[t][n] \in Nat
        BY <1>3, <3>2, Zenon
      <4>2. Len(new) \in Nat
        BY ReceivesFacts, Zenon
      <4> QED BY <1>2, <1>4, <1>5, <1>8, <2>2, <4>1, <4>2 DEF Agree
    <3> QED BY <3>1, <3>2, Zenon
  <2>3. CASE m = n /\ s # t
    <3>1. match[s][n] >= k /\ Agree(leaderLog[s], log[n], k)
      BY <1>3, <1>7, <1>8, <2>3, Zenon
    <3>2. CASE new = log[n]
      BY <1>2, <2>3, <3>1, <3>2, Zenon
    <3>3. CASE new # log[n]
      <4>1. s <= currentTerm[n]
        BY <1>4, <1>5, <3>1 DEF TermInv
      <4>2. s < t
        BY <1>3, <1>4, <2>3, <4>1
      <4>3. leaders[t] # {}
        BY <3>3, ReceivesFacts
      <4>4. Agree(leaderLog[s], leaderLog[t], k)
        BY <1>7, <4>2, <4>3, Zenon
      <4>5. Agree(leaderLog[t], log[n], k)
        BY <1>4, <1>5, <3>1, <4>4, Zenon DEF Agree
      <4>6. Agree(leaderLog[t], new, k)
        BY <1>3, <1>5, <4>5, Zenon
      <4>7. Agree(leaderLog[s], new, k)
        BY <1>5, <4>4, <4>6, Zenon DEF Agree
      <4> QED BY <1>2, <2>3, <4>7, Zenon
    <3> QED BY <3>2, <3>3, Zenon
  <2> QED BY <2>1, <2>2, <2>3, Zenon
<1>9. ASSUME NEW u \in Term, NEW c \in Node, NEW m \in Node,
             s < u, m \in granted[u][c], match'[s][m] >= k
      PROVE  \/ candidacy[u][c].term > s
             \/ candidacy[u][c].term = s /\ candidacy[u][c].index >= k
  <2>1. u <= currentTerm[m]
    BY <1>9, Zenon DEF LogTypes, VoteInv, VotesOnRecord
  <2>2. ~(m = n /\ s = t)
    BY <1>3, <1>4, <1>9, <2>1
  <2> QED BY <1>3, <1>7, <1>9, <2>2, Zenon
<1> QED BY <1>7, <1>8, <1>9, Zenon

(* Receives preserves CommitInv: acknowledgements are not withdrawn.       *)
LEMMA ReceivesCommit ==
  ASSUME LogTypes, CommitInv, UNCHANGED leaderCommit,
         NEW n \in Node, NEW t \in Term, NEW new, Receives(n, t, new)
  PROVE  CommitInv'
<1>1. UNCHANGED leaderLog
  BY Zenon DEF Receives
<1>2. /\ \A u \in Term, m \in Node : match'[u][m] >= match[u][m]
      /\ match' \in [Term -> [Node -> Nat]]
  BY ReceivesFacts, Zenon
<1> SUFFICES ASSUME NEW u \in Term, leaderCommit[u] > 0
             PROVE  /\ leaderCommit[u] <= Len(leaderLog[u])
                    /\ leaderLog[u][leaderCommit[u]].term = u
                    /\ \E q \in Quorum : \A m \in q : match'[u][m] >= leaderCommit[u]
  BY <1>1, Zenon DEF CommitInv
<1>3. PICK q \in Quorum : \A m \in q : match[u][m] >= leaderCommit[u]
  BY Zenon DEF CommitInv
<1>4. /\ q \subseteq Node /\ leaderCommit[u] \in Nat
      /\ \A m \in q : match'[u][m] \in Nat /\ match[u][m] \in Nat
  <2>1. q \subseteq Node
    BY RaftAssumption, Zenon
  <2>2. match \in [Term -> [Node -> Nat]] /\ leaderCommit \in [Term -> Nat]
    BY Zenon DEF LogTypes
  <2> QED BY <1>2, <2>1, <2>2, Zenon
<1>5. \A m \in q : match'[u][m] >= leaderCommit[u]
  BY <1>2, <1>3, <1>4
<1> QED BY <1>5, Zenon DEF CommitInv

(* A step that Receives describes preserves the invariant.                 *)
LEMMA ReceivesStep ==
  ASSUME LogInv, VoteInv', NodeTypes', UNCHANGED leaderCommit,
         NEW n \in Node, NEW t \in Term, NEW new, Receives(n, t, new)
  PROVE  LogInv'
<1>1. leaderCommit' \in [Term -> Nat]
  BY Zenon DEF LogInv, LogTypes
<1>2. LogTypes'
  BY <1>1, ReceivesTypes, Zenon DEF LogInv
<1>3. (TermInv /\ FromLeader /\ AckedInv /\ CandidateInv)'
  BY ReceivesBasics, Zenon DEF LogInv
<1>4. OpenInv' /\ CommitInv'
  BY ReceivesOpen, ReceivesCommit, Zenon DEF LogInv
<1> QED BY <1>2, <1>3, <1>4, Zenon DEF LogInv

(* A call that only takes a term is described by Receives.                 *)
LEMMA TermReceived ==
  ASSUME LogTypes, NEW n \in Node, NEW t \in Term, t >= currentTerm[n],
         currentTerm' = [currentTerm EXCEPT ![n] = t],
         UNCHANGED <<candidacy, granted, leaders, leaderLog, match, log, leaderId, commitIndex>>
  PROVE  NodeTypes' /\ Receives(n, t, log[n])
<1>1. log' = [log EXCEPT ![n] = log[n]] /\ IsLog(log[n])
  BY Zenon DEF LogTypes
<1>2. NodeTypes'
  BY Zenon DEF LogTypes, NodeTypes
<1> QED BY <1>1, <1>2, Zenon DEF Receives

-----------------------------------------------------------------------------
(* The votes.                                                              *)

(* Node n votes for c in term t: c's last entry is not behind the node's.  *)
(* The candidacy may be announced by the same step, and is otherwise       *)
(* there.                                                                  *)
VotesFor(n, t, c) ==
  /\ t >= currentTerm[n] /\ currentTerm' = [currentTerm EXCEPT ![n] = t]
  /\ UNCHANGED <<leaderId, log, commitIndex, leaders, leaderLog, leaderCommit, match>>
  /\ granted' = [granted EXCEPT ![t][c] = @ \cup {n}]
  /\ \/ candidacy' = candidacy /\ candidacy[t][c] # Nil
     \/ /\ c = n /\ t = currentTerm[n] + 1
        /\ candidacy' = [candidacy EXCEPT ![t][n] =
                           [index |-> LastLogIndex(log[n]), term |-> LastLogTerm(log[n])]]
  /\ UpToDate(log[n], candidacy'[t][c].index, candidacy'[t][c].term)

(* What VotesFor changes, pointwise.  A new candidacy replaces none, and   *)
(* nobody has voted for it.                                                *)
LEMMA VotesFacts ==
  ASSUME LogTypes, TermInv, CandidateInv,
         NEW n \in Node, NEW t \in Term, NEW c \in Node, VotesFor(n, t, c)
  PROVE  /\ \A m \in Node : /\ currentTerm'[m] = IF m = n THEN t ELSE currentTerm[m]
                            /\ currentTerm'[m] >= currentTerm[m]
         /\ \A u \in Term, d, m \in Node :
              m \in granted'[u][d] <=> m \in granted[u][d] \/ (u = t /\ d = c /\ m = n)
         /\ \A u \in Term, d \in Node : candidacy[u][d] # Nil => candidacy'[u][d] = candidacy[u][d]
         /\ candidacy' \in [Term -> [Node -> [index : Nat, term : Nat] \cup {Nil}]]
         /\ candidacy'[t][c] # Nil
         /\ \A u \in Term, d \in Node :
              candidacy'[u][d] # candidacy[u][d] =>
                /\ u = t /\ d = n
                /\ candidacy'[u][d].index = LastLogIndex(log[n])
                /\ candidacy'[u][d].term = LastLogTerm(log[n])
                /\ LastLogTerm(log[n]) < t
<1>1. /\ currentTerm[n] \in Nat /\ t \in Nat /\ t >= 1 /\ IsLog(log[n]) /\ Len(log[n]) \in Nat
      /\ \A i \in 1 .. Len(log[n]) : log[n][i].term \in Term
  BY TypeFacts, Zenon
<1>2. /\ currentTerm \in [Node -> Nat] /\ granted \in [Term -> [Node -> SUBSET Node]]
      /\ candidacy \in [Term -> [Node -> [index : Nat, term : Nat] \cup {Nil}]]
  BY Zenon DEF LogTypes, VoteInv, VoteTypes
<1>3. /\ t >= currentTerm[n] /\ currentTerm' = [currentTerm EXCEPT ![n] = t]
      /\ granted' = [granted EXCEPT ![t][c] = @ \cup {n}]
  BY Zenon DEF VotesFor
<1>4. \A m \in Node : /\ currentTerm'[m] = IF m = n THEN t ELSE currentTerm[m]
                      /\ currentTerm'[m] >= currentTerm[m]
  BY <1>1, <1>2, <1>3
<1>5. \A u \in Term, d, m \in Node :
        m \in granted'[u][d] <=> m \in granted[u][d] \/ (u = t /\ d = c /\ m = n)
  BY <1>2, <1>3, Zenon
<1>6. CASE candidacy' = candidacy /\ candidacy[t][c] # Nil
  BY <1>2, <1>4, <1>5, <1>6, Zenon
<1>7. CASE /\ c = n /\ t = currentTerm[n] + 1
           /\ candidacy' = [candidacy EXCEPT ![t][n] =
                              [index |-> LastLogIndex(log[n]), term |-> LastLogTerm(log[n])]]
  <2> DEFINE end == [index |-> LastLogIndex(log[n]), term |-> LastLogTerm(log[n])]
  <2>1. /\ LastLogIndex(log[n]) = Len(log[n])
        /\ LastLogTerm(log[n]) = IF Len(log[n]) = 0 THEN 0 ELSE log[n][Len(log[n])].term
    BY <1>1, LastFacts, Zenon
  <2>2. Len(log[n]) # 0 => /\ log[n][Len(log[n])].term <= currentTerm[n]
                           /\ log[n][Len(log[n])].term \in Nat
    BY <1>1 DEF TermInv, Term
  <2>3. LastLogTerm(log[n]) \in Nat /\ LastLogTerm(log[n]) < t /\ LastLogIndex(log[n]) \in Nat
    BY <1>1, <1>7, <2>1, <2>2
  <2>4. /\ end \in [index : Nat, term : Nat] /\ end # Nil
        /\ end.index = LastLogIndex(log[n]) /\ end.term = LastLogTerm(log[n])
    BY <2>3, RaftAssumption
  <2>5. candidacy[t][n] = Nil
    BY <1>1, <1>7 DEF CandidateInv
  <2>6. \A u \in Term, d \in Node :
          candidacy'[u][d] = IF u = t /\ d = n THEN end ELSE candidacy[u][d]
    BY <1>2, <1>7, Zenon
  <2>7. candidacy' \in [Term -> [Node -> [index : Nat, term : Nat] \cup {Nil}]]
    <3> HIDE DEF end
    <3>1. candidacy' = [candidacy EXCEPT ![t][n] = end]
      BY <1>7, Zenon DEF end
    <3> QED BY <1>2, <2>4, <3>1, Zenon
  <2> HIDE DEF end
  <2> QED BY <1>4, <1>5, <1>7, <2>3, <2>4, <2>5, <2>6, <2>7
<1> QED BY <1>6, <1>7, Zenon DEF VotesFor

(* VotesFor preserves everything but OpenInv.                              *)
LEMMA VotesBasics ==
  ASSUME LogTypes, TermInv, FromLeader, AckedInv, CandidateInv, CommitInv, VoteInv',
         NEW n \in Node, NEW t \in Term, NEW c \in Node, VotesFor(n, t, c)
  PROVE  (LogTypes /\ TermInv /\ FromLeader /\ AckedInv /\ CandidateInv /\ CommitInv)'
<1>1. UNCHANGED <<leaderId, log, commitIndex, leaders, leaderLog, leaderCommit, match>>
  BY Zenon DEF VotesFor
<1>2. /\ \A m \in Node : /\ currentTerm'[m] = IF m = n THEN t ELSE currentTerm[m]
                         /\ currentTerm'[m] >= currentTerm[m]
      /\ candidacy' \in [Term -> [Node -> [index : Nat, term : Nat] \cup {Nil}]]
  BY VotesFacts, Zenon
<1>3. /\ \A m \in Node : currentTerm[m] \in Nat
      /\ \A m \in Node : \A i \in 1 .. Len(log[m]) : log[m][i].term \in Nat
      /\ \A u \in Term : u \in Nat /\ u >= 1 /\ Len(leaderLog[u]) \in Nat
      /\ \A u \in Term, m \in Node : match[u][m] \in Nat
      /\ \A m \in Node : Len(log[m]) \in Nat
  BY TypeFacts, Zenon DEF Term
<1>4. t >= currentTerm[n]
  BY Zenon DEF VotesFor
<1>5. LogTypes'
  <2>1. t <= MaxTerm
    BY DEF Term
  <2> QED BY <1>1, <1>2, <2>1, Zenon DEF LogTypes
<1>6. TermInv'
  <2>1. ASSUME NEW m \in Node, NEW i \in 1 .. Len(log[m]) PROVE log[m][i].term <= currentTerm'[m]
    <3>1. log[m][i].term <= currentTerm[m]
      BY Zenon DEF TermInv
    <3> QED BY <1>2, <1>3, <3>1
  <2>2. ASSUME NEW u \in Term, NEW m \in Node
        PROVE  /\ m \in leaders[u] => u <= currentTerm'[m]
               /\ m \in leaders[u] /\ u = currentTerm'[m] => log[m] = leaderLog[u]
               /\ match[u][m] <= Len(leaderLog[u])
               /\ match[u][m] > 0 => u <= currentTerm'[m]
    <3>1. /\ m \in leaders[u] => u <= currentTerm[m]
          /\ m \in leaders[u] /\ u = currentTerm[m] => log[m] = leaderLog[u]
          /\ match[u][m] <= Len(leaderLog[u])
          /\ match[u][m] > 0 => u <= currentTerm[m]
      BY Zenon DEF TermInv
    <3>2. u <= currentTerm[m] => u <= currentTerm'[m] /\ (u = currentTerm'[m] => u = currentTerm[m])
      BY <1>2, <1>3, <1>4
    <3> QED BY <3>1, <3>2, Zenon
  <2> QED BY <1>1, <2>1, <2>2, Zenon DEF TermInv
<1>7. FromLeader' /\ CommitInv'
  BY <1>1, Zenon DEF FromLeader, CommitInv
<1>8. AckedInv'
  <2> SUFFICES ASSUME NEW m \in Node, NEW u \in Term, u = currentTerm'[m]
               PROVE  Agree(leaderLog[u], log[m], match[u][m])
    BY <1>1, Zenon DEF AckedInv
  <2>1. CASE u = currentTerm[m]
    BY <2>1, Zenon DEF AckedInv
  <2>2. CASE u # currentTerm[m]
    <3>1. ~(u <= currentTerm[m])
      BY <1>2, <1>3, <2>2
    <3>2. match[u][m] = 0
      BY <1>3, <3>1 DEF TermInv
    <3> QED BY <1>3, <3>2 DEF Agree
  <2> QED BY <2>1, <2>2, Zenon
<1>9. CandidateInv'
  <2>1. ASSUME NEW u \in Term, NEW d \in Node, granted'[u][d] # {} PROVE candidacy'[u][d] # Nil
    <3>1. PICK m \in Node : m \in granted'[u][d]
      BY <2>1 DEF VoteInv, VoteTypes
    <3>2. CASE m \in granted[u][d]
      BY <3>2, VotesFacts DEF CandidateInv
    <3>3. CASE u = t /\ d = c
      BY <3>3, VotesFacts
    <3> QED BY <3>1, <3>2, <3>3, VotesFacts
  <2>2. ASSUME NEW u \in Term, NEW d \in Node, candidacy'[u][d] # Nil
        PROVE  /\ u <= currentTerm'[d] /\ candidacy'[u][d].term < u
               /\ u = currentTerm'[d] /\ leaders[u] = {} =>
                    /\ candidacy'[u][d].index = LastLogIndex(log[d])
                    /\ candidacy'[u][d].term = LastLogTerm(log[d])
    <3>1. CASE candidacy'[u][d] # candidacy[u][d]
      <4>1. /\ u = t /\ d = n /\ candidacy'[u][d].index = LastLogIndex(log[n])
            /\ candidacy'[u][d].term = LastLogTerm(log[n]) /\ LastLogTerm(log[n]) < t
        BY <3>1, VotesFacts
      <4> QED BY <1>2, <1>3, <4>1
    <3>2. CASE candidacy'[u][d] = candidacy[u][d]
      <4>1. /\ u <= currentTerm[d] /\ candidacy[u][d].term < u
            /\ u = currentTerm[d] /\ leaders[u] = {} =>
                 /\ candidacy[u][d].index = LastLogIndex(log[d])
                 /\ candidacy[u][d].term = LastLogTerm(log[d])
        BY <2>2, <3>2, Zenon DEF CandidateInv
      <4>2. u <= currentTerm'[d] /\ (u = currentTerm'[d] => u = currentTerm[d])
        BY <1>2, <1>3, <1>4, <4>1
      <4> QED BY <3>2, <4>1, <4>2, Zenon
    <3> QED BY <3>1, <3>2, Zenon
  <2> QED BY <1>1, <2>1, <2>2, Zenon DEF CandidateInv
<1> QED BY <1>5, <1>6, <1>7, <1>8, <1>9, Zenon

(* VotesFor preserves OpenInv.  A node that has acknowledged an entry      *)
(* which may be committed has it in its log, and the candidate's log ends  *)
(* no earlier.                                                             *)
LEMMA VotesOpen ==
  ASSUME LogTypes, TermInv, CandidateInv, OpenInv,
         NEW n \in Node, NEW t \in Term, NEW c \in Node, VotesFor(n, t, c)
  PROVE  OpenInv'
<1>1. UNCHANGED <<log, leaders, leaderLog, match>>
  BY Zenon DEF VotesFor
<1>2. \A m \in Node : currentTerm'[m] >= currentTerm[m] /\ currentTerm'[m] \in Nat
  BY VotesFacts, TypeFacts
<1>3. /\ \A m \in Node : currentTerm[m] \in Nat
      /\ \A u \in Term : u \in Nat /\ u >= 1 /\ Len(leaderLog[u]) \in Nat
  BY TypeFacts, Zenon
<1> SUFFICES ASSUME NEW s \in Term, NEW k \in 1 .. Len(leaderLog[s]), Open(s, k)'
             PROVE  /\ \A m \in Node : match[s][m] >= k => Agree(leaderLog[s], log[m], k)
                    /\ \A u \in Term, d, m \in Node :
                         s < u /\ m \in granted'[u][d] /\ match[s][m] >= k =>
                           \/ candidacy'[u][d].term > s
                           \/ candidacy'[u][d].term = s /\ candidacy'[u][d].index >= k
                    /\ \A u \in Term : s < u /\ leaders[u] # {} =>
                                         Agree(leaderLog[s], leaderLog[u], k)
  BY <1>1 DEF OpenInv
<1>4. Open(s, k)
  <2>1. PICK q \in Quorum : \A m \in q : match[s][m] >= k \/ currentTerm'[m] <= s
    BY <1>1, Zenon DEF Open
  <2>2. q \subseteq Node
    BY RaftAssumption, Zenon
  <2>3. \A m \in q : match[s][m] >= k \/ currentTerm[m] <= s
    BY <1>2, <1>3, <2>1, <2>2
  <2> QED BY <1>1, <2>3, Zenon DEF Open
<1>5. /\ \A m \in Node : match[s][m] >= k => Agree(leaderLog[s], log[m], k)
      /\ \A u \in Term, d, m \in Node :
           s < u /\ m \in granted[u][d] /\ match[s][m] >= k =>
             \/ candidacy[u][d].term > s
             \/ candidacy[u][d].term = s /\ candidacy[u][d].index >= k
      /\ \A u \in Term : s < u /\ leaders[u] # {} => Agree(leaderLog[s], leaderLog[u], k)
  BY <1>4, Zenon DEF OpenInv
<1>6. ASSUME NEW u \in Term, NEW d \in Node, NEW m \in Node,
             s < u, m \in granted'[u][d], match[s][m] >= k
      PROVE  \/ candidacy'[u][d].term > s
             \/ candidacy'[u][d].term = s /\ candidacy'[u][d].index >= k
  <2>1. CASE m \in granted[u][d]
    <3>1. candidacy[u][d] # Nil
      BY <2>1, Zenon DEF CandidateInv
    <3>2. candidacy'[u][d] = candidacy[u][d]
      BY <3>1, VotesFacts
    <3> QED BY <1>5, <1>6, <2>1, <3>2, Zenon
  <2>2. CASE u = t /\ d = c /\ m = n
    <3> DEFINE lg == log[n]
               li == candidacy'[t][c].index
               lt == candidacy'[t][c].term
    <3>1. Agree(leaderLog[s], lg, k) /\ leaderLog[s][k].term = s
      BY <1>4, <1>5, <1>6, <2>2, Zenon DEF Open
    <3>2. IsLog(lg) /\ Len(lg) \in Nat /\ \A i \in 1 .. Len(lg) : lg[i].term \in Nat
      BY TypeFacts, Zenon DEF Term
    <3>3. k \in 1 .. Len(lg) /\ lg[k].term = s
      BY <1>3, <3>1, <3>2 DEF Agree
    <3>4. /\ LastLogIndex(lg) = Len(lg) /\ s <= LastLogTerm(lg) /\ LastLogTerm(lg) \in Nat
      BY <3>2, <3>3, LastFacts
    <3>5. li \in Nat /\ lt \in Nat
      BY VotesFacts
    <3>6. UpToDate(lg, li, lt)
      BY Zenon DEF VotesFor
    <3> HIDE DEF lg, li, lt
    <3>7. lt > s \/ (lt = s /\ li >= k)
      BY <1>3, <3>2, <3>3, <3>4, <3>5, <3>6 DEF UpToDate
    <3> QED BY <2>2, <3>7, Zenon DEF li, lt
  <2> QED BY <1>6, <2>1, <2>2, VotesFacts
<1> QED BY <1>5, <1>6, Zenon

-----------------------------------------------------------------------------
(* The winner of an election.                                              *)

(* A node that has not won its term has the votes of a quorum, and its log *)
(* becomes the log of the term's leader.                                   *)
Wins(n) ==
  LET t == currentTerm[n]
  IN  /\ t \in Term /\ n \notin leaders[t]
      /\ \E q \in Quorum : q \subseteq granted[t][n]
      /\ leaders' = [leaders EXCEPT ![t] = @ \cup {n}]
      /\ leaderLog' = [leaderLog EXCEPT ![t] = log[n]]
      /\ match' = [match EXCEPT ![t][n] = Len(log[n])]
      /\ UNCHANGED <<currentTerm, votedFor, leaderId, log, commitIndex>>
      /\ UNCHANGED <<candidacy, granted, leaderCommit>>

(* A node that becomes leader is the first of its term.  Nothing of the    *)
(* term exists yet, and its log has entries of earlier terms only.         *)
LEMMA WinnerFacts ==
  ASSUME LogTypes, TermInv, CandidateInv, NEW n \in Node, NEW t, t = currentTerm[n],
         Wins(n)
  PROVE  /\ t \in Term /\ leaders[t] = {} /\ Len(leaderLog[t]) = 0
         /\ \A m \in Node : match[t][m] = 0
         /\ candidacy[t][n] # Nil
         /\ candidacy[t][n].index = LastLogIndex(log[n])
         /\ candidacy[t][n].term = LastLogTerm(log[n])
         /\ \A i \in 1 .. Len(log[n]) : log[n][i].term < t
<1>1. t \in Term /\ n \notin leaders[t]
  BY Zenon DEF Wins
<1>2. PICK q \in Quorum : q \subseteq granted[t][n]
  BY Zenon DEF Wins
<1>3. q # {}
  BY RaftAssumption
<1>4. leaders[t] = {}
  <2> SUFFICES ASSUME NEW d \in leaders[t] PROVE FALSE
    BY Zenon
  <2>1. d \in Node
    BY <1>1, Zenon DEF LogTypes, VoteInv, VoteTypes
  <2>2. PICK r \in Quorum : r \subseteq granted[t][d]
    BY <1>1, Zenon DEF LogTypes, VoteInv, LeadersElected
  <2>3. PICK x : x \in q \cap r
    BY RaftAssumption
  <2>4. x \in Node
    BY <2>3, RaftAssumption, Zenon
  <2>5. d = n
    BY <1>1, <1>2, <2>1, <2>2, <2>3, <2>4, Zenon DEF LogTypes, VoteInv, OneVote
  <2> QED BY <1>1, <2>5, Zenon
<1>5. Len(leaderLog[t]) = 0
  BY <1>1, <1>4, Zenon DEF TermInv
<1>6. \A m \in Node : match[t][m] = 0
  <2> SUFFICES ASSUME NEW m \in Node PROVE match[t][m] = 0
    BY Zenon
  <2>1. match[t][m] \in Nat
    BY <1>1, TypeFacts, Zenon
  <2>2. match[t][m] <= Len(leaderLog[t])
    BY <1>1, Zenon DEF TermInv
  <2> QED BY <1>5, <2>1, <2>2
<1>7. candidacy[t][n] # Nil
  BY <1>1, <1>2, <1>3, Zenon DEF CandidateInv
<1>8. /\ candidacy[t][n].index = LastLogIndex(log[n])
      /\ candidacy[t][n].term = LastLogTerm(log[n]) /\ candidacy[t][n].term < t
  BY <1>1, <1>4, <1>7, Zenon DEF CandidateInv
<1>9. \A i \in 1 .. Len(log[n]) : log[n][i].term < t
  <2> SUFFICES ASSUME NEW i \in 1 .. Len(log[n]) PROVE log[n][i].term < t
    BY Zenon
  <2>1. log[n][i].term \in Nat /\ t \in Nat /\ IsLog(log[n])
    BY <1>1, TypeFacts, Zenon DEF Term
  <2>2. log[n][i].term <= LastLogTerm(log[n]) /\ LastLogTerm(log[n]) < t
    BY <1>8, <2>1, LastFacts, Zenon
  <2>3. LastLogTerm(log[n]) \in Nat
    BY <1>7, <1>8, <1>1 DEF LogTypes
  <2> QED BY <2>1, <2>2, <2>3
<1> QED BY <1>1, <1>4, <1>5, <1>6, <1>7, <1>8, <1>9, Zenon

(* The winner has every entry that may still be committed by an earlier    *)
(* leader: a voter has acknowledged it, and asked it of the candidate.     *)
LEMMA WinnerComplete ==
  ASSUME LogTypes, TermInv, FromLeader, CandidateInv, OpenInv,
         NEW n \in Node, NEW t, t = currentTerm[n], Wins(n),
         NEW s \in Term, s < t, NEW k \in 1 .. Len(leaderLog[s]), Open(s, k)
  PROVE  Agree(leaderLog[s], log[n], k)
<1> DEFINE lg == log[n]
           end == Len(lg)
           x == LastLogTerm(lg)
<1>1. /\ t \in Term /\ candidacy[t][n].index = LastLogIndex(lg) /\ candidacy[t][n].term = x
  BY WinnerFacts, Zenon
<1>2. /\ IsLog(lg) /\ end \in Nat /\ s \in Nat /\ t \in Nat /\ Len(leaderLog[s]) \in Nat
      /\ \A i \in 1 .. end : lg[i].term \in Term /\ lg[i].term \in Nat
  BY <1>1, TypeFacts, Zenon DEF Term
<1>3. LastLogIndex(lg) = end /\ x = IF end = 0 THEN 0 ELSE lg[end].term
  BY <1>2, LastFacts, Zenon
<1>4. x > s \/ (x = s /\ end >= k)
  <2>1. PICK q \in Quorum : q \subseteq granted[t][n]
    BY Zenon DEF Wins
  <2>2. PICK r \in Quorum : \A m \in r : match[s][m] >= k \/ currentTerm[m] <= s
    BY Zenon DEF Open
  <2>3. PICK m : m \in q \cap r
    BY RaftAssumption
  <2>4. m \in Node
    BY <2>3, RaftAssumption, Zenon
  <2>5. t <= currentTerm[m] /\ currentTerm[m] \in Nat
    BY <1>1, <2>1, <2>3, <2>4, Zenon DEF LogTypes, VoteInv, VoteTypes, VotesOnRecord
  <2>6. match[s][m] >= k
    BY <1>2, <2>2, <2>3, <2>5
  <2>7. \/ candidacy[t][n].term > s
        \/ candidacy[t][n].term = s /\ candidacy[t][n].index >= k
    BY <1>1, <2>1, <2>3, <2>4, <2>6 DEF OpenInv
  <2> QED BY <1>1, <1>3, <2>7, Zenon
<1>5. end \in 1 .. end /\ lg[end].term = x /\ x \in Term /\ x \in Nat
  <2>1. s >= 1
    BY DEF Term
  <2>2. end # 0
    BY <1>2, <1>3, <1>4, <2>1
  <2> QED BY <1>2, <1>3, <2>2
<1>6. Agree(lg, leaderLog[x], end)
  BY <1>5, Zenon DEF FromLeader
<1>7. Len(leaderLog[x]) \in Nat /\ IsLog(leaderLog[x])
  BY <1>5, TypeFacts, Zenon
<1>8. CASE x = s /\ end >= k
  <2> HIDE DEF lg, end, x
  <2>1. Agree(leaderLog[s], lg, k)
    BY <1>2, <1>6, <1>7, <1>8 DEF Agree
  <2> QED BY <2>1, Zenon DEF lg
<1>9. CASE x > s
  <2>1. leaders[x] # {}
    BY <1>5, <1>6, <1>7 DEF TermInv, Agree
  <2>2. Agree(leaderLog[s], leaderLog[x], k)
    BY <1>5, <1>9, <2>1, Zenon DEF OpenInv
  <2>3. leaderLog[s][k].term = s
    BY Zenon DEF Open
  <2> HIDE DEF lg, end, x
  <2>4. k \in Nat /\ k >= 1 /\ k <= Len(leaderLog[x]) /\ leaderLog[x][k].term = s
    BY <1>2, <2>2, <2>3 DEF Agree
  <2>5. end <= Len(leaderLog[x]) /\ leaderLog[x][end].term = x
    BY <1>5, <1>6, Zenon DEF Agree
  <2>6. k <= end
    <3> SUFFICES ASSUME end <= k PROVE k = end
      BY <1>2, <2>4
    <3>1. leaderLog[x][end].term <= leaderLog[x][k].term
      BY <1>2, <1>5, <1>7, <2>4, <2>5 DEF IsLog
    <3> QED BY <1>2, <1>5, <1>9, <2>4, <2>5, <3>1
  <2>7. Agree(leaderLog[s], lg, k)
    BY <1>2, <1>6, <1>7, <2>2, <2>4, <2>6 DEF Agree
  <2> QED BY <2>7, Zenon DEF lg
<1> QED BY <1>4, <1>8, <1>9, Zenon

(* The winner preserves the invariant.                                     *)
LEMMA WinnerStep ==
  ASSUME LogInv, VoteInv', NEW n \in Node, Wins(n)
  PROVE  LogInv'
<1> DEFINE t == currentTerm[n]
           lg == log[n]
<1> USE DEF LogInv
<1>1. /\ t \in Term /\ leaders[t] = {} /\ Len(leaderLog[t]) = 0
      /\ \A m \in Node : match[t][m] = 0
      /\ \A i \in 1 .. Len(lg) : lg[i].term < t
  BY WinnerFacts, Zenon
<1>2. /\ leaders' = [leaders EXCEPT ![t] = @ \cup {n}]
      /\ leaderLog' = [leaderLog EXCEPT ![t] = lg]
      /\ match' = [match EXCEPT ![t][n] = Len(lg)]
      /\ UNCHANGED <<currentTerm, leaderId, log, commitIndex, candidacy, granted, leaderCommit>>
  BY Zenon DEF Wins
<1>3. /\ leaders \in [Term -> SUBSET Node] /\ leaderLog \in [Term -> Seq(Entries)]
      /\ match \in [Term -> [Node -> Nat]]
  BY Zenon DEF LogTypes, VoteInv, VoteTypes
<1>4. \A u \in Term : /\ leaders'[u] = IF u = t THEN {n} ELSE leaders[u]
                      /\ leaderLog'[u] = IF u = t THEN lg ELSE leaderLog[u]
  BY <1>1, <1>2, <1>3, Zenon
<1>5. \A u \in Term, m \in Node :
        match'[u][m] = IF u = t /\ m = n THEN Len(lg) ELSE match[u][m]
  BY <1>1, <1>2, <1>3, Zenon
<1>6. /\ \A m \in Node : currentTerm[m] \in Nat /\ Len(log[m]) \in Nat
      /\ \A u \in Term : u \in Nat /\ u >= 1 /\ Len(leaderLog[u]) \in Nat
      /\ \A m \in Node : \A i \in 1 .. Len(log[m]) : log[m][i].term \in Term
      /\ \A u \in Term : \A i \in 1 .. Len(leaderLog[u]) : leaderLog[u][i].term \in Term
  BY <1>1, TypeFacts, Zenon
<1>7. IsLog(lg) /\ Len(lg) \in Nat /\ Len(lg) <= MaxLog /\ lg \in Seq(Entries)
  BY <1>1, TypeFacts, Zenon DEF IsLog
<1>8. LogTypes'
  <2>1. leaderLog' \in [Term -> Seq(Entries)] /\ match' \in [Term -> [Node -> Nat]]
    BY <1>2, <1>3, <1>7, Zenon
  <2>2. \A u \in Term : IsLog(leaderLog'[u]) /\ Len(leaderLog'[u]) <= MaxLog
    BY <1>4, <1>7, Zenon DEF LogTypes
  <2> HIDE DEF lg, t
  <2> QED BY <1>2, <2>1, <2>2, Zenon DEF LogTypes
<1>9. TermInv'
  <2>1. ASSUME NEW u \in Term
        PROVE  /\ \A i \in 1 .. Len(leaderLog'[u]) : leaderLog'[u][i].term <= u
               /\ leaders'[u] = {} => Len(leaderLog'[u]) = 0
    BY <1>1, <1>4, <1>6 DEF TermInv
  <2>2. ASSUME NEW u \in Term, NEW m \in Node
        PROVE  /\ m \in leaders'[u] => u <= currentTerm[m]
               /\ m \in leaders'[u] /\ u = currentTerm[m] => log[m] = leaderLog'[u]
               /\ match'[u][m] <= Len(leaderLog'[u])
               /\ match'[u][m] > 0 => u <= currentTerm[m]
    <3>1. /\ m \in leaders[u] => u <= currentTerm[m]
          /\ m \in leaders[u] /\ u = currentTerm[m] => log[m] = leaderLog[u]
          /\ match[u][m] <= Len(leaderLog[u])
          /\ match[u][m] > 0 => u <= currentTerm[m]
      BY Zenon DEF TermInv
    <3>2. CASE u # t
      BY <1>4, <1>5, <3>1, <3>2, Zenon
    <3>3. CASE u = t /\ m = n
      BY <1>4, <1>5, <1>6, <1>7, <3>3
    <3>4. CASE u = t /\ m # n
      BY <1>1, <1>4, <1>5, <1>7, <3>4
    <3> QED BY <3>2, <3>3, <3>4, Zenon
  <2>3. \A m \in Node : \A i \in 1 .. Len(log[m]) : log[m][i].term <= currentTerm[m]
    BY Zenon DEF TermInv
  <2> HIDE DEF lg, t
  <2> QED BY <1>2, <2>1, <2>2, <2>3, Zenon DEF TermInv
<1>10. FromLeader'
  <2>1. ASSUME NEW m \in Node, NEW i \in 1 .. Len(log[m])
        PROVE  log[m][i].term # t /\ Agree(log[m], leaderLog[log[m][i].term], i)
    <3>1. Agree(log[m], leaderLog[log[m][i].term], i)
      BY Zenon DEF FromLeader
    <3>2. log[m][i].term # t
      BY <1>1, <1>6, <3>1 DEF Agree
    <3> QED BY <3>1, <3>2, Zenon
  <2>2. ASSUME NEW u \in Term, NEW i \in 1 .. Len(leaderLog[u])
        PROVE  /\ leaderLog[u][i].term # t
               /\ Agree(leaderLog[u], leaderLog[leaderLog[u][i].term], i)
    <3>1. Agree(leaderLog[u], leaderLog[leaderLog[u][i].term], i)
      BY Zenon DEF FromLeader
    <3>2. leaderLog[u][i].term # t
      BY <1>1, <1>6, <3>1 DEF Agree
    <3> QED BY <3>1, <3>2, Zenon
  <2>3. ASSUME NEW m \in Node, NEW i \in 1 .. Len(log[m])
        PROVE  Agree(log[m], leaderLog'[log[m][i].term], i)
    BY <1>4, <1>6, <2>1, Zenon
  <2>4. ASSUME NEW u \in Term, NEW i \in 1 .. Len(leaderLog'[u])
        PROVE  Agree(leaderLog'[u], leaderLog'[leaderLog'[u][i].term], i)
    <3>1. CASE u = t
      BY <1>4, <2>3, <3>1, Zenon
    <3>2. CASE u # t
      BY <1>4, <1>6, <2>2, <3>2, Zenon
    <3> QED BY <3>1, <3>2, Zenon
  <2> HIDE DEF lg, t
  <2> QED BY <1>2, <2>3, <2>4, Zenon DEF FromLeader
<1>11. AckedInv'
  <2> SUFFICES ASSUME NEW m \in Node, NEW u \in Term, u = currentTerm[m]
               PROVE  Agree(leaderLog'[u], log[m], match'[u][m])
    BY <1>2, Zenon DEF AckedInv
  <2>1. CASE u # t
    BY <1>4, <1>5, <2>1, Zenon DEF AckedInv
  <2>2. CASE u = t /\ m = n
    BY <1>4, <1>5, <1>7, <2>2 DEF Agree
  <2>3. CASE u = t /\ m # n
    BY <1>1, <1>4, <1>5, <1>6, <2>3 DEF Agree
  <2> QED BY <2>1, <2>2, <2>3, Zenon
<1>12. CandidateInv'
  <2> SUFFICES ASSUME NEW u \in Term, NEW d \in Node
               PROVE  /\ granted[u][d] # {} => candidacy[u][d] # Nil
                      /\ candidacy[u][d] # Nil =>
                           /\ u <= currentTerm[d]
                           /\ candidacy[u][d].term < u
                           /\ u = currentTerm[d] /\ leaders'[u] = {} =>
                                /\ candidacy[u][d].index = LastLogIndex(log[d])
                                /\ candidacy[u][d].term = LastLogTerm(log[d])
    BY <1>2, Zenon DEF CandidateInv
  <2>1. leaders'[u] = {} => leaders[u] = {}
    BY <1>4, Zenon
  <2> QED BY <2>1, Zenon DEF CandidateInv
<1>13. OpenInv'
  <2> SUFFICES ASSUME NEW s \in Term, NEW k \in 1 .. Len(leaderLog'[s]), Open(s, k)'
               PROVE  /\ \A m \in Node : match'[s][m] >= k => Agree(leaderLog'[s], log[m], k)
                      /\ \A u \in Term, d, m \in Node :
                           s < u /\ m \in granted[u][d] /\ match'[s][m] >= k =>
                             \/ candidacy[u][d].term > s
                             \/ candidacy[u][d].term = s /\ candidacy[u][d].index >= k
                      /\ \A u \in Term : s < u /\ leaders'[u] # {} =>
                                           Agree(leaderLog'[s], leaderLog'[u], k)
    BY <1>2 DEF OpenInv
  <2>1. s # t
    <3>1. leaderLog'[s][k].term = s
      BY Zenon DEF Open
    <3> QED BY <1>1, <1>4, <1>6, <3>1
  <2>2. leaderLog'[s] = leaderLog[s] /\ \A m \in Node : match'[s][m] = match[s][m]
    BY <1>4, <1>5, <2>1, Zenon
  <2>3. Open(s, k)
    <3>1. PICK q \in Quorum : \A m \in q : match'[s][m] >= k \/ currentTerm[m] <= s
      BY <1>2, Zenon DEF Open
    <3>2. q \subseteq Node
      BY RaftAssumption, Zenon
    <3>3. \A m \in q : match[s][m] >= k \/ currentTerm[m] <= s
      BY <2>2, <3>1, <3>2, Zenon
    <3> QED BY <2>2, <3>3, Zenon DEF Open
  <2>4. /\ \A m \in Node : match[s][m] >= k => Agree(leaderLog[s], log[m], k)
        /\ \A u \in Term, d, m \in Node :
             s < u /\ m \in granted[u][d] /\ match[s][m] >= k =>
               \/ candidacy[u][d].term > s
               \/ candidacy[u][d].term = s /\ candidacy[u][d].index >= k
        /\ \A u \in Term : s < u /\ leaders[u] # {} => Agree(leaderLog[s], leaderLog[u], k)
    BY <2>2, <2>3, Zenon DEF OpenInv
  <2>5. ASSUME NEW u \in Term, s < u, leaders'[u] # {}
        PROVE  Agree(leaderLog'[s], leaderLog'[u], k)
    <3>1. CASE u # t
      BY <1>4, <2>2, <2>4, <2>5, <3>1, Zenon
    <3>2. CASE u = t
      <4>1. k \in 1 .. Len(leaderLog[s])
        BY <2>2, Zenon
      <4>2. Agree(leaderLog[s], lg, k)
        BY <2>3, <2>5, <3>2, <4>1, WinnerComplete, Zenon
      <4> QED BY <1>4, <2>2, <3>2, <4>2, Zenon
    <3> QED BY <3>1, <3>2, Zenon
  <2> HIDE DEF lg, t
  <2> QED BY <2>2, <2>4, <2>5, Zenon
<1>14. CommitInv'
  <2> SUFFICES ASSUME NEW u \in Term, leaderCommit[u] > 0
               PROVE  /\ leaderCommit[u] <= Len(leaderLog'[u])
                      /\ leaderLog'[u][leaderCommit[u]].term = u
                      /\ \E q \in Quorum : \A m \in q : match'[u][m] >= leaderCommit[u]
    BY <1>2, Zenon DEF CommitInv
  <2>1. /\ leaderCommit[u] <= Len(leaderLog[u]) /\ leaderLog[u][leaderCommit[u]].term = u
        /\ \E q \in Quorum : \A m \in q : match[u][m] >= leaderCommit[u]
    BY Zenon DEF CommitInv
  <2>2. u # t
    BY <1>1, <2>1 DEF LogTypes
  <2>3. \A q \in Quorum : q \subseteq Node
    BY RaftAssumption, Zenon
  <2> QED BY <1>4, <1>5, <2>1, <2>2, <2>3, Zenon
<1> QED BY <1>8, <1>9, <1>10, <1>11, <1>12, <1>13, <1>14, Zenon

-----------------------------------------------------------------------------
(* A request of a client.                                                  *)

(* The leader's log grows by one entry of its term, on its node and in the *)
(* driver's copy.                                                          *)
Grows(n, t, new) ==
  /\ n \in leaders[t] /\ t = currentTerm[n] /\ currentTerm' = [currentTerm EXCEPT ![n] = t]
  /\ UNCHANGED <<candidacy, granted, leaders, leaderCommit>>
  /\ IsLog(new) /\ Len(new) = Len(log[n]) + 1 /\ Len(new) <= MaxLog
  /\ new[Len(new)].term = t /\ \A i \in 1 .. Len(log[n]) : new[i] = log[n][i]
  /\ log' = [log EXCEPT ![n] = new] /\ leaderLog' = [leaderLog EXCEPT ![t] = new]
  /\ match' = [match EXCEPT ![t][n] = Len(new)]

(* Grows preserves the invariant.  Nobody else has the new entry, so it    *)
(* may be committed only if no quorum has gone to a later term, and then   *)
(* there is no later leader.                                               *)
LEMMA GrowsStep ==
  ASSUME LogInv, VoteInv', NodeTypes', NEW n \in Node, NEW t \in Term, NEW new, Grows(n, t, new)
  PROVE  LogInv'
<1> DEFINE lg == log[n]
<1> USE DEF LogInv
<1>1. /\ n \in leaders[t] /\ t = currentTerm[n]
      /\ UNCHANGED <<candidacy, granted, leaders, leaderCommit>>
      /\ IsLog(new) /\ Len(new) = Len(lg) + 1 /\ Len(new) <= MaxLog
      /\ new[Len(new)].term = t /\ \A i \in 1 .. Len(lg) : new[i] = lg[i]
  BY Zenon DEF Grows
<1>2. /\ currentTerm \in [Node -> Nat] /\ log \in [Node -> Seq(Entries)]
      /\ leaderLog \in [Term -> Seq(Entries)] /\ match \in [Term -> [Node -> Nat]]
  BY Zenon DEF LogTypes, VoteInv, VoteTypes
<1>3. /\ \A m \in Node : /\ currentTerm'[m] = currentTerm[m]
                         /\ log'[m] = IF m = n THEN new ELSE log[m]
      /\ \A u \in Term : leaderLog'[u] = IF u = t THEN new ELSE leaderLog[u]
      /\ \A u \in Term, m \in Node :
           match'[u][m] = IF u = t /\ m = n THEN Len(new) ELSE match[u][m]
  BY <1>2, Zenon DEF Grows
<1>4. /\ \A m \in Node : currentTerm[m] \in Nat /\ Len(log[m]) \in Nat
      /\ \A u \in Term : u \in Nat /\ u >= 1 /\ Len(leaderLog[u]) \in Nat
      /\ \A m \in Node : \A i \in 1 .. Len(log[m]) : log[m][i].term \in Term
      /\ \A u \in Term : \A i \in 1 .. Len(leaderLog[u]) : leaderLog[u][i].term \in Term
      /\ \A u \in Term, m \in Node : match[u][m] \in Nat
  BY TypeFacts, Zenon
<1>5. leaderLog[t] = lg /\ Len(lg) \in Nat /\ Len(new) \in Nat
  <2>1. leaderLog[t] = lg
    BY <1>1, Zenon DEF TermInv
  <2>2. Len(lg) \in Nat
    BY <1>4, Zenon
  <2> QED BY <1>1, <2>1, <2>2
<1>6. \A m \in Node : match[t][m] <= Len(lg)
  BY <1>5, Zenon DEF TermInv
<1>7. \A u \in Term : \A m \in leaders[u] : u = t => m = n
  BY <1>1, VoteInvImplies, Zenon DEF LogTypes
<1> HIDE DEF lg
<1>8. ASSUME NEW a, NEW u \in Term, NEW k \in Nat, Agree(a, leaderLog[u], k)
      PROVE  Agree(a, leaderLog'[u], k)
  <2>1. CASE u # t
    BY <1>3, <1>8, <2>1, Zenon
  <2>2. CASE u = t
    <3>1. k <= Len(a) /\ k <= Len(lg) /\ \A i \in 1 .. k : a[i] = lg[i]
      BY <1>5, <1>8, <2>2, Zenon DEF Agree
    <3>2. k <= Len(new) /\ \A i \in 1 .. k : new[i] = lg[i]
      BY <1>1, <1>5, <3>1
    <3>3. Agree(a, new, k)
      BY <3>1, <3>2, Zenon DEF Agree
    <3> QED BY <1>3, <2>2, <3>3, Zenon
  <2> QED BY <2>1, <2>2, Zenon
<1>9. ASSUME NEW a, NEW m \in Node, NEW k \in Nat, Agree(a, log[m], k)
      PROVE  Agree(a, log'[m], k)
  <2>1. CASE m # n
    BY <1>3, <1>9, <2>1, Zenon
  <2>2. CASE m = n
    <3>1. Agree(a, new, k)
      BY <1>3, <1>5, <1>8, <1>9, <2>2, Zenon DEF lg
    <3> QED BY <1>3, <2>2, <3>1, Zenon
  <2> QED BY <2>1, <2>2, Zenon
<1>10. LogTypes'
  <2>1. /\ log' \in [Node -> Seq(Entries)] /\ leaderLog' \in [Term -> Seq(Entries)]
        /\ match' \in [Term -> [Node -> Nat]]
    BY <1>1, <1>2, <1>5, Zenon DEF Grows, IsLog
  <2>2. /\ \A u \in Term : IsLog(leaderLog'[u]) /\ Len(leaderLog'[u]) <= MaxLog
        /\ \A m \in Node : IsLog(log'[m]) /\ Len(log'[m]) <= MaxLog
        /\ \A m \in Node : currentTerm'[m] <= MaxTerm
    BY <1>1, <1>3, Zenon DEF LogTypes
  <2>3. /\ leaderCommit' \in [Term -> Nat]
        /\ candidacy' \in [Term -> [Node -> [index : Nat, term : Nat] \cup {Nil}]]
    BY <1>1, Zenon DEF LogTypes
  <2> QED BY <2>1, <2>2, <2>3, Zenon DEF LogTypes, NodeTypes
<1>11. TermInv'
  <2>1. \A i \in 1 .. Len(new) : new[i].term <= t
    <3> SUFFICES ASSUME NEW i \in 1 .. Len(new) PROVE new[i].term <= t
      BY Zenon
    <3>1. i \in 1 .. Len(lg) => new[i].term <= t
      BY <1>1, Zenon DEF TermInv, lg
    <3> QED BY <1>1, <1>4, <1>5, <3>1
  <2>2. ASSUME NEW m \in Node, NEW i \in 1 .. Len(log'[m]) PROVE log'[m][i].term <= currentTerm'[m]
    BY <1>1, <1>3, <2>1 DEF TermInv
  <2>3. ASSUME NEW u \in Term
        PROVE  /\ \A i \in 1 .. Len(leaderLog'[u]) : leaderLog'[u][i].term <= u
               /\ leaders[u] = {} => Len(leaderLog'[u]) = 0
    BY <1>1, <1>3, <2>1 DEF TermInv
  <2>4. ASSUME NEW u \in Term, NEW m \in Node
        PROVE  /\ m \in leaders[u] => u <= currentTerm[m]
               /\ m \in leaders[u] /\ u = currentTerm[m] => log'[m] = leaderLog'[u]
               /\ match'[u][m] <= Len(leaderLog'[u])
               /\ match'[u][m] > 0 => u <= currentTerm[m]
    <3>1. /\ m \in leaders[u] => u <= currentTerm[m]
          /\ m \in leaders[u] /\ u = currentTerm[m] => log[m] = leaderLog[u]
          /\ match[u][m] <= Len(leaderLog[u])
          /\ match[u][m] > 0 => u <= currentTerm[m]
      BY Zenon DEF TermInv
    <3>2. m \in leaders[u] /\ u = currentTerm[m] => log'[m] = leaderLog'[u]
      <4>1. CASE u = t
        BY <1>3, <1>7, <4>1, Zenon
      <4>2. CASE u # t
        BY <1>1, <1>3, <3>1, <4>2, Zenon
      <4> QED BY <4>1, <4>2, Zenon
    <3>3. match'[u][m] <= Len(leaderLog'[u])
      BY <1>1, <1>3, <1>4, <1>5, <1>6, <3>1
    <3>4. match'[u][m] > 0 => u <= currentTerm[m]
      BY <1>1, <1>3, <1>4, <3>1, Zenon
    <3> QED BY <3>1, <3>2, <3>3, <3>4, Zenon
  <2> QED BY <1>1, <1>3, <2>2, <2>3, <2>4 DEF TermInv
<1>12. FromLeader'
  <2>1. ASSUME NEW i \in 1 .. Len(new) PROVE Agree(new, leaderLog'[new[i].term], i)
    <3>1. CASE i = Len(new)
      BY <1>1, <1>3, <1>5, <3>1 DEF Agree
    <3>2. CASE i # Len(new)
      <4>1. i \in 1 .. Len(lg) /\ new[i] = lg[i] /\ i \in Nat
        BY <1>1, <1>5, <3>2
      <4>2. Agree(lg, leaderLog[lg[i].term], i) /\ lg[i].term \in Term
        BY <1>4, <4>1, Zenon DEF FromLeader, lg
      <4>3. Agree(lg, leaderLog'[lg[i].term], i)
        BY <1>8, <4>1, <4>2, Zenon
      <4> QED BY <1>1, <1>5, <4>1, <4>3 DEF Agree
    <3> QED BY <3>1, <3>2, Zenon
  <2>2. ASSUME NEW m \in Node, NEW i \in 1 .. Len(log'[m])
        PROVE  Agree(log'[m], leaderLog'[log'[m][i].term], i)
    <3>1. CASE m = n
      BY <1>3, <2>1, <3>1, Zenon
    <3>2. CASE m # n
      <4>1. log'[m] = log[m] /\ Agree(log[m], leaderLog[log[m][i].term], i)
            /\ log[m][i].term \in Term /\ i \in Nat
        BY <1>3, <1>4, <3>2 DEF FromLeader
      <4> QED BY <1>8, <4>1, Zenon
    <3> QED BY <3>1, <3>2, Zenon
  <2>3. ASSUME NEW u \in Term, NEW i \in 1 .. Len(leaderLog'[u])
        PROVE  Agree(leaderLog'[u], leaderLog'[leaderLog'[u][i].term], i)
    <3>1. CASE u = t
      BY <1>3, <2>1, <3>1, Zenon
    <3>2. CASE u # t
      <4>1. leaderLog'[u] = leaderLog[u] /\ Agree(leaderLog[u], leaderLog[leaderLog[u][i].term], i)
            /\ leaderLog[u][i].term \in Term /\ i \in Nat
        BY <1>3, <1>4, <3>2 DEF FromLeader
      <4> QED BY <1>8, <4>1, Zenon
    <3> QED BY <3>1, <3>2, Zenon
  <2> QED BY <2>2, <2>3, Zenon DEF FromLeader
<1>13. AckedInv'
  <2> SUFFICES ASSUME NEW m \in Node, NEW u \in Term, u = currentTerm[m]
               PROVE  Agree(leaderLog'[u], log'[m], match'[u][m])
    BY <1>3, Zenon DEF AckedInv
  <2>1. CASE u = t /\ m = n
    BY <1>3, <1>5, <2>1 DEF Agree
  <2>2. CASE ~(u = t /\ m = n)
    <3>1. match'[u][m] = match[u][m] /\ Agree(leaderLog[u], log[m], match[u][m])
      BY <1>3, <2>2, Zenon DEF AckedInv
    <3>2. Agree(leaderLog[u], log'[m], match[u][m])
      BY <1>4, <1>9, <3>1, Zenon
    <3>3. Agree(log'[m], leaderLog[u], match[u][m])
      BY <3>2, Zenon DEF Agree
    <3>4. Agree(log'[m], leaderLog'[u], match[u][m])
      BY <1>4, <1>8, <3>3, Zenon
    <3>5. Agree(leaderLog'[u], log'[m], match[u][m])
      BY <3>4, Zenon DEF Agree
    <3> QED BY <3>1, <3>5, Zenon
  <2> QED BY <2>1, <2>2, Zenon
<1>14. CandidateInv'
  <2>1. \A u \in Term, d \in Node : u = currentTerm[d] /\ leaders[u] = {} => log'[d] = log[d]
    BY <1>1, <1>3, Zenon
  <2> QED BY <1>1, <1>3, <2>1 DEF CandidateInv
<1>15. CommitInv'
  <2> SUFFICES ASSUME NEW u \in Term, leaderCommit[u] > 0
               PROVE  /\ leaderCommit[u] <= Len(leaderLog'[u])
                      /\ leaderLog'[u][leaderCommit[u]].term = u
                      /\ \E q \in Quorum : \A m \in q : match'[u][m] >= leaderCommit[u]
    BY <1>1, Zenon DEF CommitInv
  <2>1. leaderCommit[u] <= Len(leaderLog[u]) /\ leaderLog[u][leaderCommit[u]].term = u
    BY Zenon DEF CommitInv
  <2>2. PICK q \in Quorum : \A m \in q : match[u][m] >= leaderCommit[u]
    BY Zenon DEF CommitInv
  <2>3. q \subseteq Node /\ leaderCommit[u] \in Nat
    BY RaftAssumption, Zenon DEF LogTypes
  <2>4. leaderCommit[u] <= Len(leaderLog'[u]) /\ leaderLog'[u][leaderCommit[u]].term = u
    BY <1>1, <1>3, <1>4, <1>5, <2>1, <2>3
  <2>5. \A m \in q : match'[u][m] >= leaderCommit[u]
    <3> SUFFICES ASSUME NEW m \in q PROVE match'[u][m] >= leaderCommit[u]
      BY Zenon
    <3>1. m \in Node /\ match[u][m] >= leaderCommit[u] /\ match[u][m] \in Nat
      BY <1>4, <2>2, <2>3, Zenon
    <3> QED BY <1>1, <1>3, <1>5, <1>6, <2>3, <3>1
  <2> QED BY <2>4, <2>5, Zenon
<1>16. OpenInv'
  <2> SUFFICES ASSUME NEW s \in Term, NEW k \in 1 .. Len(leaderLog'[s]), Open(s, k)'
               PROVE  /\ \A m \in Node : match'[s][m] >= k => Agree(leaderLog'[s], log'[m], k)
                      /\ \A u \in Term, c, m \in Node :
                           s < u /\ m \in granted[u][c] /\ match'[s][m] >= k =>
                             \/ candidacy[u][c].term > s
                             \/ candidacy[u][c].term = s /\ candidacy[u][c].index >= k
                      /\ \A u \in Term : s < u /\ leaders[u] # {} =>
                                           Agree(leaderLog'[s], leaderLog'[u], k)
    BY <1>1 DEF OpenInv
  <2>1. k \in Nat /\ k >= 1
    BY <1>3, <1>4, <1>5
  <2>2. PICK q \in Quorum : \A m \in q : match'[s][m] >= k \/ currentTerm'[m] <= s
    BY Zenon DEF Open
  <2>3. q \subseteq Node
    BY RaftAssumption, Zenon
  <2>4. ASSUME NEW u \in Term, NEW c \in Node, t < u PROVE n \notin granted[u][c]
    <3>1. n \in granted[u][c] => u <= currentTerm[n]
      BY Zenon DEF LogTypes, VoteInv, VotesOnRecord
    <3> QED BY <1>1, <1>4, <2>4, <3>1
  <2>5. CASE s = t /\ k = Len(new)
    <3>1. \A m \in Node : match'[s][m] >= k => m = n
      BY <1>1, <1>3, <1>4, <1>5, <1>6, <2>5
    <3>2. ASSUME NEW m \in Node, match'[s][m] >= k PROVE Agree(leaderLog'[s], log'[m], k)
      BY <1>3, <1>5, <2>5, <3>1, <3>2 DEF Agree
    <3>3. ASSUME NEW u \in Term, s < u, leaders[u] # {} PROVE FALSE
      <4>1. PICK d \in leaders[u] : d \in Node
        BY <3>3, Zenon DEF LogTypes, VoteInv, VoteTypes
      <4>2. PICK r \in Quorum : r \subseteq granted[u][d]
        BY <4>1, Zenon DEF LogTypes, VoteInv, LeadersElected
      <4>3. PICK m : m \in q \cap r
        BY RaftAssumption
      <4>4. m \in Node /\ m \in granted[u][d]
        BY <2>3, <4>2, <4>3, Zenon
      <4>5. u <= currentTerm[m]
        BY <4>1, <4>4, Zenon DEF LogTypes, VoteInv, VotesOnRecord
      <4>6. m = n
        BY <1>3, <1>4, <2>2, <3>1, <3>3, <4>3, <4>4, <4>5
      <4> QED BY <2>4, <2>5, <3>3, <4>1, <4>4, <4>6, Zenon
    <3> QED BY <2>4, <2>5, <3>1, <3>2, <3>3
  <2>6. CASE ~(s = t /\ k = Len(new))
    <3>1. k \in 1 .. Len(leaderLog[s]) /\ leaderLog'[s][k] = leaderLog[s][k]
      BY <1>1, <1>3, <1>4, <1>5, <2>6
    <3>2. \A m \in q : match[s][m] >= k \/ currentTerm[m] <= s
      <4> SUFFICES ASSUME NEW m \in q PROVE match[s][m] >= k \/ currentTerm[m] <= s
        BY Zenon
      <4>1. m \in Node /\ (match'[s][m] >= k \/ currentTerm[m] <= s)
        BY <1>3, <2>2, <2>3, Zenon
      <4>2. CASE s = t /\ m = n
        BY <1>1, <1>4, <4>2
      <4>3. CASE ~(s = t /\ m = n)
        BY <1>3, <4>1, <4>3, Zenon
      <4> QED BY <4>2, <4>3, Zenon
    <3>3. Open(s, k)
      BY <3>1, <3>2, Zenon DEF Open
    <3>4. /\ \A m \in Node : match[s][m] >= k => Agree(leaderLog[s], log[m], k)
          /\ \A u \in Term, c, m \in Node :
               s < u /\ m \in granted[u][c] /\ match[s][m] >= k =>
                 \/ candidacy[u][c].term > s
                 \/ candidacy[u][c].term = s /\ candidacy[u][c].index >= k
          /\ \A u \in Term : s < u /\ leaders[u] # {} => Agree(leaderLog[s], leaderLog[u], k)
      BY <3>1, <3>3, Zenon DEF OpenInv
    <3>5. ASSUME NEW a, Agree(leaderLog[s], a, k) PROVE Agree(leaderLog'[s], a, k)
      <4>1. Agree(a, leaderLog[s], k)
        BY <3>5, Zenon DEF Agree
      <4>2. Agree(a, leaderLog'[s], k)
        BY <1>8, <2>1, <4>1, Zenon
      <4> QED BY <4>2, Zenon DEF Agree
    <3>6. ASSUME NEW m \in Node, match'[s][m] >= k PROVE Agree(leaderLog'[s], log'[m], k)
      <4>1. CASE s = t /\ m = n
        <5>1. leaderLog'[s] = new /\ log'[m] = new /\ k <= Len(new)
          BY <1>3, <1>5, <4>1
        <5> QED BY <5>1, Zenon DEF Agree
      <4>2. CASE ~(s = t /\ m = n)
        <5>1. Agree(leaderLog[s], log[m], k)
          BY <1>3, <3>4, <3>6, <4>2, Zenon
        <5>2. Agree(leaderLog[s], log'[m], k)
          BY <1>9, <2>1, <5>1, Zenon
        <5> QED BY <3>5, <5>2, Zenon
      <4> QED BY <4>1, <4>2, Zenon
    <3>7. ASSUME NEW u \in Term, NEW c \in Node, NEW m \in Node,
                 s < u, m \in granted[u][c], match'[s][m] >= k
          PROVE  match[s][m] >= k
      BY <1>3, <2>4, <3>7, Zenon
    <3>8. ASSUME NEW u \in Term, s < u, leaders[u] # {}
          PROVE  Agree(leaderLog'[s], leaderLog'[u], k)
      <4>1. Agree(leaderLog[s], leaderLog'[u], k)
        BY <1>8, <2>1, <3>4, <3>8, Zenon
      <4> QED BY <3>5, <4>1, Zenon
    <3> QED BY <3>4, <3>6, <3>7, <3>8, Zenon
  <2> QED BY <2>5, <2>6, Zenon
<1> QED BY <1>10, <1>11, <1>12, <1>13, <1>14, <1>15, <1>16, Zenon
=============================================================================
