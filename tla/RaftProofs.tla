----------------------------- MODULE RaftProofs -----------------------------
(***************************************************************************)
(* Proofs about Raft, for any nodes, quorums that intersect, terms and log *)
(* lengths, and any loss, repetition, delay and reordering of requests:    *)
(* the handlers take only steps of the kinds in RaftStepProofs.            *)
(*                                                                         *)
(* First come two loops, the retain of truncate_from and the one of        *)
(* append_entries.  What they leave follows by induction over the log and  *)
(* over the entries, from the least number of a set of naturals.  The      *)
(* log that append_entries leaves is the one it found, or the stretch of   *)
(* the leader's log up to the last entry sent.                             *)
(*                                                                         *)
(* Then the votes: one leader of a term.  ElectionSafety is not inductive; *)
(* the invariant adds that the votes a node has granted are of its current *)
(* term, and then for votedFor, or of an earlier one, and that it never    *)
(* grants two candidates the same term.                                    *)
(***************************************************************************)
EXTENDS Raft, RaftStepProofs, WellFoundedInduction, SequenceTheorems

(* A non-empty set of natural numbers has a least element.                 *)
LEMMA LeastNumber ==
  ASSUME NEW S \in SUBSET Nat, S # {}
  PROVE  \E m \in S : \A n \in S : m <= n
<1> DEFINE Less == OpToRel(<, Nat)
<1>1. IsWellFoundedOn(Less, Nat)
  BY NatLessThanWellFounded, Zenon
<1>2. \A x, y \in Nat : x < y => <<x, y>> \in Less
  BY Zenon DEF OpToRel
<1> HIDE DEF Less
<1>3. PICK x \in S : \A y \in S : ~(<<y, x>> \in Less)
  BY <1>1, WFMin, Zenon
<1>4. \A y \in S : ~(y < x)
  BY <1>2, <1>3, Zenon
<1>5. \A y \in S : x <= y
  BY <1>4
<1> QED BY <1>5, Zenon

(* A set that has 0, and k + 1 when it has a k below n, has 0 to n.        *)
LEMMA UpTo ==
  ASSUME NEW n \in Nat, NEW S, 0 \in S, \A k \in 0 .. n - 1 : k \in S => k + 1 \in S
  PROVE  \A k \in 0 .. n : k \in S
<1> SUFFICES ASSUME NEW i \in 0 .. n, i \notin S PROVE FALSE
  BY Zenon
<1> DEFINE Out == {k \in Nat : k <= n /\ k \notin S}
<1>1. i \in Out
  OBVIOUS
<1>2. PICK m \in Out : \A k \in Out : m <= k
  BY <1>1, LeastNumber, Zenon
<1>3. m # 0 /\ m - 1 \in Nat /\ m - 1 \in 0 .. n - 1
  BY <1>2
<1>4. m - 1 \in S
  <2>1. m - 1 \notin Out
    BY <1>2, <1>3
  <2> QED BY <1>3, <2>1
<1>5. (m - 1) + 1 \in S
  BY <1>3, <1>4, Zenon
<1> QED BY <1>2, <1>5

-----------------------------------------------------------------------------
(* The loops of the code.                                                  *)

(* truncate_from goes through the log once.                                *)
LEMMA RetainRun ==
  ASSUME NEW lg \in Seq(Entries), NEW from
  PROVE  \E f : /\ f[0] = <<>> /\ TruncateFrom(lg, from) = f[Len(lg)]
                /\ \A i \in 1 .. Len(lg) :
                     f[i] = IF lg[i].index < from THEN Append(f[i - 1], lg[i]) ELSE f[i - 1]
<1> DEFINE n == Len(lg)
           Step(x, i) == IF lg[i].index < from THEN Append(x, lg[i]) ELSE x
           Run(f, m) == f = [i \in 0 .. m |-> IF i = 0 THEN <<>> ELSE Step(f[i - 1], i)]
           S == {m \in Nat : \E f : Run(f, m)}
<1>1. n \in Nat
  OBVIOUS
<1>2. 0 \in S
  <2>1. Run([i \in 0 .. 0 |-> <<>>], 0)
    OBVIOUS
  <2> QED BY <2>1, Zenon
<1>3. ASSUME NEW m \in 0 .. n - 1, m \in S PROVE m + 1 \in S
  <2>1. PICK f : Run(f, m)
    BY <1>3, Zenon
  <2> DEFINE g == [i \in 0 .. m + 1 |-> IF i = m + 1 THEN Step(f[m], m + 1) ELSE f[i]]
  <2> HIDE DEF Step
  <2>2. ASSUME NEW i \in 0 .. m + 1 PROVE g[i] = IF i = 0 THEN <<>> ELSE Step(g[i - 1], i)
    <3>1. CASE i = m + 1
      <4>1. g[i - 1] = f[m] /\ i # 0
        BY <3>1
      <4> QED BY <3>1, <4>1, Zenon
    <3>2. CASE i # m + 1
      <4>1. i \in 0 .. m /\ (i # 0 => i - 1 \in 0 .. m /\ i - 1 # m + 1)
        BY <3>2
      <4>2. g[i] = f[i] /\ (i # 0 => g[i - 1] = f[i - 1])
        BY <4>1
      <4>3. f[i] = IF i = 0 THEN <<>> ELSE Step(f[i - 1], i)
        BY <2>1, <4>1, Zenon
      <4> QED BY <4>2, <4>3, Zenon
    <3> QED BY <3>1, <3>2, Zenon
  <2>3. Run(g, m + 1)
    BY <2>2, Zenon
  <2> HIDE DEF Run, g
  <2> QED BY <2>3
<1>4. n \in S
  <2> HIDE DEF S, n
  <2>1. \A m \in 0 .. n : m \in S
    BY <1>1, <1>2, <1>3, UpTo, Zenon
  <2> QED BY <1>1, <2>1
<1> DEFINE h == CHOOSE f : Run(f, n)
<1>5. Run(h, n)
  <2>1. \E f : Run(f, n)
    BY <1>4, Zenon
  <2> HIDE DEF Run
  <2> QED BY <2>1, Zenon
<1>6. TruncateFrom(lg, from) = h[n]
  BY Zenon DEF TruncateFrom
<1> HIDE DEF h
<1>7. h[0] = <<>> /\ \A i \in 1 .. n : h[i] = Step(h[i - 1], i)
  <2> HIDE DEF Step
  <2> QED BY <1>1, <1>5
<1> QED BY <1>6, <1>7, Zenon

(* The logs that append_entries goes through, from lg, for entries es.     *)
Run(f, lg, es) ==
  /\ f[0] = lg /\ AbsorbAll(lg, es) = f[Len(es)]
  /\ \A i \in 1 .. Len(es) : f[i] = Absorb(f[i - 1], es[i])

(* append_entries goes through the entries once.                           *)
LEMMA AbsorbRun ==
  ASSUME NEW lg, NEW es, Len(es) \in Nat
  PROVE  \E f : Run(f, lg, es)
<1> DEFINE n == Len(es)
           Fold(f, m) == f = [i \in 0 .. m |-> IF i = 0 THEN lg ELSE Absorb(f[i - 1], es[i])]
           S == {m \in Nat : \E f : Fold(f, m)}
<1>1. 0 \in S
  <2>1. Fold([i \in 0 .. 0 |-> lg], 0)
    OBVIOUS
  <2> QED BY <2>1, Zenon
<1>2. ASSUME NEW m \in 0 .. n - 1, m \in S PROVE m + 1 \in S
  <2>1. PICK f : Fold(f, m)
    BY <1>2, Zenon
  <2> DEFINE g == [i \in 0 .. m + 1 |-> IF i = m + 1 THEN Absorb(f[m], es[m + 1]) ELSE f[i]]
  <2>2. ASSUME NEW i \in 0 .. m + 1
        PROVE  g[i] = IF i = 0 THEN lg ELSE Absorb(g[i - 1], es[i])
    <3>1. CASE i = m + 1
      <4>1. g[i - 1] = f[m] /\ i # 0
        BY <3>1
      <4> QED BY <3>1, <4>1, Zenon
    <3>2. CASE i # m + 1
      <4>1. i \in 0 .. m /\ (i # 0 => i - 1 \in 0 .. m /\ i - 1 # m + 1)
        BY <3>2
      <4>2. g[i] = f[i] /\ (i # 0 => g[i - 1] = f[i - 1])
        BY <4>1
      <4>3. f[i] = IF i = 0 THEN lg ELSE Absorb(f[i - 1], es[i])
        BY <2>1, <4>1, Zenon
      <4> QED BY <4>2, <4>3, Zenon
    <3> QED BY <3>1, <3>2, Zenon
  <2>3. Fold(g, m + 1)
    BY <2>2, Zenon
  <2> HIDE DEF Fold, g
  <2> QED BY <2>3
<1>3. n \in S
  <2> HIDE DEF S, n
  <2>1. n \in Nat
    BY Zenon DEF n
  <2>2. \A m \in 0 .. n : m \in S
    BY <1>1, <1>2, <2>1, UpTo, Zenon
  <2> QED BY <2>1, <2>2
<1> DEFINE h == CHOOSE f : Fold(f, n)
<1>4. Fold(h, n)
  <2>1. \E f : Fold(f, n)
    BY <1>3, Zenon
  <2> HIDE DEF Fold
  <2> QED BY <2>1, Zenon
<1>5. AbsorbAll(lg, es) = h[n]
  BY Zenon DEF AbsorbAll
<1> HIDE DEF h
<1>6. h[0] = lg /\ \A i \in 1 .. n : h[i] = Absorb(h[i - 1], es[i])
  BY <1>4
<1> QED BY <1>5, <1>6, Zenon DEF Run

(* Without gaps, what truncate_from keeps is the log up to the index.      *)
LEMMA TruncateFacts ==
  ASSUME NEW lg \in Seq(Entries), \A i \in 1 .. Len(lg) : lg[i].index = i,
         NEW k \in 1 .. Len(lg)
  PROVE  TruncateFrom(lg, k) = SubSeq(lg, 1, k - 1)
<1> DEFINE n == Len(lg)
           Upto(i) == IF i < k THEN i ELSE k - 1
<1>1. n \in Nat /\ lg \in [1 .. n -> Entries]
  OBVIOUS
<1>2. PICK f : /\ f[0] = <<>> /\ TruncateFrom(lg, k) = f[n]
               /\ \A i \in 1 .. n : f[i] = IF lg[i].index < k THEN Append(f[i - 1], lg[i])
                                           ELSE f[i - 1]
  BY RetainRun
<1> DEFINE S == {i \in Nat : i <= n => f[i] = SubSeq(lg, 1, Upto(i))}
<1>3. 0 \in S
  <2>1. SubSeq(lg, 1, 0) = <<>>
    BY SubSeqEmpty
  <2>2. Upto(0) = 0
    BY <1>1
  <2>3. f[0] = SubSeq(lg, 1, Upto(0))
    BY <1>2, <2>1, <2>2, Zenon
  <2> HIDE DEF Upto
  <2> QED BY <2>3, Zenon
<1>4. ASSUME NEW i \in 0 .. n - 1, i \in S PROVE i + 1 \in S
  <2>1. i + 1 \in 1 .. n /\ (i + 1) - 1 = i /\ i \in Nat /\ i <= n /\ i + 1 \in Nat
    BY <1>1
  <2>2. f[i] = SubSeq(lg, 1, Upto(i)) /\ lg[i + 1].index = i + 1
    BY <1>4, <2>1, Zenon
  <2>3. f[i + 1] = IF i + 1 < k THEN Append(f[i], lg[i + 1]) ELSE f[i]
    BY <1>2, <2>1, <2>2, Zenon
  <2>4. CASE i + 1 < k
    <3>1. SubSeq(lg, 1, i + 1) = SubSeq(lg, 1, i) \o <<lg[i + 1]>>
      BY <2>1, SubSeqRecursiveSecond
    <3>2. SubSeq(lg, 1, i) \in Seq(Entries) /\ lg[i + 1] \in Entries
      BY <1>1, <2>1, SubSeqProperties
    <3>3. Append(SubSeq(lg, 1, i), lg[i + 1]) = SubSeq(lg, 1, i + 1)
      BY <3>1, <3>2, AppendIsConcat, Zenon
    <3>4. Upto(i) = i /\ Upto(i + 1) = i + 1
      BY <2>1, <2>4
    <3> QED BY <2>1, <2>2, <2>3, <2>4, <3>3, <3>4, Zenon
  <2>5. CASE ~(i + 1 < k)
    <3>1. Upto(i) = Upto(i + 1)
      BY <2>1, <2>5
    <3> QED BY <2>1, <2>2, <2>3, <2>5, <3>1, Zenon
  <2> QED BY <2>4, <2>5, Zenon
<1>5. n \in S
  <2> HIDE DEF S, n
  <2>1. \A i \in 0 .. n : i \in S
    BY <1>1, <1>3, <1>4, UpTo, Zenon
  <2> QED BY <1>1, <2>1
<1>6. Upto(n) = k - 1
  BY <1>1
<1> QED BY <1>1, <1>2, <1>5, <1>6

(* The first k entries of a log are a log.                                 *)
LEMMA PrefixFacts ==
  ASSUME NEW lg, IsLog(lg), NEW k \in 0 .. Len(lg)
  PROVE  /\ IsLog(SubSeq(lg, 1, k)) /\ Len(SubSeq(lg, 1, k)) = k
         /\ \A i \in 1 .. k : SubSeq(lg, 1, k)[i] = lg[i]
         /\ k < Len(lg) => SubSeq(lg, 1, k + 1) = Append(SubSeq(lg, 1, k), lg[k + 1])
<1> DEFINE s == SubSeq(lg, 1, k)
<1>1. lg \in Seq(Entries) /\ Len(lg) \in Nat /\ k \in Nat /\ k <= Len(lg)
  BY DEF IsLog
<1>2. \A i \in 1 .. k : lg[i] \in Entries
  BY <1>1
<1>3. s \in Seq(Entries) /\ Len(s) = k /\ \A i \in 1 .. k : s[i] = lg[i]
  BY <1>1, <1>2, SubSeqProperties
<1>4. k < Len(lg) => SubSeq(lg, 1, k + 1) = Append(s, lg[k + 1])
  <2> SUFFICES ASSUME k < Len(lg) PROVE SubSeq(lg, 1, k + 1) = Append(s, lg[k + 1])
    BY Zenon
  <2>1. 1 \in 1 .. Len(lg) /\ k + 1 \in 1 .. Len(lg) /\ (k + 1) - 1 = k
    BY <1>1
  <2>2. SubSeq(lg, 1, k + 1) = s \o <<lg[k + 1]>>
    BY <1>1, <2>1, SubSeqRecursiveSecond, Zenon
  <2>3. lg[k + 1] \in Entries
    BY <1>1, <2>1
  <2> QED BY <1>3, <2>2, <2>3, AppendIsConcat, Zenon
<1>5. IsLog(s)
  <2> HIDE DEF s
  <2>1. \A i \in 1 .. k : i \in 1 .. Len(lg)
    BY <1>1
  <2> QED BY <1>3, <2>1, Zenon DEF IsLog
<1> QED BY <1>3, <1>4, <1>5, Zenon

(* Logs that agree on k entries have the same first k entries.             *)
LEMMA AgreePrefix ==
  ASSUME NEW a, NEW b, IsLog(a), IsLog(b), NEW k \in Nat, Agree(a, b, k)
  PROVE  SubSeq(a, 1, k) = SubSeq(b, 1, k)
<1>1. k \in 0 .. Len(a) /\ k \in 0 .. Len(b) /\ \A i \in 1 .. k : a[i] = b[i]
  BY DEF Agree, IsLog
<1> DEFINE s == SubSeq(a, 1, k)
           t == SubSeq(b, 1, k)
<1>2. /\ s \in Seq(Entries) /\ Len(s) = k /\ \A i \in 1 .. k : s[i] = a[i]
      /\ t \in Seq(Entries) /\ Len(t) = k /\ \A i \in 1 .. k : t[i] = b[i]
  BY <1>1, PrefixFacts, Zenon DEF IsLog
<1> HIDE DEF s, t
<1>3. s = t
  BY <1>1, <1>2, SeqEqual, Zenon
<1> QED BY <1>3, Zenon DEF s, t

(* One round of the loop of append_entries, for an entry that leaves no    *)
(* gap.                                                                    *)
LEMMA AbsorbFacts ==
  ASSUME NEW lg, IsLog(lg), NEW e \in Entries
  PROVE  /\ e.index = Len(lg) + 1 => Absorb(lg, e) = Append(lg, e)
         /\ e.index \in 1 .. Len(lg) =>
              Absorb(lg, e) = IF lg[e.index].term = e.term THEN lg
                              ELSE Append(SubSeq(lg, 1, e.index - 1), e)
<1>1. /\ lg \in Seq(Entries) /\ Len(lg) \in Nat
      /\ \A i \in 1 .. Len(lg) : lg[i].index = i
  BY DEF IsLog
<1>2. e.index \in Nat /\ e.term # Nil /\ \A i \in 1 .. Len(lg) : lg[i].term # Nil
  <2>1. \A x \in Term : x # Nil
    BY RaftAssumption DEF Term
  <2>2. \A x \in Entries : x.term \in Term /\ x.index \in Nat
    BY Zenon DEF Entries
  <2>3. \A i \in 1 .. Len(lg) : lg[i] \in Entries
    BY <1>1
  <2> QED BY <2>1, <2>2, <2>3, Zenon
<1>3. TermAt(lg, e.index) = IF e.index = 0 THEN 0
                            ELSE IF e.index <= Len(lg) THEN lg[e.index].term ELSE Nil
  BY <1>2, TermAtFacts, Zenon
<1>4. e.index = Len(lg) + 1 => Absorb(lg, e) = Append(lg, e)
  BY <1>1, <1>2, <1>3 DEF Absorb
<1>5. ASSUME e.index \in 1 .. Len(lg)
      PROVE  Absorb(lg, e) = IF lg[e.index].term = e.term THEN lg
                             ELSE Append(SubSeq(lg, 1, e.index - 1), e)
  <2>1. TermAt(lg, e.index) = lg[e.index].term /\ lg[e.index].term # Nil
    BY <1>1, <1>2, <1>3, <1>5
  <2>2. TruncateFrom(lg, e.index) = SubSeq(lg, 1, e.index - 1)
    BY <1>1, <1>5, TruncateFacts, Zenon
  <2> QED BY <2>1, <2>2, Zenon DEF Absorb
<1> QED BY <1>4, <1>5, Zenon

(* Where a log has an entry with the term of ll's, it is ll up to there.    *)
Matched(lg, ll) ==
  \A i \in 1 .. Len(ll) : i <= Len(lg) /\ lg[i].term = ll[i].term => Agree(lg, ll, i)

(* The loop of append_entries, for a stretch of a log with which the       *)
(* node's matches.  It leaves the node's log, when that has the stretch    *)
(* already, or that log up to the last entry sent.                         *)
LEMMA AbsorbLeader ==
  ASSUME NEW lg, NEW ll, IsLog(lg), IsLog(ll), NEW prev \in Nat, NEW last \in Nat,
         prev <= last, last <= Len(ll), Agree(lg, ll, prev), Matched(lg, ll)
  PROVE  AbsorbAll(lg, SubSeq(ll, prev + 1, last)) =
           IF Agree(lg, ll, last) THEN lg ELSE SubSeq(ll, 1, last)
<1> DEFINE es == SubSeq(ll, prev + 1, last)
           n == last - prev
           X(i) == IF Agree(lg, ll, prev + i) THEN lg ELSE SubSeq(ll, 1, prev + i)
<1>1. /\ Len(lg) \in Nat /\ Len(ll) \in Nat /\ n \in Nat
      /\ \A i \in 1 .. Len(ll) : ll[i] \in Entries /\ ll[i].index = i
  BY DEF IsLog
<1>2. Len(es) = n /\ \A i \in 1 .. n : es[i] = ll[prev + i]
  <2>1. \A i \in prev + 1 .. last : ll[i] \in Entries
    BY <1>1
  <2>2. prev + 1 \in Int /\ last \in Int
    OBVIOUS
  <2>3. /\ Len(es) = IF prev + 1 <= last THEN last - (prev + 1) + 1 ELSE 0
        /\ \A i \in 1 .. last - (prev + 1) + 1 : es[i] = ll[(prev + 1) + i - 1]
    BY <2>1, <2>2, SubSeqProperties
  <2> HIDE DEF es
  <2> QED BY <2>3
<1> HIDE DEF es
<1>3. PICK f : /\ f[0] = lg /\ AbsorbAll(lg, es) = f[n]
               /\ \A i \in 1 .. n : f[i] = Absorb(f[i - 1], es[i])
  <2>1. Len(es) \in Nat
    BY <1>1, <1>2, Zenon
  <2>2. \E f : Run(f, lg, es)
    BY <2>1, AbsorbRun, Zenon
  <2> HIDE DEF n
  <2> QED BY <1>2, <2>2, Zenon DEF Run
<1> DEFINE S == {i \in Nat : i <= n => f[i] = X(i)}
<1>4. 0 \in S
  BY <1>3
<1>5. ASSUME NEW i \in 0 .. n - 1, i \in S PROVE i + 1 \in S
  <2> SUFFICES f[i + 1] = X(i + 1)
    BY <1>1
  <2> DEFINE j == prev + i
             e == ll[j + 1]
  <2>1. /\ j \in Nat /\ j + 1 \in 1 .. Len(ll) /\ j < Len(ll) /\ j \in 0 .. Len(ll)
        /\ prev + (i + 1) = j + 1 /\ i \in Nat /\ i <= n
        /\ i + 1 \in 1 .. n /\ (i + 1) - 1 = i
    BY <1>1
  <2>2. e \in Entries /\ e.index = j + 1 /\ f[i] = X(i) /\ es[i + 1] = e
    BY <1>1, <1>2, <1>5, <2>1
  <2>3. f[i + 1] = Absorb(X(i), e)
    BY <1>3, <2>1, <2>2
  <2>4. /\ SubSeq(ll, 1, j + 1) = Append(SubSeq(ll, 1, j), e)
        /\ IsLog(SubSeq(ll, 1, j)) /\ Len(SubSeq(ll, 1, j)) = j
    BY <2>1, PrefixFacts, Zenon
  <2> HIDE DEF e, j
  <2>5. CASE ~Agree(lg, ll, j)
    <3>1. ~Agree(lg, ll, j + 1)
      BY <2>1, <2>5 DEF Agree
    <3>2. Absorb(SubSeq(ll, 1, j), e) = Append(SubSeq(ll, 1, j), e)
      BY <2>2, <2>4, AbsorbFacts, Zenon
    <3>3. X(i) = SubSeq(ll, 1, j) /\ X(i + 1) = SubSeq(ll, 1, j + 1)
      BY <2>1, <2>5, <3>1, Zenon DEF j
    <3> HIDE DEF X
    <3> QED BY <2>1, <2>3, <2>4, <3>2, <3>3, Zenon
  <2>6. CASE Agree(lg, ll, j)
    <3>1. X(i) = lg /\ X(i + 1) = IF Agree(lg, ll, j + 1) THEN lg ELSE SubSeq(ll, 1, j + 1)
      BY <2>1, <2>6, Zenon DEF j
    <3>2. SubSeq(lg, 1, j) = SubSeq(ll, 1, j) /\ j <= Len(lg)
      BY <2>1, <2>6, AgreePrefix, Zenon DEF Agree
    <3> HIDE DEF X
    <3>3. CASE j = Len(lg)
      <4>1. ~Agree(lg, ll, j + 1)
        BY <1>1, <2>1, <3>3 DEF Agree
      <4>2. lg = SubSeq(lg, 1, j)
        BY <3>3, SubSeqFull, Zenon DEF IsLog
      <4>3. Absorb(lg, e) = Append(lg, e)
        BY <2>2, <3>3, AbsorbFacts, Zenon
      <4>4. Absorb(lg, e) = Append(SubSeq(ll, 1, j), e)
        BY <3>2, <4>2, <4>3, Zenon
      <4> QED BY <2>1, <2>3, <2>4, <3>1, <4>1, <4>4, Zenon
    <3>4. CASE j < Len(lg)
      <4>1. e.index \in 1 .. Len(lg) /\ e.index - 1 = j
        BY <1>1, <2>1, <2>2, <3>4
      <4>2. Absorb(lg, e) = IF lg[j + 1].term = e.term THEN lg ELSE Append(SubSeq(lg, 1, j), e)
        <5>1. Absorb(lg, e) = IF lg[e.index].term = e.term THEN lg
                              ELSE Append(SubSeq(lg, 1, e.index - 1), e)
          BY <2>2, <4>1, AbsorbFacts, Zenon
        <5> QED BY <2>2, <4>1, <5>1, Zenon
      <4>3. lg[j + 1].term = e.term <=> Agree(lg, ll, j + 1)
        <5>1. j + 1 \in 1 .. Len(ll) /\ j + 1 <= Len(lg) /\ j + 1 \in 1 .. j + 1
          BY <1>1, <2>1, <3>4
        <5>2. ASSUME lg[j + 1].term = e.term PROVE Agree(lg, ll, j + 1)
          BY <5>1, <5>2, Zenon DEF Matched, e
        <5>3. ASSUME Agree(lg, ll, j + 1) PROVE lg[j + 1].term = e.term
          BY <5>1, <5>3, Zenon DEF Agree, e
        <5> QED BY <5>2, <5>3, Zenon
      <4> QED BY <2>1, <2>3, <2>4, <3>1, <3>2, <4>2, <4>3, Zenon
    <3> QED BY <1>1, <2>1, <3>2, <3>3, <3>4
  <2> QED BY <2>5, <2>6, Zenon
<1>6. n \in S
  <2> HIDE DEF S, n
  <2>1. \A i \in 0 .. n : i \in S
    BY <1>1, <1>4, <1>5, UpTo, Zenon
  <2> QED BY <1>1, <2>1
<1>7. X(n) = IF Agree(lg, ll, last) THEN lg ELSE SubSeq(ll, 1, last)
  <2>1. prev + n = last
    OBVIOUS
  <2> QED BY <2>1, Zenon
<1> HIDE DEF X
<1> QED BY <1>1, <1>3, <1>6, <1>7 DEF es

-----------------------------------------------------------------------------
(* The handlers take steps of these kinds.                                 *)

(* Nobody has voted in the initial state.                                  *)
LEMMA InitVoteInv == Init => VoteInv
BY DEF Init, VoteInv, VoteTypes, VotesOnRecord, OneVote, LeadersElected, Term

(* A call that takes the term of the caller and forgets the vote only when *)
(* that term is higher preserves the invariant.                            *)
LEMMA TermTaken ==
  ASSUME VoteInv, NEW n \in Node, NEW t \in Term, t >= currentTerm[n],
         currentTerm' = [currentTerm EXCEPT ![n] = t],
         votedFor' = [votedFor EXCEPT ![n] = VoteIn(n, t)],
         UNCHANGED <<granted, leaders>>
  PROVE  VoteInv'
<1>1. VoteTypes'
  BY DEF VoteInv, VoteTypes, VoteIn, Term
<1>2. VotesOnRecord'
  <2> SUFFICES ASSUME NEW u \in Term, NEW c \in Node, NEW m \in Node, m \in granted[u][c]
               PROVE  u <= currentTerm'[m] /\ (u = currentTerm'[m] => votedFor'[m] = c)
    BY DEF VotesOnRecord
  <2>1. u <= currentTerm[m] /\ (u = currentTerm[m] => votedFor[m] = c)
    BY Zenon DEF VoteInv, VotesOnRecord
  <2> QED BY <2>1 DEF VoteInv, VoteTypes, VoteIn, Term
<1>3. OneVote' /\ LeadersElected'
  BY Zenon DEF VoteInv, OneVote, LeadersElected
<1> QED BY <1>1, <1>2, <1>3, Zenon DEF VoteInv

(* vote preserves the invariant: the receiver grants a second candidate    *)
(* only in a new term.                                                     *)
LEMMA VoteStep ==
  ASSUME VoteInv, NEW n \in Node, NEW t \in Term, NEW c \in Node, NEW i, NEW lt,
         Vote(n, t, c, i, lt), UNCHANGED leaders
  PROVE  VoteInv'
<1>1. CASE ~Grants(n, t, c, i, lt)
  <2>1. /\ t >= currentTerm[n]
        /\ currentTerm' = [currentTerm EXCEPT ![n] = t]
        /\ votedFor' = [votedFor EXCEPT ![n] = VoteIn(n, t)]
        /\ UNCHANGED <<granted, leaders>>
    BY <1>1 DEF Vote
  <2> QED BY <2>1, TermTaken, Zenon
<1>2. CASE Grants(n, t, c, i, lt)
  <2>1. /\ t >= currentTerm[n]
        /\ currentTerm' = [currentTerm EXCEPT ![n] = t]
        /\ votedFor' = [votedFor EXCEPT ![n] = c]
        /\ granted' = [granted EXCEPT ![t][c] = @ \cup {n}]
    BY <1>2, Zenon DEF Vote
  <2>2. VoteTypes'
    <3>1. granted' \in [Term -> [Node -> SUBSET Node]]
      BY <2>1 DEF VoteInv, VoteTypes
    <3>2. currentTerm' \in [Node -> Nat] /\ votedFor' \in [Node -> Node \cup {Nil}]
      BY <2>1 DEF VoteInv, VoteTypes, Term
    <3> QED BY <3>1, <3>2, Zenon DEF VoteInv, VoteTypes
  <2>3. \A u \in Term, d, m \in Node :
          m \in granted'[u][d] <=> m \in granted[u][d] \/ (u = t /\ d = c /\ m = n)
    BY <2>1, Zenon DEF VoteInv, VoteTypes
  <2>4. \A d \in Node : n \in granted[t][d] => d = c
    <3> SUFFICES ASSUME NEW d \in Node, n \in granted[t][d] PROVE d = c
      BY Zenon
    <3>1. t = currentTerm[n] /\ votedFor[n] = d
      BY <2>1 DEF VoteInv, VoteTypes, VotesOnRecord, Term
    <3>2. VoteIn(n, t) = d
      BY <3>1 DEF VoteIn, VoteInv, VoteTypes
    <3> QED BY <1>2, <3>2, RaftAssumption, Zenon DEF Grants
  <2>5. VotesOnRecord'
    <3> SUFFICES ASSUME NEW u \in Term, NEW d \in Node, NEW m \in Node, m \in granted'[u][d]
                 PROVE  u <= currentTerm'[m] /\ (u = currentTerm'[m] => votedFor'[m] = d)
      BY Zenon DEF VotesOnRecord
    <3>1. CASE u = t /\ d = c /\ m = n
      BY <2>1, <3>1 DEF VoteInv, VoteTypes, Term
    <3>2. CASE m \in granted[u][d]
      <4>1. u <= currentTerm[m] /\ (u = currentTerm[m] => votedFor[m] = d)
        BY <3>2, Zenon DEF VoteInv, VotesOnRecord
      <4>2. m = n /\ u = t => d = c
        BY <3>2, <2>4, Zenon
      <4> QED BY <4>1, <4>2, <2>1 DEF VoteInv, VoteTypes, Term
    <3> QED BY <3>1, <3>2, <2>3, Zenon
  <2>6. OneVote'
    BY <2>3, <2>4 DEF VoteInv, OneVote
  <2>7. LeadersElected'
    <3> SUFFICES ASSUME NEW u \in Term, NEW d \in leaders[u]
                 PROVE  \E q \in Quorum : q \subseteq granted'[u][d]
      BY Zenon DEF LeadersElected
    <3>1. d \in Node
      BY Zenon DEF VoteInv, VoteTypes
    <3>2. PICK q \in Quorum : q \subseteq granted[u][d]
      BY Zenon DEF VoteInv, LeadersElected
    <3>3. q \subseteq Node
      BY RaftAssumption, Zenon
    <3> QED BY <2>3, <3>1, <3>2, <3>3, Zenon
  <2> QED BY <2>2, <2>5, <2>6, <2>7, Zenon DEF VoteInv
<1> QED BY <1>1, <1>2, Zenon

(* append_entries leaves the votes alone but for the term.                 *)
LEMMA AppendStep ==
  ASSUME VoteInv, NEW n \in Node, NEW t \in Term, NEW l, NEW p, NEW pt, NEW es, NEW ci,
         AppendEntries(n, t, l, p, pt, es, ci), UNCHANGED <<granted, leaders>>
  PROVE  VoteInv'
<1>1. /\ t >= currentTerm[n]
      /\ currentTerm' = [currentTerm EXCEPT ![n] = t]
      /\ votedFor' = [votedFor EXCEPT ![n] = VoteIn(n, t)]
  BY Zenon DEF AppendEntries
<1> QED BY <1>1, TermTaken, Zenon

(* Every step preserves the invariant.                                     *)
LEMMA NextVoteInv == VoteInv /\ [Next]_vars => VoteInv'
<1> SUFFICES ASSUME VoteInv, [Next]_vars PROVE VoteInv'
  BY Zenon
<1>1. CASE UNCHANGED vars
  BY <1>1 DEF vars, nodeVars, voteVars, VoteInv, VoteTypes, VotesOnRecord, OneVote, LeadersElected
<1>2. ASSUME NEW n \in Node, StartElection(n) PROVE VoteInv'
  <2>1. currentTerm[n] + 1 \in Term /\ UNCHANGED leaders
    BY <1>2, Zenon DEF StartElection
  <2>2. Vote(n, currentTerm[n] + 1, n, LastLogIndex(log[n]), LastLogTerm(log[n]))
    BY <1>2, Zenon DEF StartElection
  <2> QED BY <2>1, <2>2, VoteStep, Zenon
<1>3. ASSUME NEW n \in Node, NEW t \in Term, NEW c \in Node, RequestVote(n, t, c) PROVE VoteInv'
  BY <1>3, VoteStep, Zenon DEF RequestVote
<1>4. ASSUME NEW n \in Node, BecomeLeader(n) PROVE VoteInv'
  <2>1. UNCHANGED <<currentTerm, votedFor, granted>>
    BY <1>4, Zenon DEF BecomeLeader, nodeVars
  <2>2. PICK t \in Term : /\ leaders' = [leaders EXCEPT ![t] = @ \cup {n}]
                          /\ \E q \in Quorum : q \subseteq granted[t][n]
    BY <1>4, Zenon DEF BecomeLeader
  <2> QED BY <2>1, <2>2 DEF VoteInv, VoteTypes, VotesOnRecord, OneVote, LeadersElected
<1>5. ASSUME NEW n \in Node, ClientRequest(n) PROVE VoteInv'
  <2>1. currentTerm[n] \in Term /\ UNCHANGED <<granted, leaders>>
    BY <1>5, Zenon DEF ClientRequest, Leads, voteVars
  <2> QED BY <1>5, <2>1, AppendStep, Zenon DEF ClientRequest
<1>6. ASSUME NEW n \in Node, NEW t \in Term, NEW l, NEW p, NEW k, NEW ci,
             Replicate(n, t, l, p, k, ci)
      PROVE  VoteInv'
  BY <1>6, AppendStep, Zenon DEF Replicate, voteVars
<1>7. ASSUME NEW n \in Node, NEW i, AdvanceCommit(n, i) PROVE VoteInv'
  <2>1. currentTerm[n] \in Term /\ UNCHANGED <<granted, leaders>>
    BY <1>7, Zenon DEF AdvanceCommit, Leads, voteVars
  <2> QED BY <1>7, <2>1, AppendStep, Zenon DEF AdvanceCommit
<1>8. ASSUME NEW n \in Node, NEW t \in Term, SendSnapshot(n, t) PROVE VoteInv'
  BY <1>8, TermTaken, Zenon DEF SendSnapshot, InstallSnapshot, voteVars
<1> QED BY <1>1, <1>2, <1>3, <1>4, <1>5, <1>6, <1>7, <1>8 DEF Next

-----------------------------------------------------------------------------
(* The vote handler never lets two candidates win one term.                *)
THEOREM OneLeaderPerTerm == Spec => []ElectionSafety
<1>1. Spec => []VoteInv
  BY InitVoteInv, NextVoteInv, PTL DEF Spec
<1> QED BY <1>1, VoteInvImplies, PTL DEF ElectionSafety

(* vote preserves the invariant, whether it grants or refuses.             *)
LEMMA VoteLogStep ==
  ASSUME LogInv, VoteInv', NEW n \in Node, NEW t \in Term, NEW c \in Node,
         Vote(n, t, c, candidacy'[t][c].index, candidacy'[t][c].term),
         UNCHANGED <<leaders, leaderLog, leaderCommit, match>>,
         \/ candidacy' = candidacy /\ candidacy[t][c] # Nil
         \/ /\ c = n /\ t = currentTerm[n] + 1
            /\ candidacy' = [candidacy EXCEPT ![t][n] =
                               [index |-> LastLogIndex(log[n]), term |-> LastLogTerm(log[n])]]
            /\ Grants(n, t, c, candidacy'[t][c].index, candidacy'[t][c].term)
  PROVE  LogInv'
<1> DEFINE li == candidacy'[t][c].index
           lt == candidacy'[t][c].term
<1>1. /\ t >= currentTerm[n] /\ currentTerm' = [currentTerm EXCEPT ![n] = t]
      /\ UNCHANGED <<leaderId, log, commitIndex>>
      /\ granted' = IF Grants(n, t, c, li, lt) THEN [granted EXCEPT ![t][c] = @ \cup {n}]
                    ELSE granted
  BY Zenon DEF Vote
<1> HIDE DEF li, lt
<1>2. CASE Grants(n, t, c, li, lt)
  <2>1. UpToDate(log[n], li, lt) /\ granted' = [granted EXCEPT ![t][c] = @ \cup {n}]
    BY <1>1, <1>2, Zenon DEF Grants
  <2>2. VotesFor(n, t, c)
    BY <1>1, <2>1, Zenon DEF VotesFor, li, lt
  <2>3. (LogTypes /\ TermInv /\ FromLeader /\ AckedInv /\ CandidateInv /\ CommitInv)'
    BY <2>2, VotesBasics, Zenon DEF LogInv
  <2>4. OpenInv'
    BY <2>2, VotesOpen, Zenon DEF LogInv
  <2> QED BY <2>3, <2>4, Zenon DEF LogInv
<1>3. CASE ~Grants(n, t, c, li, lt)
  <2>1. granted' = granted /\ candidacy' = candidacy
    BY <1>1, <1>3, Zenon DEF li, lt
  <2>2. NodeTypes' /\ Receives(n, t, log[n])
    BY <1>1, <2>1, TermReceived, Zenon DEF LogInv
  <2> QED BY <2>2, ReceivesStep, Zenon
<1> QED BY <1>2, <1>3, Zenon

(* append_entries with a stretch of a leader's log.                        *)
LEMMA AppendReceives ==
  ASSUME LogTypes, FromLeader, NEW n \in Node, NEW t \in Term, NEW l \in Node, leaders[t] # {},
         NEW last \in 0 .. Len(leaderLog[t]), NEW prev \in 0 .. last, NEW pt, NEW ci \in Nat,
         pt = IF prev = 0 THEN 0 ELSE leaderLog[t][prev].term,
         NEW es, es = SubSeq(leaderLog[t], prev + 1, last),
         AppendEntries(n, t, l, prev, pt, es, ci),
         UNCHANGED <<candidacy, granted, leaders, leaderLog>>
  PROVE  NodeTypes' /\ \E new : Receives(n, t, new)
<1> DEFINE ll == leaderLog[t]
           lg == log[n]
           accepted == PrevMatches(lg, prev, pt)
           new == AbsorbAll(lg, es)
           end == LastLogIndex(new)
<1>1. /\ IsLog(lg) /\ Len(lg) \in Nat /\ Len(lg) <= MaxLog
      /\ IsLog(ll) /\ Len(ll) \in Nat /\ Len(ll) <= MaxLog
      /\ \A i \in 1 .. Len(ll) : ll[i].term \in Term
      /\ currentTerm[n] \in Nat /\ match[t][n] \in Nat
  BY TypeFacts, Zenon
<1>2. /\ last \in Nat /\ prev \in Nat /\ prev <= last /\ last <= Len(ll)
      /\ last - (prev + 1) + 1 = last - prev /\ prev + (last - prev) = last
  BY <1>1
<1>3. /\ t >= currentTerm[n] /\ currentTerm' = [currentTerm EXCEPT ![n] = t]
      /\ leaderId' = [leaderId EXCEPT ![n] = l]
      /\ log' = IF accepted THEN [log EXCEPT ![n] = new] ELSE log
      /\ commitIndex' = IF accepted /\ ci > commitIndex[n]
                          THEN [commitIndex EXCEPT ![n] = IF ci < end THEN ci ELSE end]
                          ELSE commitIndex
      /\ match' = IF accepted /\ match[t][n] < prev + Len(es)
                    THEN [match EXCEPT ![t][n] = prev + Len(es)] ELSE match
  BY Zenon DEF AppendEntries
<1>4. log \in [Node -> Seq(Entries)] /\ NodeTypes
  BY Zenon DEF LogTypes, NodeTypes
<1> HIDE DEF new, accepted, end
<1>5. CASE ~accepted
  <2>1. log' = [log EXCEPT ![n] = lg] /\ match' = match
    BY <1>3, <1>4, <1>5, Zenon
  <2>2. Receives(n, t, lg)
    BY <1>1, <1>3, <2>1, Zenon DEF Receives
  <2>3. NodeTypes'
    BY <1>3, <1>4, <1>5, Zenon DEF NodeTypes
  <2> QED BY <2>2, <2>3
<1>6. CASE accepted
  <2>1. Agree(lg, ll, prev)
    <3>1. CASE prev = 0
      BY <1>1, <3>1 DEF Agree
    <3>2. CASE prev # 0
      <4>1. TermAt(lg, prev) = ll[prev].term /\ prev \in 1 .. Len(ll) /\ ll[prev].term \in Term
        BY <1>1, <1>2, <1>6, <3>2 DEF accepted, PrevMatches
      <4>2. ll[prev].term # Nil
        BY <4>1, RaftAssumption DEF Term
      <4>3. prev <= Len(lg) /\ lg[prev].term = ll[prev].term
        BY <1>1, <1>2, <3>2, <4>1, <4>2, TermAtFacts, Zenon
      <4> QED BY <4>1, <4>3, Matching, Zenon
    <3> QED BY <3>1, <3>2, Zenon
  <2>2. Matched(lg, ll)
    BY Matching, Zenon DEF Matched
  <2>3. new = IF Agree(lg, ll, last) THEN lg ELSE SubSeq(ll, 1, last)
    <3> HIDE DEF lg, ll
    <3>1. AbsorbAll(lg, SubSeq(ll, prev + 1, last)) =
            IF Agree(lg, ll, last) THEN lg ELSE SubSeq(ll, 1, last)
      BY <1>1, <1>2, <2>1, <2>2, AbsorbLeader, Zenon
    <3>2. es = SubSeq(ll, prev + 1, last)
      BY Zenon DEF ll
    <3> QED BY <3>1, <3>2, Zenon DEF new
  <2>4. prev + Len(es) = last
    <3>1. \A i \in prev + 1 .. last : ll[i] \in Entries
      BY <1>1, <1>2 DEF IsLog
    <3>2. prev + 1 \in Int /\ last \in Int
      BY <1>2
    <3>3. Len(es) = IF prev + 1 <= last THEN last - (prev + 1) + 1 ELSE 0
      BY <3>1, <3>2, SubSeqProperties
    <3> QED BY <1>2, <3>3
  <2>5. IsLog(SubSeq(ll, 1, last)) /\ Len(SubSeq(ll, 1, last)) = last
        /\ \A i \in 1 .. last : SubSeq(ll, 1, last)[i] = ll[i]
    BY <1>1, <1>2, PrefixFacts, Zenon
  <2>6. IsLog(new) /\ Len(new) <= MaxLog /\ Agree(ll, new, last)
    <3>1. CASE Agree(lg, ll, last)
      BY <1>1, <2>3, <3>1, Zenon DEF Agree
    <3>2. CASE ~Agree(lg, ll, last)
      <4>1. new = SubSeq(ll, 1, last)
        BY <2>3, <3>2, Zenon
      <4>2. IsLog(new) /\ Len(new) = last /\ \A i \in 1 .. last : new[i] = ll[i]
        BY <2>5, <4>1, Zenon
      <4>3. Agree(ll, new, last)
        <5>1. last <= Len(ll) /\ last <= Len(new)
          BY <1>2, <4>2
        <5> QED BY <4>2, <5>1, Zenon DEF Agree
      <4>4. Len(new) <= MaxLog
        BY <1>1, <1>2, <4>2, RaftAssumption
      <4> QED BY <4>2, <4>3, <4>4, Zenon
    <3> QED BY <3>1, <3>2, Zenon
  <2>7. end \in 0 .. MaxLog
    <3>1. end = Len(new) /\ new \in Seq(Entries)
      BY <2>6, LastFacts, Zenon DEF end, IsLog
    <3> HIDE DEF end, new
    <3> QED BY <2>6, <3>1, RaftAssumption
  <2>8. NodeTypes'
    <3>1. (IF ci < end THEN ci ELSE end) \in 0 .. MaxLog
      BY <2>7, RaftAssumption
    <3> QED BY <1>3, <1>4, <1>6, <3>1, Zenon DEF NodeTypes
  <2>9. Receives(n, t, new)
    <3>1. match' = IF match[t][n] < last THEN [match EXCEPT ![t][n] = last] ELSE match
      BY <1>3, <1>6, <2>4, Zenon
    <3>2. log' = [log EXCEPT ![n] = new]
      BY <1>3, <1>6, Zenon
    <3>3. new = lg \/ (Len(new) = last /\ ~Agree(lg, ll, last))
      BY <2>3, <2>5, Zenon
    <3> HIDE DEF ll, lg
    <3> QED BY <1>3, <2>6, <3>1, <3>2, <3>3, Zenon DEF Receives, ll, lg
  <2> QED BY <2>8, <2>9, Zenon
<1> QED BY <1>5, <1>6, Zenon

(* append_entries appends the entry to a log that ends just before it.     *)
LEMMA RequestGrows ==
  ASSUME LogTypes, TermInv, NEW n \in Node, ClientRequest(n)
  PROVE  NodeTypes' /\ \E t \in Term : \E new : Grows(n, t, new)
<1> DEFINE t == currentTerm[n]
           lg == log[n]
           e == Entry(t, LastLogIndex(lg) + 1, n)
           accepted == PrevMatches(lg, LastLogIndex(lg), LastLogTerm(lg))
           new == AbsorbAll(lg, <<e>>)
           ci == leaderCommit[t]
           end == LastLogIndex(new)
<1>1. t \in Term /\ n \in leaders[t] /\ Len(lg) < MaxLog
  BY Zenon DEF ClientRequest, Leads
<1>2. /\ IsLog(lg) /\ Len(lg) \in Nat /\ t \in Nat /\ match[t][n] \in Nat /\ ci \in Nat
      /\ \A i \in 1 .. Len(lg) : lg[i].term \in Nat
  BY <1>1, TypeFacts, Zenon DEF Term
<1>3. log[n] = leaderLog[t] /\ match[t][n] <= Len(lg) /\ \A i \in 1 .. Len(lg) : lg[i].term <= t
  BY <1>1, Zenon DEF TermInv
<1>4. LastLogIndex(lg) = Len(lg) /\ TermAt(lg, Len(lg)) = LastLogTerm(lg)
  BY <1>2, LastFacts, Zenon
<1>5. accepted
  BY <1>4, Zenon DEF PrevMatches
<1>6. e \in Entries /\ e.index = Len(lg) + 1 /\ e.term = t
  BY <1>1, <1>2, <1>4 DEF Entry, Entries
<1>7. new = Append(lg, e)
  <2>1. Len(<<e>>) = 1 /\ <<e>>[1] = e
    BY Zenon
  <2> HIDE DEF e
  <2>2. 1 \in Nat /\ 1 \in 1 .. 1 /\ 1 - 1 = 0
    OBVIOUS
  <2>3. PICK f : Run(f, lg, <<e>>)
    BY <2>1, <2>2, AbsorbRun, Zenon
  <2>4. f[0] = lg /\ AbsorbAll(lg, <<e>>) = f[1] /\ f[1] = Absorb(f[0], e)
    BY <2>1, <2>2, <2>3, Zenon DEF Run
  <2>5. Absorb(lg, e) = Append(lg, e)
    BY <1>2, <1>6, AbsorbFacts, Zenon
  <2> QED BY <2>4, <2>5, Zenon
<1>8. /\ new \in Seq(Entries) /\ Len(new) = Len(lg) + 1
      /\ \A i \in 1 .. Len(lg) : new[i] = lg[i]
      /\ new[Len(lg) + 1] = e
  <2> HIDE DEF e, new
  <2>1. lg \in Seq(Entries)
    BY <1>2, Zenon DEF IsLog
  <2> QED BY <1>6, <1>7, <2>1, AppendProperties
<1>9. IsLog(new)
  <2> HIDE DEF e, new, lg, t
  <2>1. \A i \in 1 .. Len(new) : i \in 1 .. Len(lg) \/ i = Len(lg) + 1
    BY <1>2, <1>8
  <2>2. \A i \in 1 .. Len(lg) : new[i].index = i
    BY <1>2, <1>8, Zenon DEF IsLog
  <2>3. \A i \in 1 .. Len(new) : new[i].index = i
    BY <1>2, <1>6, <1>8, <2>1, <2>2
  <2>4. ASSUME NEW i \in 1 .. Len(new), NEW j \in 1 .. Len(new), i <= j
        PROVE  new[i].term <= new[j].term
    <3>1. CASE j = Len(lg) + 1
      BY <1>2, <1>3, <1>6, <1>8, <2>1, <3>1 DEF lg
    <3>2. CASE j \in 1 .. Len(lg)
      <4>1. i \in 1 .. Len(lg)
        BY <1>2, <2>4, <3>2
      <4> QED BY <1>2, <1>8, <2>4, <3>2, <4>1, Zenon DEF IsLog
    <3> QED BY <2>1, <3>1, <3>2, Zenon
  <2> QED BY <1>8, <2>3, <2>4, Zenon DEF IsLog
<1>10. AppendEntries(n, t, n, LastLogIndex(lg), LastLogTerm(lg), <<e>>, ci)
  BY Zenon DEF ClientRequest
<1>11. /\ currentTerm' = [currentTerm EXCEPT ![n] = t]
       /\ leaderId' = [leaderId EXCEPT ![n] = n]
       /\ log' = [log EXCEPT ![n] = new]
       /\ commitIndex' = IF ci > commitIndex[n]
                           THEN [commitIndex EXCEPT ![n] = IF ci < end THEN ci ELSE end]
                           ELSE commitIndex
       /\ match' = IF match[t][n] < LastLogIndex(lg) + Len(<<e>>)
                     THEN [match EXCEPT ![t][n] = LastLogIndex(lg) + Len(<<e>>)] ELSE match
  <2> HIDE DEF t, lg, e, ci
  <2> QED BY <1>5, <1>10 DEF AppendEntries, lg
<1>12. match' = [match EXCEPT ![t][n] = Len(new)]
  <2>1. Len(<<e>>) = 1
    BY Zenon
  <2> HIDE DEF e, new
  <2> QED BY <1>2, <1>3, <1>4, <1>8, <1>11, <2>1
<1>13. leaderLog' = [leaderLog EXCEPT ![t] = new]
  <2>1. leaderLog' = [leaderLog EXCEPT ![t] = Append(leaderLog[t], e)]
    BY Zenon DEF ClientRequest
  <2> HIDE DEF e, new
  <2> QED BY <1>3, <1>7, <2>1, Zenon
<1>14. UNCHANGED <<candidacy, granted, leaders, leaderCommit>>
  BY Zenon DEF ClientRequest, voteVars
<1>15. Len(new) <= MaxLog
  BY <1>1, <1>2, <1>8, RaftAssumption
<1>16. Grows(n, t, new)
  <2> HIDE DEF e, new
  <2> QED BY <1>1, <1>6, <1>8, <1>9, <1>11, <1>12, <1>13, <1>14, <1>15, Zenon DEF Grows
<1>17. NodeTypes'
  <2>1. end \in 0 .. MaxLog
    <3> HIDE DEF new
    <3> QED BY <1>2, <1>8, <1>9, <1>15, LastFacts, RaftAssumption
  <2> HIDE DEF end, new, ci
  <2>2. (IF ci < end THEN ci ELSE end) \in 0 .. MaxLog
    BY <1>2, <2>1, RaftAssumption
  <2>3. NodeTypes
    BY Zenon DEF LogTypes, NodeTypes
  <2> QED BY <1>11, <2>2, <2>3, Zenon DEF NodeTypes
<1> HIDE DEF new, t
<1> QED BY <1>1, <1>16, <1>17, Zenon

(* Nothing is logged, acknowledged or won in the initial state.            *)
LEMMA InitLogInv == Init => LogInv
<1> SUFFICES ASSUME Init PROVE LogInv
  BY Zenon
<1>1. VoteInv
  BY InitVoteInv, Zenon
<1>2. /\ \A n \in Node : log[n] = <<>> /\ currentTerm[n] = 0
      /\ \A t \in Term : leaderLog[t] = <<>> /\ leaderCommit[t] = 0 /\ leaders[t] = {}
      /\ \A t \in Term, n \in Node :
           match[t][n] = 0 /\ candidacy[t][n] = Nil /\ granted[t][n] = {}
  BY Zenon DEF Init
<1>3. <<>> \in Seq(Entries) /\ Len(<<>>) = 0 /\ IsLog(<<>>)
  BY EmptySeq DEF IsLog
<1>4. LogTypes
  <2>1. /\ log \in [Node -> Seq(Entries)] /\ leaderLog \in [Term -> Seq(Entries)]
        /\ leaderId \in [Node -> Node \cup {Nil}]
    BY <1>3, Zenon DEF Init
  <2>2. /\ commitIndex \in [Node -> 0 .. MaxLog] /\ leaderCommit \in [Term -> Nat]
        /\ match \in [Term -> [Node -> Nat]] /\ \A n \in Node : currentTerm[n] <= MaxTerm
    BY RaftAssumption DEF Init
  <2>3. candidacy \in [Term -> [Node -> [index : Nat, term : Nat] \cup {Nil}]]
    BY Zenon DEF Init
  <2>4. /\ \A n \in Node : IsLog(log[n]) /\ Len(log[n]) <= MaxLog
        /\ \A t \in Term : IsLog(leaderLog[t]) /\ Len(leaderLog[t]) <= MaxLog
    BY <1>2, <1>3, RaftAssumption
  <2> QED BY <1>1, <2>1, <2>2, <2>3, <2>4, Zenon DEF LogTypes
<1>5. TermInv /\ FromLeader
  BY <1>2, <1>3 DEF TermInv, FromLeader
<1>6. AckedInv /\ CandidateInv
  BY <1>2, <1>3 DEF AckedInv, CandidateInv, Agree
<1>7. OpenInv /\ CommitInv
  BY <1>2, <1>3 DEF OpenInv, CommitInv
<1> QED BY <1>4, <1>5, <1>6, <1>7, Zenon DEF LogInv

(* A leader's own commit preserves the invariant: append_entries without   *)
(* entries leaves its log, and a quorum has acknowledged the entry.        *)
LEMMA CommitStep ==
  ASSUME LogInv, VoteInv', NEW n \in Node, NEW index \in Nat, AdvanceCommit(n, index)
  PROVE  LogInv'
<1> DEFINE t == currentTerm[n]
           ll == leaderLog[t]
           lg == log[n]
<1>1. /\ t \in Term /\ n \in leaders[t] /\ index \in leaderCommit[t] + 1 .. Len(ll)
      /\ ll[index].term = t
  BY Zenon DEF AdvanceCommit, Leads
<1>2. lg = ll /\ IsLog(lg) /\ Len(lg) \in Nat /\ leaderCommit[t] \in Nat
  BY <1>1, TypeFacts, Zenon DEF LogInv, TermInv
<1>3. /\ LastLogIndex(lg) = Len(lg)
      /\ LastLogTerm(lg) = IF Len(lg) = 0 THEN 0 ELSE lg[Len(lg)].term
  BY <1>2, LastFacts, Zenon
<1>4. SubSeq(ll, Len(ll) + 1, Len(ll)) = <<>>
  BY <1>2, SubSeqEmpty
<1>5. AppendEntries(n, t, n, Len(ll), IF Len(ll) = 0 THEN 0 ELSE ll[Len(ll)].term, <<>>, index)
  <2>1. AppendEntries(n, t, n, LastLogIndex(lg), LastLogTerm(lg), <<>>, index)
    BY Zenon DEF AdvanceCommit
  <2> HIDE DEF t, lg, ll
  <2> QED BY <1>2, <1>3, <2>1, Zenon
<1>6. /\ leaderCommit' = [leaderCommit EXCEPT ![t] = index]
      /\ UNCHANGED <<candidacy, granted, leaders, leaderLog>>
  BY Zenon DEF AdvanceCommit, voteVars
<1>7. /\ Len(ll) \in 0 .. Len(leaderLog[t]) /\ Len(ll) \in 0 .. Len(ll) /\ leaders[t] # {}
  BY <1>1, <1>2
<1>8. NodeTypes' /\ \E new : Receives(n, t, new)
  BY <1>1, <1>4, <1>5, <1>6, <1>7, AppendReceives, Zenon DEF LogInv
<1>9. PICK new : Receives(n, t, new)
  BY <1>8, Zenon
<1>10. LogTypes'
  <2>1. leaderCommit' \in [Term -> Nat]
    BY <1>6, Zenon DEF LogInv, LogTypes
  <2> QED BY <1>1, <1>8, <1>9, <2>1, ReceivesTypes DEF LogInv
<1>11. (TermInv /\ FromLeader /\ AckedInv /\ CandidateInv)'
  BY <1>1, <1>9, ReceivesBasics, Zenon DEF LogInv
<1>12. OpenInv'
  BY <1>1, <1>9, ReceivesOpen, Zenon DEF LogInv
<1>13. CommitInv'
  <2> SUFFICES ASSUME NEW u \in Term, leaderCommit'[u] > 0
               PROVE  /\ leaderCommit'[u] <= Len(leaderLog[u])
                      /\ leaderLog[u][leaderCommit'[u]].term = u
                      /\ \E q \in Quorum : \A m \in q : match'[u][m] >= leaderCommit'[u]
    BY <1>6, Zenon DEF CommitInv
  <2>1. PICK q \in Quorum : \A m \in q : match[u][m] >= leaderCommit'[u]
    <3>1. CASE u = t
      BY <1>1, <1>6, <3>1 DEF AdvanceCommit, LogInv, LogTypes
    <3>2. CASE u # t
      BY <1>6, <3>2, Zenon DEF LogInv, LogTypes, CommitInv
    <3> QED BY <3>1, <3>2
  <2>2. leaderCommit'[u] <= Len(leaderLog[u]) /\ leaderLog[u][leaderCommit'[u]].term = u
    <3>1. CASE u = t
      <4>1. leaderCommit'[u] = index /\ index <= Len(ll)
        BY <1>1, <1>2, <1>6, <3>1 DEF LogInv, LogTypes
      <4> QED BY <1>1, <3>1, <4>1, Zenon
    <3>2. CASE u # t
      BY <1>6, <3>2, Zenon DEF LogInv, LogTypes, CommitInv
    <3> QED BY <3>1, <3>2, Zenon
  <2>3. /\ q \subseteq Node /\ leaderCommit'[u] \in Nat
        /\ \A m \in Node : match'[u][m] >= match[u][m]
        /\ \A m \in Node : match'[u][m] \in Nat /\ match[u][m] \in Nat
    <3>1. \A m \in Node : match'[u][m] >= match[u][m]
      BY <1>1, <1>9, ReceivesFacts, Zenon DEF LogInv
    <3>2. leaderCommit'[u] \in Nat /\ \A m \in Node : match'[u][m] \in Nat
      BY <1>10, Zenon DEF LogTypes
    <3>3. \A m \in Node : match[u][m] \in Nat
      BY Zenon DEF LogInv, LogTypes
    <3> QED BY <3>1, <3>2, <3>3, RaftAssumption, Zenon
  <2>4. \A m \in q : match'[u][m] >= leaderCommit'[u]
    BY <2>1, <2>3
  <2> QED BY <2>2, <2>4, Zenon
<1> QED BY <1>10, <1>11, <1>12, <1>13, Zenon DEF LogInv

(* Every step preserves the invariant.                                     *)
LEMMA NextLogInv == LogInv /\ [Next]_vars => LogInv'
<1> SUFFICES ASSUME LogInv, [Next]_vars PROVE LogInv'
  BY Zenon
<1>1. VoteInv'
  BY NextVoteInv, Zenon DEF LogInv, LogTypes
<1>2. CASE UNCHANGED vars
  <2>1. UNCHANGED <<currentTerm, leaderId, log, commitIndex, candidacy, granted, leaders,
                    leaderLog, leaderCommit, match>>
    BY <1>2 DEF vars, nodeVars, voteVars, copyVars
  <2>2. LogTypes' /\ TermInv'
    BY <1>1, <2>1, Zenon DEF LogInv, LogTypes, TermInv
  <2>3. FromLeader' /\ AckedInv' /\ CandidateInv'
    BY <2>1, Zenon DEF LogInv, FromLeader, AckedInv, CandidateInv
  <2>4. OpenInv' /\ CommitInv'
    BY <2>1 DEF LogInv, OpenInv, Open, CommitInv
  <2> QED BY <2>2, <2>3, <2>4, Zenon DEF LogInv
<1>3. ASSUME NEW n \in Node, StartElection(n) PROVE LogInv'
  <2> DEFINE t == currentTerm[n] + 1
             end == [index |-> LastLogIndex(log[n]), term |-> LastLogTerm(log[n])]
  <2>1. t \in Term /\ candidacy' = [candidacy EXCEPT ![t][n] = end]
        /\ UNCHANGED <<leaders, leaderLog, leaderCommit, match>>
    BY <1>3, Zenon DEF StartElection, copyVars
  <2>2. candidacy'[t][n] = end
    BY <2>1, Zenon DEF LogInv, LogTypes
  <2>3. /\ candidacy'[t][n].index = LastLogIndex(log[n])
        /\ candidacy'[t][n].term = LastLogTerm(log[n])
    BY <2>2
  <2>4. Vote(n, t, n, LastLogIndex(log[n]), LastLogTerm(log[n]))
    BY <1>3, Zenon DEF StartElection
  <2>5. Grants(n, t, n, LastLogIndex(log[n]), LastLogTerm(log[n]))
    <3>1. IsLog(log[n]) /\ Len(log[n]) \in Nat /\ currentTerm[n] \in Nat
      BY <2>1, TypeFacts, Zenon DEF LogInv
    <3>2. LastLogIndex(log[n]) \in Nat
      BY <3>1, LastFacts, Zenon
    <3>3. VoteIn(n, t) = Nil
      BY <3>1 DEF VoteIn
    <3> QED BY <3>2, <3>3 DEF Grants, UpToDate
  <2> HIDE DEF t
  <2>6. t = currentTerm[n] + 1
    BY Zenon DEF t
  <2> QED BY <1>1, <2>1, <2>3, <2>4, <2>5, <2>6, VoteLogStep, Zenon
<1>4. ASSUME NEW n \in Node, NEW t \in Term, NEW c \in Node, RequestVote(n, t, c) PROVE LogInv'
  <2>1. /\ candidacy' = candidacy /\ candidacy[t][c] # Nil
        /\ UNCHANGED <<leaders, leaderLog, leaderCommit, match>>
        /\ Vote(n, t, c, candidacy[t][c].index, candidacy[t][c].term)
    BY <1>4, Zenon DEF RequestVote, copyVars
  <2> QED BY <1>1, <2>1, VoteLogStep, Zenon
<1>5. ASSUME NEW n \in Node, BecomeLeader(n) PROVE LogInv'
  <2>1. Wins(n)
    BY <1>5, Zenon DEF BecomeLeader, Leads, Wins, nodeVars
  <2> QED BY <1>1, <2>1, WinnerStep, Zenon
<1>6. ASSUME NEW n \in Node, ClientRequest(n) PROVE LogInv'
  <2>1. NodeTypes' /\ \E t \in Term : \E new : Grows(n, t, new)
    BY <1>6, RequestGrows, Zenon DEF LogInv
  <2> QED BY <1>1, <2>1, GrowsStep, Zenon
<1>7. ASSUME NEW n \in Node, NEW t \in Term, NEW l \in Node, NEW last \in 0 .. Len(leaderLog[t]),
             NEW prev \in 0 .. last, NEW ci \in 0 .. leaderCommit[t],
             Replicate(n, t, l, prev, last, ci)
      PROVE  LogInv'
  <2>1. /\ leaders[t] # {} /\ UNCHANGED <<candidacy, granted, leaders, leaderLog, leaderCommit>>
        /\ AppendEntries(n, t, l, prev, IF prev = 0 THEN 0 ELSE leaderLog[t][prev].term,
                         SubSeq(leaderLog[t], prev + 1, last), ci)
    BY <1>7, Zenon DEF Replicate, voteVars
  <2>2. ci \in Nat
    BY DEF LogInv, LogTypes
  <2>3. NodeTypes' /\ \E new : Receives(n, t, new)
    BY <2>1, <2>2, AppendReceives, Zenon DEF LogInv
  <2> QED BY <1>1, <2>1, <2>3, ReceivesStep, Zenon
<1>8. ASSUME NEW n \in Node, NEW i \in 1 .. MaxLog, AdvanceCommit(n, i) PROVE LogInv'
  BY <1>1, <1>8, CommitStep, RaftAssumption
<1>9. ASSUME NEW n \in Node, NEW t \in Term, SendSnapshot(n, t) PROVE LogInv'
  <2>1. /\ t >= currentTerm[n] /\ currentTerm' = [currentTerm EXCEPT ![n] = t]
        /\ UNCHANGED <<candidacy, granted, leaders, leaderLog, leaderCommit, match, log,
                       leaderId, commitIndex>>
    BY <1>9, Zenon DEF SendSnapshot, InstallSnapshot, voteVars, copyVars
  <2>2. NodeTypes' /\ Receives(n, t, log[n])
    BY <2>1, TermReceived, Zenon DEF LogInv
  <2> QED BY <1>1, <2>1, <2>2, ReceivesStep, Zenon
<1> QED BY <1>2, <1>3, <1>4, <1>5, <1>6, <1>7, <1>8, <1>9, Zenon DEF Next

(* The invariant holds in every reachable state, whatever the driver sends *)
(* and whenever it arrives.                                                *)
THEOREM LogInvariance == Spec => []LogInv
BY InitLogInv, NextLogInv, PTL DEF Spec

(* The types, and that append_entries leaves no gap in the indices: the    *)
(* prev_log check keeps out what would not follow the end of the log.      *)
THEOREM NoGaps == Spec => []TypeOK
<1>1. LogInv => TypeOK
  <2> SUFFICES ASSUME LogInv PROVE TypeOK
    BY Zenon
  <2>1. currentTerm \in [Node -> 0 .. MaxTerm]
    BY RaftAssumption DEF LogInv, LogTypes, VoteInv, VoteTypes
  <2>2. /\ votedFor \in [Node -> Node \cup {Nil}] /\ leaderId \in [Node -> Node \cup {Nil}]
        /\ commitIndex \in [Node -> 0 .. MaxLog]
    BY Zenon DEF LogInv, LogTypes, VoteInv, VoteTypes
  <2>3. ASSUME NEW n \in Node, NEW i \in 1 .. Len(log[n])
        PROVE  log[n][i].index = i /\ log[n][i].term \in Term /\ log[n][i].origin \in Node
    <3>1. log[n] \in Seq(Entries) /\ log[n][i].index = i
      BY Zenon DEF LogInv, LogTypes, IsLog
    <3>2. log[n][i] \in Entries
      BY <3>1
    <3> QED BY <3>1, <3>2, Zenon DEF Entries
  <2> QED BY <2>1, <2>2, <2>3, Zenon DEF TypeOK
<1> QED BY <1>1, LogInvariance, PTL

(* Two logs that have an entry of the same index and term are equal up to  *)
(* it.                                                                     *)
THEOREM LogsMatch == Spec => []LogMatching
<1>1. LogInv => LogMatching
  <2> SUFFICES ASSUME LogInv, NEW n \in Node, NEW m \in Node, NEW i \in 1 .. Len(log[n]),
                      i <= Len(log[m]), log[n][i].term = log[m][i].term
               PROVE  SubSeq(log[n], 1, i) = SubSeq(log[m], 1, i)
    BY Zenon DEF LogMatching
  <2>1. IsLog(log[n]) /\ IsLog(log[m]) /\ Len(log[n]) \in Nat /\ Len(log[m]) \in Nat
    <3>1. IsLog(log[n]) /\ IsLog(log[m])
      BY Zenon DEF LogInv, LogTypes
    <3> QED BY <3>1 DEF IsLog
  <2>2. i \in 1 .. Len(log[m]) /\ i \in Nat
    BY <2>1
  <2> DEFINE t == log[n][i].term
  <2>3. Agree(log[n], leaderLog[t], i) /\ Agree(log[m], leaderLog[t], i)
    BY <2>2, Zenon DEF LogInv, FromLeader
  <2> HIDE DEF t
  <2>4. Agree(log[n], log[m], i)
    BY <2>2, <2>3, Zenon DEF Agree
  <2> QED BY <2>1, <2>2, <2>4, AgreePrefix, Zenon
<1> QED BY <1>1, LogInvariance, PTL

(* A log that agrees with another on k entries has the first k of it.      *)
LEMMA AgreeHas ==
  ASSUME NEW a, NEW b, IsLog(a), IsLog(b), NEW k \in Nat, Agree(a, b, k)
  PROVE  HasFirst(b, a, k)
<1>1. k \in 0 .. Len(a) /\ k <= Len(b)
  BY DEF Agree, IsLog
<1>2. SubSeq(a, 1, k) = SubSeq(b, 1, k)
  BY AgreePrefix, Zenon
<1> QED BY <1>1, <1>2, Zenon DEF HasFirst

(* A late, repeated or reordered request removes nothing from a log that   *)
(* the node has acknowledged to the leader of its term.                    *)
THEOREM AcknowledgedStays == Spec => []AcknowledgedKept
<1>1. LogInv => AcknowledgedKept
  <2> SUFFICES ASSUME LogInv, NEW n \in Node, NEW t \in Term, t = currentTerm[n]
               PROVE  HasFirst(log[n], leaderLog[t], match[t][n])
    BY Zenon DEF AcknowledgedKept
  <2>1. IsLog(log[n]) /\ IsLog(leaderLog[t]) /\ match[t][n] \in Nat
    BY TypeFacts, Zenon DEF LogInv
  <2>2. Agree(leaderLog[t], log[n], match[t][n])
    BY DEF LogInv, AckedInv
  <2> QED BY <2>1, <2>2, AgreeHas, Zenon
<1> QED BY <1>1, LogInvariance, PTL

(* What a leader has committed is in the log of every later leader: the    *)
(* up-to-date check of vote with the prev_log check of append_entries.     *)
THEOREM LaterLeadersComplete == Spec => []LeaderCompleteness
<1>1. LogInv => LeaderCompleteness
  <2> SUFFICES ASSUME LogInv, NEW t \in Term, NEW u \in Term, t < u, leaders[u] # {}
               PROVE  HasFirst(leaderLog[u], leaderLog[t], leaderCommit[t])
    BY Zenon DEF LeaderCompleteness
  <2> DEFINE k == leaderCommit[t]
  <2>1. /\ IsLog(leaderLog[t]) /\ IsLog(leaderLog[u]) /\ k \in Nat
        /\ Len(leaderLog[t]) \in Nat /\ Len(leaderLog[u]) \in Nat
    BY DEF LogInv, LogTypes, IsLog
  <2>2. CASE k = 0
    <3>1. Agree(leaderLog[t], leaderLog[u], k)
      BY <2>1, <2>2 DEF Agree
    <3> QED BY <2>1, <3>1, AgreeHas, Zenon
  <2>3. CASE k # 0
    <3>1. /\ k <= Len(leaderLog[t]) /\ leaderLog[t][k].term = t
          /\ \E q \in Quorum : \A m \in q : match[t][m] >= k
      BY <2>1, <2>3 DEF LogInv, CommitInv
    <3>2. k \in 1 .. Len(leaderLog[t])
      BY <2>1, <2>3, <3>1
    <3>3. Open(t, k)
      BY <3>1, <3>2, Zenon DEF Open
    <3>4. Agree(leaderLog[t], leaderLog[u], k)
      BY <3>2, <3>3, Zenon DEF LogInv, OpenInv
    <3> QED BY <2>1, <3>4, AgreeHas, Zenon
  <2> QED BY <2>2, <2>3, Zenon
<1> QED BY <1>1, LogInvariance, PTL
=============================================================================
