------------------------- MODULE ReplicationProofs --------------------------
(***************************************************************************)
(* Proofs about the replication of logs and of a value, for any servers,   *)
(* writes and lengths of logs.                                             *)
(*                                                                         *)
(* The cursor of a pull counts in the log of the one who pulls, and is     *)
(* compared with the indices of the log that is read.  No operation has a  *)
(* number greater than its place in any log: that is why a pull does not   *)
(* bring an author's operation again, and it is what the invariant adds to *)
(* the property, for the logs and for the batches on their way.            *)
(***************************************************************************)
EXTENDS Replication, WellFoundedInduction, SequenceTheorems, TLAPS

(* A non-empty set of natural numbers has a least element.                 *)
LEMMA LeastNumber ==
  ASSUME NEW S \in SUBSET Nat, S # {}
  PROVE  \E m \in S : \A n \in S : m <= n
<1> DEFINE Less == OpToRel(<, Nat)
<1>1. IsWellFoundedOn(Less, Nat)
  BY NatLessThanWellFounded, Zenon
<1>2. \A x, y \in Nat : x < y => <<x, y>> \in Less
  BY DEF OpToRel
<1> HIDE DEF Less
<1>3. PICK x \in S : \A y \in S : ~(<<y, x>> \in Less)
  BY <1>1, WFMin, Zenon
<1>4. \A y \in S : ~(y < x)
  BY <1>2, <1>3, Zenon
<1>5. \A y \in S : x <= y
  BY <1>4
<1> QED BY <1>5

(* A set that has 0, and k + 1 when it has a k below n, has 0 to n.        *)
LEMMA UpTo ==
  ASSUME NEW n \in Nat, NEW S, 0 \in S, \A k \in 0 .. n - 1 : k \in S => k + 1 \in S
  PROVE  \A k \in 0 .. n : k \in S
<1> SUFFICES ASSUME NEW i \in 0 .. n, i \notin S PROVE FALSE
  OBVIOUS
<1> DEFINE Out == {k \in Nat : k <= n /\ k \notin S}
<1>1. i \in Out
  OBVIOUS
<1>2. PICK m \in Out : \A k \in Out : m <= k
  BY <1>1, LeastNumber, Zenon
<1>3. m # 0 /\ m - 1 \in Nat /\ m - 1 \in 0 .. n - 1
  BY <1>2
<1>4. m - 1 \in S
  <2>1. m - 1 \notin Out
    BY <1>2, <1>3
  <2> QED BY <1>3, <2>1
<1>5. (m - 1) + 1 \in S
  BY <1>3, <1>4
<1> QED BY <1>2, <1>5

(* A non-empty set of numbers up to n has a greatest element.              *)
LEMMA GreatestNumber ==
  ASSUME NEW n \in Nat, NEW S \in SUBSET (0 .. n), S # {}
  PROVE  \E m \in S : \A k \in S : k <= m
<1> DEFINE Above == {d \in Nat : n - d \in S}
<1>1. \A k \in S : n - k \in Above
  OBVIOUS
<1>2. Above # {}
  BY <1>1, Zenon
<1>3. PICK d \in Above : \A e \in Above : d <= e
  BY <1>2, LeastNumber, Zenon
<1>4. ASSUME NEW k \in S PROVE k <= n - d
  <2>1. k \in 0 .. n /\ d \in Nat /\ n - k \in Nat
    BY <1>3
  <2>2. d <= n - k
    BY <1>1, <1>3
  <2> HIDE DEF Above
  <2> QED BY <2>1, <2>2
<1> QED BY <1>3, <1>4

-----------------------------------------------------------------------------
Operations == Node \X (Nat \ {0})
Entries == [index : Nat, origin : Node, payload : Operations]

(* A log is numbered from 1.                                               *)
Numbered(s) == s \in Seq(Entries) /\ \A i \in 1 .. Len(s) : s[i].index = i

(* What a pull from o asks for, with a log.                                *)
Cursor(s, o) ==
  LET utd == SynthesizeUtdVector(s) IN IF o \in DOMAIN utd THEN utd[o] ELSE 0

(* In a log, the server's own operations have the number of their place,   *)
(* and the others a number no greater than it.                             *)
Placed(n, s) ==
  \A i \in 1 .. Len(s) : s[i].payload[2] <= i /\ (s[i].origin = n => s[i].payload = <<n, i>>)

(* The operations that the log s has from a, and a has written.            *)
Ascends(s, a) ==
  \A i, j \in 1 .. Len(s) :
    /\ i < j /\ s[i].origin = a /\ s[i].payload[1] = a
    /\ s[j].origin = a /\ s[j].payload[1] = a
    => s[i].payload[2] < s[j].payload[2]

(* The operations x, read from o, go behind the log s: their numbers are   *)
(* no greater than the places they get.                                    *)
Reaches(s, x) == \A k \in 1 .. Len(x) : x[k][2] <= Len(s) + k

(* Those that o has written come in their order, behind all that s has     *)
(* from o.                                                                 *)
GoesOn(s, o, x) ==
  /\ \A k \in 1 .. Len(x) : x[k][1] = o => \A i \in 1 .. Len(s) : s[i].origin = o => i < x[k][2]
  /\ \A k, m \in 1 .. Len(x) : k < m /\ x[k][1] = o /\ x[m][1] = o => x[k][2] < x[m][2]

(* A batch fits the log of the one who pulled it.                          *)
BatchFits(r, b) ==
  /\ b.origin \in Node /\ b.origin # r /\ b.operations \in Seq(Operations)
  /\ Reaches(log[r], b.operations)
  /\ NoneCameBack(b.origin) => GoesOn(log[r], b.origin, b.operations)

PullInv ==
  /\ DOMAIN log = Node /\ DOMAIN batch = Node
  /\ \A n \in Node : Numbered(log[n]) /\ Placed(n, log[n])
  /\ \A r \in Node : batch[r] # None => BatchFits(r, batch[r])
  /\ \A r, a \in Node : NoneCameBack(a) => Ascends(log[r], a)

-----------------------------------------------------------------------------
(* The last entry of a numbered log has its length for an index.           *)
LEMMA LastIndex ==
  ASSUME NEW s, Numbered(s)
  PROVE  Len(s) \in Nat /\ LastLogIndex(s) = Len(s)
<1>1. s \in Seq(Entries) /\ Len(s) \in Nat
  BY DEF Numbered
<1>2. CASE s = <<>>
  BY <1>2, Zenon DEF LastLogIndex
<1>3. CASE s # <<>>
  <2>1. Len(s) \in 1 .. Len(s)
    BY <1>1, <1>3, EmptySeq
  <2> QED BY <1>1, <1>3, <2>1, Zenon DEF LastLogIndex, Numbered
<1> QED BY <1>2, <1>3, Zenon

(* synthesize_utd_vector: the cursor of an origin is the place of its last *)
(* entry in the log.                                                       *)
LEMMA CursorFacts ==
  ASSUME NEW s, Numbered(s), NEW o
  PROVE  /\ Cursor(s, o) \in 0 .. Len(s)
         /\ \A i \in 1 .. Len(s) : s[i].origin = o => i <= Cursor(s, o)
         /\ Cursor(s, o) > 0 => s[Cursor(s, o)].origin = o
<1> DEFINE n == Len(s)
           Own == {j \in DOMAIN s : s[j].origin = o}
           Places == {s[i].index : i \in Own}
<1>1. n \in Nat /\ DOMAIN s = 1 .. n /\ \A i \in 1 .. n : s[i].index = i
  BY DEF Numbered
<1>2. Places = Own /\ Places \in SUBSET (0 .. n)
  BY <1>1
<1>3. DOMAIN SynthesizeUtdVector(s) = {s[i].origin : i \in DOMAIN s}
  BY Zenon DEF SynthesizeUtdVector
<1>4. CASE o \in DOMAIN SynthesizeUtdVector(s)
  <2>1. Cursor(s, o) = Highest(Places)
    BY <1>4, Zenon DEF Cursor, SynthesizeUtdVector
  <2>2. Places # {}
    BY <1>2, <1>3, <1>4, Zenon
  <2>3. \E m \in Places : \A k \in Places : k <= m
    <3> HIDE DEF Places, n
    <3> QED BY <1>1, <1>2, <2>2, GreatestNumber, Zenon
  <2>4. Highest(Places) \in Places /\ \A k \in Places : k <= Highest(Places)
    <3> HIDE DEF Places, n
    <3>1. \A a, b \in Places : a >= b <=> b <= a
      BY <1>1, <1>2, Zenon
    <3>2. \E m \in Places : \A k \in Places : m >= k
      BY <2>3, <3>1, Zenon
    <3>3. Highest(Places) \in Places /\ \A k \in Places : Highest(Places) >= k
      BY <3>2, Zenon DEF Highest
    <3> QED BY <3>1, <3>3, Zenon
  <2> HIDE DEF Places
  <2>5. Highest(Places) \in Own /\ \A k \in Own : k <= Highest(Places)
    BY <1>2, <2>4, Zenon
  <2> QED BY <1>1, <2>1, <2>5
<1>5. CASE o \notin DOMAIN SynthesizeUtdVector(s)
  <2>1. Cursor(s, o) = 0
    BY <1>5, Zenon DEF Cursor
  <2>2. \A i \in 1 .. n : s[i].origin # o
    BY <1>1, <1>3, <1>5, Zenon
  <2> QED BY <1>1, <2>1, <2>2
<1> QED BY <1>4, <1>5, Zenon

-----------------------------------------------------------------------------
(* get_changes: what a pull reads fits the log of the one who pulls.  An   *)
(* entry that is left out has an index up to a cursor, so not beyond the   *)
(* length of that log.                                                     *)
LEMMA ChangesFacts ==
  ASSUME NEW o \in Node, NEW r \in Node, o # r,
         Numbered(log[o]), Placed(o, log[o]), Numbered(log[r])
  PROVE  BatchFits(r, GetChanges(o, SynthesizeUtdVector(log[r])))
<1> DEFINE s == log[o]
           n == Len(s)
           t == log[r]
           l == Len(t)
           utd == SynthesizeUtdVector(log[r])
           Round(x, i) == IF Beyond(s[i], utd) THEN Append(x, s[i].payload) ELSE x
           None1 == NoneCameBack(o)
           Sofar(i, x) == \A k \in 1 .. Len(x) : x[k][1] = o => x[k][2] <= i
           Good(i, x) == /\ x \in Seq(Operations) /\ Reaches(t, x) /\ i <= l + Len(x)
                         /\ None1 => GoesOn(t, o, x) /\ Sofar(i, x)
<1>1. n \in Nat /\ l \in Nat /\ DOMAIN s = 1 .. n
  <2>1. DOMAIN s = 1 .. n
    BY DEF Numbered
  <2> QED BY <2>1, LastIndex, Zenon
<1>2. \A i \in 1 .. n : /\ s[i].index = i /\ s[i].payload \in Operations /\ s[i].payload[2] <= i
                        /\ s[i].payload[1] \in Node /\ s[i].payload[2] \in Nat \ {0}
                        /\ s[i].origin = o => s[i].payload = <<o, i>>
  <2>1. \A i \in 1 .. n : s[i] \in Entries
    BY <1>1 DEF Numbered
  <2>2. \A i \in 1 .. n : s[i].payload \in Operations
    BY <2>1, Zenon DEF Entries
  <2>3. \A p \in Operations : p[1] \in Node /\ p[2] \in Nat \ {0}
    BY DEF Operations
  <2> QED BY <2>2, <2>3, Zenon DEF Numbered, Placed
<1>3. \A i \in 1 .. n : Beyond(s[i], utd) <=> i > Cursor(t, s[i].origin)
  BY <1>2, Zenon DEF Beyond, Cursor
<1>4. \A x : Cursor(t, x) \in 0 .. l /\ \A i \in 1 .. l : t[i].origin = x => i <= Cursor(t, x)
  BY CursorFacts, Zenon
<1>5. None1 => \A i \in 1 .. n : s[i].payload[1] = o => s[i].payload[2] = i /\ s[i].origin = o
  <2>1. \A i \in 1 .. n : s[i].origin = o => s[i].payload[2] = i
    BY <1>2
  <2> QED BY <1>1, <2>1, Zenon DEF NoneCameBack
<1> HIDE DEF s, n, t, l, utd, None1
<1>6. Good(0, <<>>)
  BY <1>1 DEF Reaches, GoesOn
<1>7. ASSUME NEW i \in 0 .. n - 1, NEW x, Good(i, x)
      PROVE  Good(i + 1, Round(x, i + 1))
  <2> DEFINE p == s[i + 1].payload
             d == Len(x)
             y == Append(x, p)
  <2>1. /\ i + 1 \in 1 .. n /\ d \in Nat /\ p \in Operations /\ p[2] \in Nat /\ p[2] <= i + 1
        /\ i \in Nat
    <3>1. i + 1 \in 1 .. n /\ d \in Nat /\ i \in Nat
      BY <1>1, <1>7
    <3> QED BY <1>2, <3>1
  <2>2. CASE ~ Beyond(s[i + 1], utd)
    <3>1. Round(x, i + 1) = x
      BY <2>2, Zenon
    <3>2. i + 1 <= l
      BY <1>1, <1>3, <1>4, <2>1, <2>2
    <3>3. i + 1 <= l + d
      BY <1>1, <2>1, <3>2
    <3>4. \A k \in 1 .. d : x[k][2] \in Nat
      <4>1. \A k \in 1 .. d : x[k] \in Operations
        BY <1>7
      <4> QED BY <4>1 DEF Operations
    <3>5. Sofar(i, x) => Sofar(i + 1, x)
      BY <2>1, <3>4
    <3> HIDE DEF Sofar
    <3> QED BY <1>7, <3>1, <3>3, <3>5, Zenon
  <2>3. CASE Beyond(s[i + 1], utd)
    <3>1. Round(x, i + 1) = y
      BY <2>3, Zenon
    <3>2. /\ y \in Seq(Operations) /\ Len(y) = d + 1 /\ y[d + 1] = p
          /\ \A k \in 1 .. d : y[k] = x[k] /\ x[k] \in Operations
      BY <1>7, <2>1
    <3> HIDE DEF y
    <3>3. \A k \in 1 .. d + 1 : (k \in 1 .. d /\ k # d + 1) \/ k = d + 1
      BY <2>1
    <3>4. Reaches(t, y) /\ i + 1 <= l + Len(y)
      <4>1. ASSUME NEW k \in 1 .. d + 1 PROVE y[k][2] <= l + k
        <5>1. CASE k \in 1 .. d
          BY <1>7, <3>2, <5>1 DEF Reaches, l
        <5>2. CASE k = d + 1
          BY <1>1, <1>7, <2>1, <3>2, <5>2
        <5> QED BY <3>3, <5>1, <5>2, Zenon
      <4>2. i + 1 <= l + (d + 1)
        BY <1>1, <1>7, <2>1
      <4> QED BY <3>2, <4>1, <4>2, Zenon DEF Reaches, l
    <3>5. ASSUME None1, p[1] = o
          PROVE  /\ p[2] = i + 1
                 /\ \A j \in 1 .. l : t[j].origin = o => j < i + 1
      <4>1. s[i + 1].origin = o /\ p[2] = i + 1
        BY <1>5, <2>1, <3>5, Zenon
      <4>2. i + 1 > Cursor(t, o)
        BY <1>3, <2>1, <2>3, <4>1, Zenon
      <4> QED BY <1>1, <1>4, <2>1, <4>1, <4>2
    <3>6. ASSUME None1 PROVE GoesOn(t, o, y) /\ Sofar(i + 1, y)
      <4>1. GoesOn(t, o, x) /\ Sofar(i, x)
        BY <1>7, <3>6, Zenon
      <4>2. \A k \in 1 .. d : x[k][2] \in Nat
        BY <3>2 DEF Operations
      <4>3. ASSUME NEW k \in 1 .. d, x[k][1] = o PROVE x[k][2] < i + 1
        <5>1. x[k][2] <= i
          BY <4>1, <4>3, Zenon
        <5> QED BY <2>1, <4>2, <5>1
      <4>4. ASSUME NEW k \in 1 .. d + 1, y[k][1] = o
            PROVE  y[k][2] <= i + 1 /\ \A j \in 1 .. l : t[j].origin = o => j < y[k][2]
        <5>1. CASE k \in 1 .. d
          <6>1. \A j \in 1 .. l : t[j].origin = o => j < x[k][2]
            BY <3>2, <4>1, <4>4, <5>1, Zenon DEF GoesOn, l
          <6>2. x[k][2] <= i + 1
            BY <2>1, <3>2, <4>2, <4>3, <4>4, <5>1
          <6> QED BY <3>2, <5>1, <6>1, <6>2, Zenon
        <5>2. CASE k = d + 1
          <6>1. p[1] = o
            BY <3>2, <4>4, <5>2, Zenon
          <6>2. p[2] <= i + 1
            BY <2>1
          <6> QED BY <3>2, <3>5, <3>6, <5>2, <6>1, <6>2, Zenon
        <5> QED BY <3>3, <5>1, <5>2, Zenon
      <4>5. ASSUME NEW k \in 1 .. d + 1, NEW m \in 1 .. d + 1, k < m, y[k][1] = o, y[m][1] = o
            PROVE  y[k][2] < y[m][2]
        <5>1. k \in 1 .. d
          BY <2>1, <4>5
        <5>2. CASE m \in 1 .. d
          BY <3>2, <4>1, <4>5, <5>1, <5>2, Zenon DEF GoesOn
        <5>3. CASE m = d + 1
          <6>1. p[1] = o
            BY <3>2, <4>5, <5>3, Zenon
          <6>2. x[k][2] < i + 1 /\ p[2] = i + 1
            BY <3>2, <3>5, <3>6, <4>3, <4>5, <5>1, <6>1, Zenon
          <6> QED BY <3>2, <5>1, <5>3, <6>2, Zenon
        <5> QED BY <3>3, <5>2, <5>3, Zenon
      <4> QED BY <3>2, <4>4, <4>5, Zenon DEF GoesOn, l
    <3> HIDE DEF Sofar
    <3> QED BY <3>1, <3>2, <3>4, <3>6, Zenon
  <2> QED BY <2>2, <2>3, Zenon
<1> HIDE DEF Good, Round
<1> DEFINE RunTo(k, f) == f = [i \in 0 .. k |-> IF i = 0 THEN <<>> ELSE Round(f[i - 1], i)]
           h == CHOOSE f : RunTo(n, f)
<1>8. \E f : RunTo(n, f)
  <2> DEFINE S == {k \in Nat : \E f : RunTo(k, f)}
  <2>1. 0 \in S
    <3>1. RunTo(0, [i \in 0 .. 0 |-> <<>>])
      OBVIOUS
    <3> QED BY <3>1, Zenon
  <2>2. ASSUME NEW k \in 0 .. n - 1, k \in S PROVE k + 1 \in S
    <3>1. PICK f : RunTo(k, f)
      BY <2>2, Zenon
    <3> DEFINE e == [i \in 0 .. k + 1 |-> IF i = k + 1 THEN Round(f[k], k + 1) ELSE f[i]]
    <3>2. ASSUME NEW i \in 0 .. k + 1 PROVE e[i] = IF i = 0 THEN <<>> ELSE Round(e[i - 1], i)
      <4>1. k \in Nat /\ i \in Nat
        OBVIOUS
      <4>2. CASE i = k + 1
        <5>1. i # 0 /\ i - 1 = k /\ k \in 0 .. k + 1 /\ k # k + 1
          BY <4>1, <4>2
        <5> QED BY <4>2, <5>1, Zenon
      <4>3. CASE i # k + 1 /\ i # 0
        <5>1. i \in 0 .. k /\ i - 1 \in 0 .. k + 1 /\ i - 1 # k + 1
          BY <4>1, <4>3
        <5>2. f[i] = Round(f[i - 1], i)
          BY <3>1, <4>3, <5>1, Zenon
        <5> QED BY <4>3, <5>1, <5>2, Zenon
      <4>4. CASE i = 0
        <5>1. 0 \in 0 .. k /\ 0 # k + 1
          BY <4>1
        <5>2. f[0] = <<>>
          BY <3>1, <5>1, Zenon
        <5> QED BY <4>4, <5>1, <5>2, Zenon
      <4> QED BY <4>2, <4>3, <4>4, Zenon
    <3>3. RunTo(k + 1, e)
      <4>1. e = [i \in 0 .. k + 1 |-> e[i]]
        BY Zenon
      <4> HIDE DEF e
      <4> QED BY <3>2, <4>1, Zenon
    <3>4. k + 1 \in Nat
      OBVIOUS
    <3> HIDE DEF RunTo, e
    <3> QED BY <3>3, <3>4, Zenon
  <2> HIDE DEF S
  <2>3. \A k \in 0 .. n : k \in S
    BY <1>1, <2>1, <2>2, UpTo, Zenon
  <2>4. n \in S
    BY <1>1, <2>3
  <2> QED BY <2>4, Zenon DEF S
<1>9. RunTo(n, h)
  <2> HIDE DEF RunTo
  <2> QED BY <1>8, Zenon
<1>10. GetChanges(o, utd).operations = h[n] /\ GetChanges(o, utd).origin = o
  BY Zenon DEF GetChanges, Round, s, n
<1> HIDE DEF h
<1>11. Good(n, h[n])
  <2> DEFINE S == {i \in Nat : Good(i, h[i])}
  <2>1. 0 \in S
    <3>1. h[0] = <<>>
      BY <1>1, <1>9
    <3> QED BY <1>6, <3>1, Zenon
  <2>2. ASSUME NEW i \in 0 .. n - 1, i \in S PROVE i + 1 \in S
    <3>1. i + 1 \in 0 .. n /\ (i + 1) - 1 = i /\ i + 1 \in Nat /\ i + 1 # 0
      BY <1>1
    <3>2. h[i + 1] = Round(h[i], i + 1)
      BY <1>9, <3>1
    <3> QED BY <1>7, <2>2, <3>1, <3>2, Zenon
  <2> HIDE DEF S
  <2>3. \A i \in 0 .. n : i \in S
    BY <1>1, <2>1, <2>2, UpTo, Zenon
  <2>4. n \in S
    BY <1>1, <2>3
  <2> QED BY <2>4, Zenon DEF S
<1>12. /\ h[n] \in Seq(Operations) /\ Reaches(t, h[n])
       /\ NoneCameBack(o) => GoesOn(t, o, h[n])
  BY <1>11, Zenon DEF Good, None1
<1> QED BY <1>10, <1>12, Zenon DEF BatchFits, t, utd

-----------------------------------------------------------------------------
(* apply_changes: the operations of a batch go to the end of the log, with *)
(* the indices of their places there.                                      *)
LEMMA Applied ==
  ASSUME NEW n \in Node, DOMAIN log = Node, Numbered(log[n]), NEW STATE b,
         b.origin \in Node, b.operations \in Seq(Operations),
         ApplyChanges(n, b)
  PROVE  /\ DOMAIN log' = Node
         /\ \A m \in Node \ {n} : log'[m] = log[m]
         /\ Numbered(log'[n])
         /\ Len(log'[n]) = Len(log[n]) + Len(b.operations)
         /\ \A i \in 1 .. Len(log[n]) : log'[n][i] = log[n][i]
         /\ \A k \in 1 .. Len(b.operations) :
              /\ log'[n][Len(log[n]) + k].origin = b.origin
              /\ log'[n][Len(log[n]) + k].payload = b.operations[k]
<1> DEFINE s == log[n]
           start == LastLogIndex(s)
           entry(i) == [index |-> start + i, origin |-> b.origin, payload |-> b.operations[i]]
           new == [i \in DOMAIN b.operations |-> entry(i)]
           d == Len(b.operations)
           l == Len(s)
<1>1. l \in Nat /\ start = l /\ s \in Seq(Entries) /\ d \in Nat /\ DOMAIN b.operations = 1 .. d
  BY LastIndex DEF Numbered
<1>2. DOMAIN log' = Node /\ log'[n] = s \o new /\ \A m \in Node \ {n} : log'[m] = log[m]
  BY Zenon DEF ApplyChanges
<1>3. \A i \in 1 .. d : /\ b.operations[i] \in Operations
                        /\ new[i] = [index |-> l + i, origin |-> b.origin, payload |-> b.operations[i]]
  BY <1>1
<1>4. new \in Seq(Entries) /\ Len(new) = d
  <2>1. \A i \in 1 .. d : new[i] \in Entries
    BY <1>1, <1>3 DEF Entries
  <2>2. new \in [1 .. d -> Entries]
    BY <1>1, <2>1, Zenon
  <2> HIDE DEF new, s, d, l, entry, start
  <2> QED BY <1>1, <2>2
<1> HIDE DEF new, s, d, l
<1>5. /\ s \o new \in Seq(Entries) /\ Len(s \o new) = l + d
      /\ \A i \in 1 .. l : (s \o new)[i] = s[i]
      /\ \A i \in l + 1 .. l + d : (s \o new)[i] = new[i - l]
  <2>1. /\ s \o new \in Seq(Entries) /\ Len(s \o new) = l + d
        /\ \A i \in 1 .. l + d : (s \o new)[i] = IF i <= l THEN s[i] ELSE new[i - l]
    BY <1>1, <1>4, ConcatProperties, Zenon DEF l
  <2>2. /\ \A i \in 1 .. l : i \in 1 .. l + d /\ i <= l
        /\ \A i \in l + 1 .. l + d : i \in 1 .. l + d /\ ~(i <= l)
    BY <1>1
  <2> QED BY <2>1, <2>2, Zenon
<1>6. \A k \in 1 .. d : (s \o new)[l + k] = new[k]
  <2> SUFFICES ASSUME NEW k \in 1 .. d PROVE (s \o new)[l + k] = new[k]
    BY Zenon
  <2>1. l + k \in l + 1 .. l + d /\ (l + k) - l = k
    BY <1>1
  <2> QED BY <1>5, <2>1, Zenon
<1>7. ASSUME NEW i \in 1 .. l + d
      PROVE  (s \o new)[i].index = i
  <2>1. CASE i \in 1 .. l
    BY <1>5, <2>1, Zenon DEF Numbered, s, l
  <2>2. CASE i \notin 1 .. l
    <3>1. i - l \in 1 .. d /\ i \in l + 1 .. l + d /\ l + (i - l) = i
      BY <1>1, <2>2
    <3>2. (s \o new)[i] = new[i - l]
      BY <1>5, <3>1, Zenon
    <3>3. (s \o new)[i] = [index |-> l + (i - l), origin |-> b.origin, payload |-> b.operations[i - l]]
      BY <1>3, <3>1, <3>2, Zenon
    <3> QED BY <3>1, <3>3
  <2> QED BY <2>1, <2>2, Zenon
<1>8. Numbered(s \o new)
  BY <1>5, <1>7, Zenon DEF Numbered
<1>9. \A k \in 1 .. d : (s \o new)[l + k].origin = b.origin /\ (s \o new)[l + k].payload = b.operations[k]
  <2> SUFFICES ASSUME NEW k \in 1 .. d
               PROVE (s \o new)[l + k].origin = b.origin /\ (s \o new)[l + k].payload = b.operations[k]
    BY Zenon
  <2>1. (s \o new)[l + k] = [index |-> l + k, origin |-> b.origin, payload |-> b.operations[k]]
    BY <1>3, <1>6, Zenon
  <2> QED BY <2>1
<1> QED BY <1>2, <1>5, <1>8, <1>9, Zenon DEF s, d, l

(* A server that none of its operations came back to had none come back    *)
(* before, whatever log has grown.                                         *)
LEMMA CameBackGrows ==
  ASSUME NEW a \in Node, NEW n \in Node, Numbered(log[n]), Numbered(log'[n]),
         Len(log[n]) <= Len(log'[n]), \A i \in 1 .. Len(log[n]) : log'[n][i] = log[n][i],
         \A m \in Node \ {n} : log'[m] = log[m], NoneCameBack(a)'
  PROVE  NoneCameBack(a)
<1>1. CASE a # n
  BY <1>1, Zenon DEF NoneCameBack
<1>2. CASE a = n
  <2>1. /\ DOMAIN log[n] = 1 .. Len(log[n]) /\ DOMAIN log'[n] = 1 .. Len(log'[n])
        /\ Len(log[n]) \in Nat /\ Len(log'[n]) \in Nat
    BY DEF Numbered
  <2>2. 1 .. Len(log[n]) \subseteq 1 .. Len(log'[n])
    BY <2>1
  <2> QED BY <1>2, <2>1, <2>2, Zenon DEF NoneCameBack
<1> QED BY <1>1, <1>2, Zenon

(* A batch still fits when the log of the one who pulled it is the same,   *)
(* and none of the operations of its origin has come back that had not.    *)
LEMMA FitsUnchanged ==
  ASSUME NEW r \in Node, BatchFits(r, batch[r]), log'[r] = log[r], batch'[r] = batch[r],
         \A a \in Node : NoneCameBack(a)' => NoneCameBack(a)
  PROVE  BatchFits(r, batch[r])'
BY Zenon DEF BatchFits, Reaches, GoesOn

(* A write goes on with the server's own operations; a batch that the      *)
(* server waits for still fits.                                            *)
LEMMA WriteStep ==
  ASSUME PullInv, NEW o \in Node, Write(o)
  PROVE  PullInv'
<1> DEFINE b == [operations |-> <<<<o, Len(log[o]) + 1>>>>, origin |-> o]
           l == Len(log[o])
<1>1. /\ DOMAIN log = Node /\ DOMAIN batch = Node /\ Numbered(log[o]) /\ l \in Nat
      /\ ApplyChanges(o, b) /\ UNCHANGED batch
  BY LastIndex, Zenon DEF PullInv, Write
<1>2. /\ b.origin = o /\ b.operations = <<<<o, l + 1>>>> /\ b.operations \in Seq(Operations)
      /\ Len(b.operations) = 1
  BY <1>1 DEF Operations
<1>3. \A k \in 1 .. Len(b.operations) : b.operations[k] = <<o, l + 1>> /\ k = 1
  BY <1>2
<1> HIDE DEF b
<1>4. /\ DOMAIN log' = Node /\ \A m \in Node \ {o} : log'[m] = log[m]
      /\ Numbered(log'[o]) /\ Len(log'[o]) = l + 1
      /\ \A i \in 1 .. l : log'[o][i] = log[o][i]
      /\ log'[o][l + 1].origin = o /\ log'[o][l + 1].payload = <<o, l + 1>>
  <2>1. 1 \in 1 .. Len(b.operations)
    BY <1>2
  <2>2. b.origin \in Node /\ b.operations \in Seq(Operations)
    BY <1>2, Zenon
  <2>3. /\ DOMAIN log' = Node
        /\ \A m \in Node \ {o} : log'[m] = log[m]
        /\ Numbered(log'[o])
        /\ Len(log'[o]) = Len(log[o]) + Len(b.operations)
        /\ \A i \in 1 .. Len(log[o]) : log'[o][i] = log[o][i]
        /\ \A k \in 1 .. Len(b.operations) :
             /\ log'[o][Len(log[o]) + k].origin = b.origin
             /\ log'[o][Len(log[o]) + k].payload = b.operations[k]
    BY <1>1, <2>2, Applied
  <2> QED BY <1>1, <1>2, <1>3, <2>1, <2>3
<1>5. \A a \in Node : NoneCameBack(a)' => NoneCameBack(a)
  <2>1. Len(log[o]) <= Len(log'[o])
    BY <1>1, <1>4
  <2> QED BY <1>1, <1>4, <2>1, CameBackGrows, Zenon
<1>6. \A i \in 1 .. l + 1 : i \in 1 .. l \/ i = l + 1
  BY <1>1
<1>7. Placed(o, log'[o])
  <2>1. ASSUME NEW i \in 1 .. l + 1
        PROVE  log'[o][i].payload[2] <= i /\ (log'[o][i].origin = o => log'[o][i].payload = <<o, i>>)
    <3>1. CASE i \in 1 .. l
      BY <1>4, <3>1, Zenon DEF PullInv, Placed
    <3>2. CASE i = l + 1
      BY <1>1, <1>4, <3>2
    <3> QED BY <1>6, <3>1, <3>2, Zenon
  <2> QED BY <1>4, <2>1, Zenon DEF Placed
<1>8. \A n \in Node : Numbered(log'[n]) /\ Placed(n, log'[n])
  BY <1>4, <1>7, Zenon DEF PullInv
<1>9. ASSUME NEW r \in Node, batch'[r] # None PROVE BatchFits(r, batch[r])'
  <2>1. batch'[r] = batch[r] /\ BatchFits(r, batch[r])
    BY <1>1, <1>9, Zenon DEF PullInv
  <2>2. CASE r # o
    BY <1>4, <1>5, <2>1, <2>2, FitsUnchanged, Zenon
  <2>3. CASE r = o
    <3>p. PICK p \in Node, x \in Seq(Operations) : p = batch[r].origin /\ x = batch[r].operations
      BY <2>1, Zenon DEF BatchFits
    <3>1. x \in Seq(Operations) /\ p \in Node /\ p # o
      BY <2>1, <2>3, <3>p, Zenon DEF BatchFits
    <3>2. Reaches(log'[o], x)
      <4>1. \A k \in 1 .. Len(x) : x[k][2] <= l + k
        BY <2>1, <2>3, <3>p, Zenon DEF BatchFits, Reaches
      <4>2. \A k \in 1 .. Len(x) : x[k] \in Operations
        BY <3>1
      <4>3. \A k \in 1 .. Len(x) : x[k][2] \in Nat /\ k \in Nat
        BY <4>2 DEF Operations
      <4>4. \A k \in 1 .. Len(x) : x[k][2] <= (l + 1) + k
        BY <1>1, <4>1, <4>3
      <4> QED BY <1>4, <4>4, Zenon DEF Reaches
    <3>3. GoesOn(log[o], p, x) => GoesOn(log'[o], p, x)
      <4>1. \A i \in 1 .. l + 1 : log'[o][i].origin = p => i \in 1 .. l /\ log[o][i].origin = p
        BY <1>4, <1>6, <3>1, Zenon
      <4> QED BY <1>4, <4>1, Zenon DEF GoesOn
    <3>4. NoneCameBack(p)' => GoesOn(log'[o], p, x)
      BY <1>5, <2>1, <2>3, <3>p, <3>1, <3>3, Zenon DEF BatchFits
    <3>5. batch'[r].operations = x /\ batch'[r].origin = p
      BY <2>1, <3>p, Zenon
    <3>6. NoneCameBack(batch[r].origin)' <=> NoneCameBack(p)'
      BY <3>5, Zenon DEF NoneCameBack
    <3> QED BY <2>3, <3>1, <3>2, <3>4, <3>5, <3>6, Zenon DEF BatchFits, Reaches, GoesOn
  <2> QED BY <2>2, <2>3, Zenon
<1>10. ASSUME NEW r \in Node, NEW a \in Node, NoneCameBack(a)' PROVE Ascends(log'[r], a)
  <2>1. Ascends(log[r], a)
    BY <1>5, <1>10, Zenon DEF PullInv
  <2>2. CASE r # o
    BY <1>4, <2>1, <2>2, Zenon
  <2>3. CASE r = o /\ a # o
    <3>1. \A i \in 1 .. l + 1 : log'[o][i].origin = a => i \in 1 .. l /\ log'[o][i] = log[o][i]
      BY <1>4, <1>6, <2>3, Zenon
    <3> SUFFICES ASSUME NEW i \in 1 .. l + 1, NEW j \in 1 .. l + 1, i < j,
                        log'[o][i].origin = a, log'[o][i].payload[1] = a,
                        log'[o][j].origin = a, log'[o][j].payload[1] = a
                 PROVE  log'[o][i].payload[2] < log'[o][j].payload[2]
      BY <1>4, <2>3, Zenon DEF Ascends
    <3>2. i \in 1 .. l /\ j \in 1 .. l /\ log'[o][i] = log[o][i] /\ log'[o][j] = log[o][j]
      BY <3>1, Zenon
    <3> QED BY <2>1, <2>3, <3>2, Zenon DEF Ascends
  <2>4. CASE r = o /\ a = o
    <3>1. \A i \in 1 .. Len(log'[o]) : log'[o][i].origin = o => log'[o][i].payload[2] = i
      BY <1>7 DEF Placed
    <3> QED BY <2>4, <3>1 DEF Ascends
  <2> QED BY <2>2, <2>3, <2>4, Zenon
<1> QED BY <1>1, <1>4, <1>8, <1>9, <1>10, Zenon DEF PullInv

(* A batch that fits goes on behind what the server has of its origin.     *)
LEMMA DeliverStep ==
  ASSUME PullInv, NEW r \in Node, Deliver(r)
  PROVE  PullInv'
<1> DEFINE b == batch[r]
           x == b.operations
           o == b.origin
           l == Len(log[r])
           d == Len(x)
<1>1. /\ DOMAIN log = Node /\ DOMAIN batch = Node /\ Numbered(log[r]) /\ Placed(r, log[r])
      /\ ApplyChanges(r, b) /\ batch' = [batch EXCEPT ![r] = None] /\ BatchFits(r, b)
  BY Zenon DEF PullInv, Deliver
<1>2. /\ o \in Node /\ o # r /\ x \in Seq(Operations) /\ l \in Nat /\ d \in Nat
      /\ \A k \in 1 .. d : x[k][2] \in Nat /\ x[k][2] <= l + k
  <2>1. o \in Node /\ o # r /\ x \in Seq(Operations) /\ \A k \in 1 .. d : x[k][2] <= l + k
    BY <1>1, Zenon DEF BatchFits, Reaches
  <2>2. l \in Nat
    BY <1>1, LastIndex, Zenon
  <2>3. d \in Nat /\ \A k \in 1 .. d : x[k] \in Operations
    BY <2>1
  <2>4. \A k \in 1 .. d : x[k][2] \in Nat
    BY <2>3 DEF Operations
  <2> QED BY <2>1, <2>2, <2>3, <2>4, Zenon
<1>3. /\ DOMAIN log' = Node /\ \A m \in Node \ {r} : log'[m] = log[m]
      /\ Numbered(log'[r]) /\ Len(log'[r]) = l + d
      /\ \A i \in 1 .. l : log'[r][i] = log[r][i]
      /\ \A k \in 1 .. d : log'[r][l + k].origin = o /\ log'[r][l + k].payload = x[k]
  <2> HIDE DEF b
  <2> QED BY <1>1, <1>2, Applied
<1> HIDE DEF b, x, o, l, d
<1>4. \A a \in Node : NoneCameBack(a)' => NoneCameBack(a)
  <2>1. Len(log[r]) <= Len(log'[r])
    BY <1>2, <1>3 DEF l
  <2> QED BY <1>1, <1>3, <2>1, CameBackGrows, Zenon DEF l
(* The entry at place i of the new log is an old one, or one of the batch. *)
<1>5. \A i \in 1 .. l + d : \/ i \in 1 .. l /\ log'[r][i] = log[r][i]
                            \/ /\ i > l /\ i - l \in 1 .. d /\ l + (i - l) = i
                               /\ log'[r][i].origin = o /\ log'[r][i].payload = x[i - l]
  <2> SUFFICES ASSUME NEW i \in 1 .. l + d, i \notin 1 .. l
               PROVE /\ i > l /\ i - l \in 1 .. d /\ l + (i - l) = i
                     /\ log'[r][i].origin = o /\ log'[r][i].payload = x[i - l]
    BY <1>3, Zenon
  <2>1. i > l /\ i - l \in 1 .. d /\ l + (i - l) = i
    BY <1>2
  <2> QED BY <1>3, <2>1, Zenon
<1>6. Placed(r, log'[r])
  <2>1. ASSUME NEW i \in 1 .. l + d
        PROVE  log'[r][i].payload[2] <= i /\ (log'[r][i].origin = r => log'[r][i].payload = <<r, i>>)
    <3>1. CASE i \in 1 .. l /\ log'[r][i] = log[r][i]
      BY <1>1, <3>1, Zenon DEF Placed, l
    <3>2. CASE /\ i > l /\ i - l \in 1 .. d /\ l + (i - l) = i
               /\ log'[r][i].origin = o /\ log'[r][i].payload = x[i - l]
      <4>1. x[i - l][2] <= i
        BY <1>2, <3>2, Zenon
      <4> QED BY <1>2, <3>2, <4>1, Zenon
    <3> QED BY <1>5, <3>1, <3>2, Zenon
  <2> QED BY <1>3, <2>1, Zenon DEF Placed
<1>7. \A n \in Node : Numbered(log'[n]) /\ Placed(n, log'[n])
  BY <1>3, <1>6, Zenon DEF PullInv
<1>8. ASSUME NEW q \in Node, batch'[q] # None PROVE BatchFits(q, batch[q])'
  <2>1. q # r /\ batch'[q] = batch[q]
    BY <1>1, <1>8, Zenon
  <2>2. log'[q] = log[q] /\ BatchFits(q, batch[q])
    BY <1>3, <1>8, <2>1, Zenon DEF PullInv
  <2> QED BY <1>4, <2>1, <2>2, FitsUnchanged, Zenon
<1>9. ASSUME NEW a \in Node, NoneCameBack(a)' PROVE Ascends(log'[r], a)
  <2>1. Ascends(log[r], a) /\ NoneCameBack(a)
    BY <1>4, <1>9, Zenon DEF PullInv
  <2>2. CASE a # o
    <3>1. \A i \in 1 .. l + d : log'[r][i].origin = a => i \in 1 .. l /\ log'[r][i] = log[r][i]
      BY <1>5, <2>2, Zenon
    <3> QED BY <1>3, <2>1, <3>1, Zenon DEF Ascends, l
  <2>3. CASE a = o
    <3>1. GoesOn(log[r], o, x)
      BY <1>1, <2>1, <2>3, Zenon DEF BatchFits, x, o
    <3> SUFFICES ASSUME NEW i \in 1 .. l + d, NEW j \in 1 .. l + d, i < j,
                        log'[r][i].origin = o, log'[r][i].payload[1] = o,
                        log'[r][j].origin = o, log'[r][j].payload[1] = o
                 PROVE  log'[r][i].payload[2] < log'[r][j].payload[2]
      BY <1>3, <2>3, Zenon DEF Ascends
    <3>2. CASE j \in 1 .. l /\ log'[r][j] = log[r][j]
      <4>1. i \in 1 .. l
        BY <1>2, <3>2
      <4>2. log'[r][i] = log[r][i]
        BY <1>3, <4>1, Zenon
      <4> QED BY <2>1, <2>3, <3>2, <4>1, <4>2, Zenon DEF Ascends, l
    <3>3. CASE /\ j > l /\ j - l \in 1 .. d /\ l + (j - l) = j
               /\ log'[r][j].origin = o /\ log'[r][j].payload = x[j - l]
      <4>1. CASE i \in 1 .. l /\ log'[r][i] = log[r][i]
        <5>1. i < x[j - l][2]
          BY <3>1, <3>3, <4>1, Zenon DEF GoesOn, l, d
        <5>2. log[r][i].payload[2] <= i /\ log[r][i].payload[2] \in Nat
          <6>1. log[r][i] \in Entries
            BY <1>1, <4>1 DEF Numbered, l
          <6>2. log[r][i].payload \in Operations
            BY <6>1, Zenon DEF Entries
          <6>3. log[r][i].payload[2] \in Nat
            BY <6>2 DEF Operations
          <6> QED BY <1>1, <4>1, <6>3, Zenon DEF Placed, l
        <5>3. x[j - l][2] \in Nat /\ i \in Nat
          BY <1>2, <3>3
        <5>4. log[r][i].payload[2] < x[j - l][2]
          BY <5>1, <5>2, <5>3
        <5> QED BY <3>3, <4>1, <5>4, Zenon
      <4>2. CASE i > l /\ i - l \in 1 .. d /\ log'[r][i].payload = x[i - l]
        <5>1. i - l < j - l
          BY <1>2
        <5> QED BY <3>1, <3>3, <4>2, <5>1, Zenon DEF GoesOn, d
      <4> QED BY <1>5, <4>1, <4>2, Zenon
    <3> QED BY <1>5, <3>2, <3>3, Zenon
  <2> QED BY <2>2, <2>3, Zenon
<1>10. ASSUME NEW q \in Node, NEW a \in Node, NoneCameBack(a)' PROVE Ascends(log'[q], a)
  <2>1. Ascends(log[q], a)
    BY <1>4, <1>10, Zenon DEF PullInv
  <2> QED BY <1>3, <1>9, <1>10, <2>1, Zenon
<1> QED BY <1>1, <1>3, <1>7, <1>8, <1>10, Zenon DEF PullInv

(* Every step of the logs keeps the invariant.                             *)
LEMMA NextPullInv ==
  ASSUME PullInv, [LogNext]_replVars
  PROVE  PullInv'
<1>1. ASSUME UNCHANGED log, DOMAIN batch' = Node,
             \A r \in Node : batch'[r] # None => BatchFits(r, batch[r])'
      PROVE  PullInv'
  <2>1. \A a \in Node : NoneCameBack(a)' <=> NoneCameBack(a)
    BY <1>1, Zenon DEF NoneCameBack
  <2> QED BY <1>1, <2>1, Zenon DEF PullInv, Numbered, Placed, Ascends
<1>2. ASSUME UNCHANGED log, NEW q \in Node, batch'[q] = batch[q], batch[q] # None
      PROVE  BatchFits(q, batch[q])'
  <2>1. \A a \in Node : NoneCameBack(a)' <=> NoneCameBack(a)
    BY <1>2, Zenon DEF NoneCameBack
  <2>2. log'[q] = log[q] /\ BatchFits(q, batch[q])
    BY <1>2, Zenon DEF PullInv
  <2> QED BY <1>2, <2>1, <2>2, FitsUnchanged, Zenon
<1>3. CASE UNCHANGED replVars
  <2>1. UNCHANGED log /\ UNCHANGED batch
    BY <1>3, Zenon DEF replVars
  <2>2. \A r \in Node : batch'[r] # None => BatchFits(r, batch[r])'
    BY <1>2, <2>1, Zenon
  <2>3. DOMAIN batch' = Node
    BY <2>1, Zenon DEF PullInv
  <2> QED BY <1>1, <2>1, <2>2, <2>3, Zenon
<1>4. ASSUME NEW n \in Node, Lose(n) PROVE PullInv'
  <2>1. UNCHANGED log /\ batch' = [batch EXCEPT ![n] = None] /\ DOMAIN batch = Node
    BY <1>4, Zenon DEF Lose, PullInv
  <2>2. ASSUME NEW q \in Node, batch'[q] # None PROVE BatchFits(q, batch[q])'
    <3>1. batch'[q] = batch[q] /\ batch[q] # None
      BY <2>1, <2>2, Zenon
    <3> QED BY <1>2, <2>1, <3>1, Zenon
  <2> QED BY <1>1, <2>1, <2>2, Zenon
<1>5. ASSUME NEW n \in Node, NEW o \in Node, Pull(n, o) PROVE PullInv'
  <2> DEFINE b == GetChanges(o, SynthesizeUtdVector(log[n]))
  <2>1. UNCHANGED log /\ batch' = [batch EXCEPT ![n] = b] /\ DOMAIN batch = Node /\ o # n
    BY <1>5, Zenon DEF Pull, PullInv
  <2>2. BatchFits(n, b)
    BY <2>1, ChangesFacts, Zenon DEF PullInv
  <2> HIDE DEF b
  <2>3. ASSUME NEW q \in Node, batch'[q] # None PROVE BatchFits(q, batch[q])'
    <3>1. CASE q = n
      <4>1. PICK c : c = b
        BY Zenon
      <4>2. batch'[q] = c /\ BatchFits(n, c)
        BY <2>1, <2>2, <3>1, <4>1, Zenon
      <4>3. NoneCameBack(batch[q].origin)' <=> NoneCameBack(c.origin)
        <5>1. batch'[q].origin = c.origin /\ log' = log
          BY <2>1, <4>2, Zenon
        <5> QED BY <5>1, Zenon DEF NoneCameBack
      <4>4. log'[q] = log[n]
        BY <2>1, <3>1, Zenon
      <4> QED BY <3>1, <4>2, <4>3, <4>4, Zenon DEF BatchFits, Reaches, GoesOn
    <3>2. CASE q # n
      <4>1. batch'[q] = batch[q] /\ batch[q] # None
        BY <2>1, <2>3, <3>2, Zenon
      <4> QED BY <1>2, <2>1, <4>1, Zenon
    <3> QED BY <3>1, <3>2, Zenon
  <2> QED BY <1>1, <2>1, <2>3, Zenon
<1> QED BY <1>3, <1>4, <1>5, WriteStep, DeliverStep, Zenon DEF LogNext

(* Positive numbers that ascend, each no greater than its place, are the   *)
(* places.                                                                 *)
LEMMA NoGap ==
  ASSUME NEW n, NEW s, Numbered(s), Placed(n, s),
         \A i, j \in 1 .. Len(s) : i < j => s[i].payload[2] < s[j].payload[2]
  PROVE  \A i \in 1 .. Len(s) : s[i].payload[2] = i
<1> DEFINE l == Len(s)
           f(i) == s[i].payload[2]
           S == {k \in Nat : k \in 1 .. l => f(k) >= k}
<1>1. l \in Nat
  BY LastIndex, Zenon
<1>2. \A i \in 1 .. l : f(i) \in Nat \ {0} /\ f(i) <= i
  <2>1. \A i \in 1 .. l : s[i] \in Entries
    BY DEF Numbered
  <2>2. \A i \in 1 .. l : s[i].payload \in Operations
    BY <2>1, Zenon DEF Entries
  <2>3. \A p \in Operations : p[2] \in Nat \ {0}
    BY DEF Operations
  <2> QED BY <2>2, <2>3, Zenon DEF Placed
<1>3. \A i, j \in 1 .. l : i < j => f(i) < f(j)
  BY Zenon
<1> HIDE DEF l, f
<1>4. 0 \in S
  OBVIOUS
<1>5. ASSUME NEW k \in 0 .. l - 1, k \in S PROVE k + 1 \in S
  <2>1. k \in Nat /\ k + 1 \in 1 .. l /\ k + 1 \in Nat
    BY <1>1
  <2>2. CASE k = 0
    BY <1>2, <2>1, <2>2
  <2>3. CASE k # 0
    <3>1. k \in 1 .. l /\ k < k + 1
      BY <1>1, <2>3
    <3>2. f(k) < f(k + 1)
      BY <1>3, <2>1, <3>1, Zenon
    <3>3. f(k) >= k
      BY <1>5, <3>1, Zenon
    <3>4. f(k) \in Nat /\ f(k + 1) \in Nat
      BY <1>2, <2>1, <3>1
    <3> QED BY <2>1, <3>2, <3>3, <3>4
  <2> QED BY <2>2, <2>3, Zenon
<1> HIDE DEF S
<1>6. \A k \in 0 .. l : k \in S
  BY <1>1, <1>4, <1>5, UpTo, Zenon
<1>7. ASSUME NEW i \in 1 .. l PROVE f(i) = i
  <2>1. i \in 0 .. l
    BY <1>1
  <2>2. f(i) >= i
    BY <1>6, <2>1, Zenon DEF S
  <2> QED BY <1>1, <1>2, <2>2
<1> QED BY <1>7, Zenon DEF f, l

(* get_changes and apply_changes, between any servers that all write,      *)
(* serve and pull: whatever batches are lost or applied late, a server     *)
(* receives from a the operations of a in their order and none of them     *)
(* twice, as long as none of them has come back to a; and without a gap if *)
(* it has nothing else.                                                    *)
THEOREM OperationsInOrder == LogSpec => []PullsInOrder
<1>1. ReplInit => PullInv
  <2> SUFFICES ASSUME ReplInit PROVE PullInv
    BY Zenon
  <2>1. \A n \in Node : log[n] = <<>>
    BY Zenon DEF ReplInit
  <2>2. Numbered(<<>>) /\ \A n : Placed(n, <<>>) /\ Ascends(<<>>, n)
    BY DEF Numbered, Placed, Ascends
  <2> QED BY <2>1, <2>2, Zenon DEF ReplInit, PullInv
<1>2. PullInv /\ [LogNext]_replVars => PullInv'
  BY NextPullInv, Zenon
<1>3. PullInv => PullsInOrder
  <2> SUFFICES ASSUME PullInv, NEW r \in Node, NEW a \in Node, NoneCameBack(a)
               PROVE  LET own == {i \in DOMAIN log[r] : log[r][i].origin = a /\ log[r][i].payload[1] = a}
                      IN /\ \A i, j \in own : i < j => log[r][i].payload[2] < log[r][j].payload[2]
                         /\ own = DOMAIN log[r] => \A i \in own : log[r][i].payload[2] = i
    BY Zenon DEF PullsInOrder
  <2> DEFINE own == {i \in DOMAIN log[r] : log[r][i].origin = a /\ log[r][i].payload[1] = a}
  <2>1. Numbered(log[r]) /\ Placed(r, log[r]) /\ Ascends(log[r], a)
    BY Zenon DEF PullInv
  <2>2. DOMAIN log[r] = 1 .. Len(log[r])
    BY <2>1 DEF Numbered
  <2>3. \A i, j \in own : i < j => log[r][i].payload[2] < log[r][j].payload[2]
    BY <2>1, <2>2, Zenon DEF Ascends
  <2>4. ASSUME own = DOMAIN log[r] PROVE \A i \in own : log[r][i].payload[2] = i
    <3> HIDE DEF own
    <3>1. \A i, j \in 1 .. Len(log[r]) : i < j => log[r][i].payload[2] < log[r][j].payload[2]
      BY <2>2, <2>3, <2>4, Zenon
    <3>2. \A i \in 1 .. Len(log[r]) : log[r][i].payload[2] = i
      BY <2>1, <3>1, NoGap, Zenon
    <3> QED BY <2>2, <2>4, <3>2, Zenon
  <2> QED BY <2>3, <2>4, Zenon
<1> QED BY <1>1, <1>2, <1>3, PTL DEF LogSpec

-----------------------------------------------------------------------------
(* What is compared of a write.                                            *)
Metadata == [version : Int, timestamp : Int, usn : Int, origin : Int]

(* The value of a server is the greatest of the writes it has received.   *)
ValueInv ==
  /\ DOMAIN seen = Node /\ DOMAIN value = Node
  /\ \A r \in Node :
       /\ seen[r] \subseteq Writes
       /\ seen[r] = {} => value[r] = None
       /\ seen[r] # {} => /\ value[r] \in seen[r]
                          /\ \A w \in seen[r] : ~ ResolveConflict(value[r], w)

(* resolve_conflict is a total order: of two different writes one wins     *)
(* from both sides, and no write loses to one that it wins over through a  *)
(* third.                                                                  *)
LEMMA ResolveOrder ==
  ASSUME NEW a \in Metadata, NEW b \in Metadata, NEW c \in Metadata
  PROVE  /\ a # b => (ResolveConflict(a, b) <=> ~ ResolveConflict(b, a))
         /\ ~ ResolveConflict(a, a)
         /\ ResolveConflict(a, b) /\ ~ ResolveConflict(a, c) => ~ ResolveConflict(b, c)
<1> DEFINE Wins(x, y) ==
             \/ y.version > x.version
             \/ y.version = x.version /\ y.timestamp > x.timestamp
             \/ y.version = x.version /\ y.timestamp = x.timestamp /\ y.usn > x.usn
             \/ /\ y.version = x.version /\ y.timestamp = x.timestamp /\ y.usn = x.usn
                /\ y.origin > x.origin
<1>1. ASSUME NEW x \in Metadata, NEW y \in Metadata PROVE ResolveConflict(x, y) <=> Wins(x, y)
  <2>1. CASE y.version # x.version
    BY <2>1, Zenon DEF ResolveConflict, Metadata
  <2>2. CASE y.version = x.version /\ y.timestamp # x.timestamp
    BY <2>2 DEF ResolveConflict, Metadata
  <2>3. CASE y.version = x.version /\ y.timestamp = x.timestamp /\ y.usn # x.usn
    BY <2>3 DEF ResolveConflict, Metadata
  <2>4. CASE y.version = x.version /\ y.timestamp = x.timestamp /\ y.usn = x.usn
    BY <2>4 DEF ResolveConflict, Metadata
  <2> QED BY <2>1, <2>2, <2>3, <2>4, Zenon
<1>2. a # b => \/ a.version # b.version \/ a.timestamp # b.timestamp
               \/ a.usn # b.usn \/ a.origin # b.origin
  BY DEF Metadata
<1>3. a # b => (Wins(a, b) <=> ~ Wins(b, a))
  BY <1>2 DEF Metadata
<1>4. ~ Wins(a, a)
  BY DEF Metadata
<1>5. Wins(a, b) /\ ~ Wins(a, c) => ~ Wins(b, c)
  BY DEF Metadata
<1> HIDE DEF Wins
<1> QED BY <1>1, <1>3, <1>4, <1>5, Zenon

(* A write that is received leaves the greatest.                           *)
LEMMA ReceiveStep ==
  ASSUME Writes \subseteq Metadata, None \notin Writes, ValueInv,
         NEW r \in Node, NEW w \in Writes, ReceiveWrite(r, w)
  PROVE  ValueInv'
<1>1. /\ DOMAIN seen' = Node /\ DOMAIN value' = Node
      /\ seen'[r] = seen[r] \cup {w} /\ seen'[r] # {} /\ seen'[r] \subseteq Writes
      /\ value'[r] = IF value[r] = None THEN w
                     ELSE IF ResolveConflict(value[r], w) THEN w ELSE value[r]
      /\ \A q \in Node : q # r => seen'[q] = seen[q] /\ value'[q] = value[q]
  BY Zenon DEF ValueInv, ReceiveWrite
<1>2. value'[r] \in seen'[r] /\ \A x \in seen'[r] : ~ ResolveConflict(value'[r], x)
  <2>1. CASE seen[r] = {}
    <3>1. value'[r] = w /\ seen'[r] = {w}
      BY <1>1, <2>1, Zenon DEF ValueInv
    <3> QED BY <3>1, ResolveOrder, Zenon
  <2>2. CASE seen[r] # {}
    <3>1. /\ value[r] \in seen[r] /\ value[r] \in Metadata /\ w \in Metadata /\ value[r] # None
          /\ \A x \in seen[r] : x \in Metadata /\ ~ ResolveConflict(value[r], x)
      BY <2>2, Zenon DEF ValueInv
    <3>2. CASE ResolveConflict(value[r], w)
      <4>1. value'[r] = w
        BY <1>1, <3>1, <3>2, Zenon
      <4>2. \A x \in seen[r] : ~ ResolveConflict(w, x)
        BY <3>1, <3>2, ResolveOrder, Zenon
      <4>3. ~ ResolveConflict(w, w)
        BY <3>1, ResolveOrder, Zenon
      <4> QED BY <1>1, <4>1, <4>2, <4>3, Zenon
    <3>3. CASE ~ ResolveConflict(value[r], w)
      BY <1>1, <3>1, <3>3, Zenon
    <3> QED BY <3>2, <3>3, Zenon
  <2> QED BY <2>1, <2>2, Zenon
<1>3. ASSUME NEW q \in Node
      PROVE  /\ seen'[q] \subseteq Writes
             /\ seen'[q] = {} => value'[q] = None
             /\ seen'[q] # {} => /\ value'[q] \in seen'[q]
                                 /\ \A x \in seen'[q] : ~ ResolveConflict(value'[q], x)
  <2>1. CASE q = r
    BY <1>1, <1>2, <2>1, Zenon
  <2>2. CASE q # r
    BY <1>1, <2>2, Zenon DEF ValueInv
  <2> QED BY <2>1, <2>2, Zenon
<1>4. ASSUME NEW x, NEW y PROVE ResolveConflict(x, y)' <=> ResolveConflict(x, y)
  BY Zenon DEF ResolveConflict
<1> QED BY <1>1, <1>3, Zenon DEF ValueInv, ResolveConflict

(* resolve_conflict: servers that have received the same writes of a      *)
(* value hold the same one, whatever the writes, the order in which they   *)
(* came and the repetitions.                                               *)
THEOREM ValuesConverge ==
  ASSUME Writes \subseteq Metadata, None \notin Writes
  PROVE  ValueSpec => []ReplicasConverge
<1>1. ReplInit => ValueInv
  BY Zenon DEF ReplInit, ValueInv
<1>2. ValueInv /\ [ValueNext]_replVars => ValueInv'
  <2>1. ValueInv /\ UNCHANGED replVars => ValueInv'
    BY DEF replVars, ValueInv, ResolveConflict
  <2> QED BY <2>1, ReceiveStep, Zenon DEF ValueNext
<1>3. ValueInv => ReplicasConverge
  <2> SUFFICES ASSUME ValueInv, NEW r \in Node, NEW s \in Node, seen[r] = seen[s]
               PROVE  value[r] = value[s]
    BY Zenon DEF ReplicasConverge
  <2>1. CASE seen[r] = {}
    BY <2>1, Zenon DEF ValueInv
  <2>2. CASE seen[r] # {}
    <3>1. /\ value[r] \in seen[r] /\ value[s] \in seen[r] /\ seen[r] \subseteq Metadata
          /\ ~ ResolveConflict(value[r], value[s]) /\ ~ ResolveConflict(value[s], value[r])
      BY <2>2, Zenon DEF ValueInv
    <3> QED BY <3>1, ResolveOrder, Zenon
  <2> QED BY <2>1, <2>2, Zenon
<1> QED BY <1>1, <1>2, <1>3, PTL DEF ValueSpec
=============================================================================
