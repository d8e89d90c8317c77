-------------------------- MODULE ResetQueueProofs --------------------------
(***************************************************************************)
(* Lemmas about ResetQueue: what an insertion, an erasure and the queue    *)
(* that LoadResetTimes builds leave in the multimap.                       *)
(***************************************************************************)
EXTENDS ResetQueue, FiniteSetTheorems, TLAPS

\* The multimap is in the order of the times.
Sorted(q) == \A i, j \in DOMAIN q : i < j => q[i].time <= q[j].time

-----------------------------------------------------------------------------
\* What SequencesExt's InsertAt returns, position by position.
LEMMA InsertAtEffect ==
    ASSUME NEW S, NEW q \in Seq(S), NEW e \in S, NEW k \in 1..Len(q) + 1
    PROVE  /\ InsertAt(q, k, e) \in Seq(S)
           /\ Len(InsertAt(q, k, e)) = Len(q) + 1
           /\ \A i \in 1..Len(q) + 1 : InsertAt(q, k, e)[i] =
                IF i < k THEN q[i] ELSE IF i = k THEN e ELSE q[i - 1]
<1> DEFINE a == SubSeq(q, 1, k - 1)
           b == SubSeq(q, k, Len(q))
<1>1. /\ a \in Seq(S) /\ Len(a) = k - 1
      /\ \A i \in 1..k - 1 : a[i] = q[i]
  OBVIOUS
<1>2. /\ b \in Seq(S) /\ Len(b) = Len(q) + 1 - k
      /\ \A i \in 1..Len(q) + 1 - k : b[i] = q[i + k - 1]
  OBVIOUS
<1>3. /\ a \o <<e>> \in Seq(S) /\ Len(a \o <<e>>) = k
      /\ \A i \in 1..k : (a \o <<e>>)[i] = IF i < k THEN q[i] ELSE e
  <2> HIDE DEF a, b
  <2> QED  BY <1>1
<1>4. InsertAt(q, k, e) = (a \o <<e>>) \o b  BY DEF InsertAt
<1>5. QED
  <2> DEFINE c == a \o <<e>>
  <2> HIDE DEF a, b, c
  <2>1. c \o b \in Seq(S) /\ Len(c \o b) = Len(c) + Len(b)
    BY <1>2, <1>3 DEF c
  <2>2. Len(c \o b) = Len(q) + 1
    <3>1. Len(q) \in Nat /\ Len(c) = k  BY <1>3 DEF c
    <3> QED  BY <1>2, <2>1, <3>1
  <2>3. ASSUME NEW i \in 1..Len(q) + 1
        PROVE  (c \o b)[i] = IF i <= k THEN c[i] ELSE b[i - k]
    BY <1>2, <1>3 DEF c
  <2> QED  BY <2>1, <2>2, <2>3, <1>2, <1>3, <1>4 DEF c

\* What SequencesExt's RemoveAt returns, position by position.
LEMMA RemoveAtEffect ==
    ASSUME NEW S, NEW q \in Seq(S), NEW k \in 1..Len(q)
    PROVE  /\ RemoveAt(q, k) \in Seq(S)
           /\ Len(RemoveAt(q, k)) = Len(q) - 1
           /\ \A i \in 1..Len(q) - 1 :
                RemoveAt(q, k)[i] = IF i < k THEN q[i] ELSE q[i + 1]
<1> DEFINE a == SubSeq(q, 1, k - 1)
           b == SubSeq(q, k + 1, Len(q))
<1>1. /\ a \in Seq(S) /\ Len(a) = k - 1
      /\ \A i \in 1..k - 1 : a[i] = q[i]
  OBVIOUS
<1>2. /\ b \in Seq(S) /\ Len(b) = Len(q) - k
      /\ \A i \in 1..Len(q) - k : b[i] = q[i + k]
  OBVIOUS
<1>3. RemoveAt(q, k) = a \o b  BY DEF RemoveAt
<1> HIDE DEF a, b
<1>4. a \o b \in Seq(S) /\ Len(a \o b) = Len(a) + Len(b)
  <2>1. a \in Seq(S) /\ b \in Seq(S)  BY <1>1, <1>2
  <2> QED  BY <2>1
<1>5. Len(a \o b) = Len(q) - 1  BY <1>1, <1>2, <1>4
<1>6. ASSUME NEW i \in 1..Len(q) - 1
      PROVE  (a \o b)[i] = IF i < k THEN a[i] ELSE b[i + 1 - k]
  BY <1>1, <1>2
<1> QED  BY <1>1, <1>2, <1>3, <1>4, <1>5, <1>6

-----------------------------------------------------------------------------
\* Schedule inserts the event somewhere; the others keep their order.
LEMMA ScheduleEffect ==
    ASSUME NEW S, NEW q \in Seq(S), NEW e \in S
    PROVE  /\ Schedule(q, e) \in Seq(S)
           /\ Len(Schedule(q, e)) = Len(q) + 1
           /\ \E k \in 1..Len(q) + 1 : \A i \in 1..Len(q) + 1 :
                Schedule(q, e)[i] =
                  IF i < k THEN q[i] ELSE IF i = k THEN e ELSE q[i - 1]
<1> DEFINE D == {i \in DOMAIN q : q[i].time <= e.time}
<1>1. IsFiniteSet(D) /\ Cardinality(D) \in 0..Len(q)
  <2> Len(q) \in Nat  OBVIOUS
  <2>1. IsFiniteSet(1..Len(q)) /\ Cardinality(1..Len(q)) = Len(q)
    BY FS_Interval
  <2>2. D \in SUBSET (1..Len(q))  OBVIOUS
  <2>3. IsFiniteSet(D) /\ Cardinality(D) <= Len(q)
    BY <2>1, <2>2, FS_Subset
  <2>4. Cardinality(D) \in Nat  BY <2>3, FS_CardinalityType
  <2> QED  BY <2>3, <2>4
<1>2. 1 + Cardinality(D) \in 1..Len(q) + 1  BY <1>1
<1>3. Schedule(q, e) = InsertAt(q, 1 + Cardinality(D), e)  BY DEF Schedule
<1> HIDE DEF D
<1> DEFINE k == 1 + Cardinality(D)
<1> HIDE DEF k
<1>4. k \in 1..Len(q) + 1 /\ Schedule(q, e) = InsertAt(q, k, e)
  BY <1>2, <1>3 DEF k
<1>5. \A i \in 1..Len(q) + 1 : Schedule(q, e)[i] =
        IF i < k THEN q[i] ELSE IF i = k THEN e ELSE q[i - 1]
  <2>1. k \in 1..Len(q) + 1  BY <1>4
  <2>2. \A i \in 1..Len(q) + 1 : InsertAt(q, k, e)[i] =
          IF i < k THEN q[i] ELSE IF i = k THEN e ELSE q[i - 1]
    BY <2>1, InsertAtEffect
  <2> QED  BY <1>4, <2>2
<1>6. Schedule(q, e) \in Seq(S) /\ Len(Schedule(q, e)) = Len(q) + 1
  BY <1>4, InsertAtEffect
<1> QED  BY <1>4, <1>5, <1>6

\* A set of natural numbers has a least element.
LEMMA LeastNatural ==
    ASSUME NEW E \in SUBSET Nat, E # {}
    PROVE  \E m \in E : \A l \in E : m <= l
<1>1. OpToRel(<, Nat) = {ss \in Nat \X Nat : ss[1] < ss[2]}
  BY Zenon DEF OpToRel
<1> DEFINE R == {ss \in Nat \X Nat : ss[1] < ss[2]}
<1>2. IsWellFoundedOn(R, Nat)  BY <1>1, NatLessThanWellFounded
<1> HIDE DEF R
<1>3. PICK m \in E : \A l \in E : ~(<<l, m>> \in R)
  BY <1>2, WFMin, Zenon
<1>4. ASSUME NEW l \in E PROVE m <= l
  <2>1. <<l, m>> \notin R  BY <1>3
  <2>2. l \in Nat /\ m \in Nat  OBVIOUS
  <2> QED  BY <2>1, <2>2 DEF R
<1> QED  BY <1>4

\* A set of positions that contains all the earlier ones is an interval.
LEMMA DownwardClosed ==
    ASSUME NEW n \in Nat, NEW D \in SUBSET (1..n),
           \A i \in D : \A j \in 1..n : j < i => j \in D
    PROVE  Cardinality(D) \in 0..n /\ D = 1..Cardinality(D)
<1> DEFINE E == {m \in Nat : \A i \in D : i <= m}
<1>1. n \in E  OBVIOUS
<1>2. PICK m \in E : \A l \in E : m <= l  BY <1>1, LeastNatural
<1>3. m \in Nat /\ D \subseteq 1..m /\ m <= n  BY <1>1, <1>2
<1>4. m = 0 \/ m \in D
  <2> SUFFICES ASSUME m # 0, m \notin D PROVE FALSE
    OBVIOUS
  <2>1. m - 1 \in E  BY <1>3
  <2> QED  BY <1>2, <1>3, <2>1
<1>5. D = 1..m
  <2>1. ASSUME NEW j \in 1..m PROVE j \in D  BY <1>3, <1>4
  <2> QED  BY <1>3, <2>1
<1> QED  BY <1>3, <1>5, FS_Interval

\* The multimap stays in the order of the times when an event is inserted.
LEMMA ScheduleSorted ==
    ASSUME NEW S, NEW q \in Seq(S), NEW e \in S, \A x \in S : x.time \in Int, Sorted(q)
    PROVE  Sorted(Schedule(q, e))
<1> DEFINE D == {i \in DOMAIN q : q[i].time <= e.time}
           k == 1 + Cardinality(D)
<1>1. \A i \in 1..Len(q) : q[i].time \in Int  OBVIOUS
<1>2. Cardinality(D) \in 0..Len(q) /\ D = 1..Cardinality(D)
  <2>1. ASSUME NEW i \in D, NEW j \in 1..Len(q), j < i PROVE j \in D
    BY <1>1, <2>1 DEF Sorted
  <2>2. D \in SUBSET (1..Len(q))  OBVIOUS
  <2> HIDE DEF D
  <2> QED  BY <2>1, <2>2, DownwardClosed
<1>3. ASSUME NEW i \in 1..Len(q) PROVE (q[i].time <= e.time) <=> (i < k)
  <2> DEFINE c == Cardinality(D)
  <2>1. c \in 0..Len(q) /\ (i \in D <=> i \in 1..c)  BY <1>2
  <2>2. i \in D <=> q[i].time <= e.time  OBVIOUS
  <2> HIDE DEF c, D
  <2>3. k = 1 + c  BY DEF c
  <2> QED  BY <2>1, <2>2, <2>3
<1>4. k \in 1..Len(q) + 1  BY <1>2
<1>5. Schedule(q, e) = InsertAt(q, k, e)  BY DEF Schedule
<1> HIDE DEF D, k
<1> DEFINE r == Schedule(q, e)
<1>6. DOMAIN r = 1..Len(q) + 1 /\ \A i \in 1..Len(q) + 1 :
        r[i] = IF i < k THEN q[i] ELSE IF i = k THEN e ELSE q[i - 1]
  BY <1>4, <1>5, InsertAtEffect
<1> HIDE DEF r
<1>7. ASSUME NEW i \in 1..Len(q) + 1, NEW j \in 1..Len(q) + 1, i < j
      PROVE  r[i].time <= r[j].time
  <2>1. e.time \in Int  OBVIOUS
  <2>2. CASE j < k  BY <1>4, <1>6, <1>7, <2>2 DEF Sorted
  <2>3. CASE j = k  BY <1>3, <1>4, <1>6, <1>7, <2>3
  <2>4. CASE i = k
    <3>1. r[j] = q[j - 1] /\ j - 1 \in 1..Len(q) /\ ~(j - 1 < k)
      BY <1>4, <1>6, <1>7, <2>4
    <3>2. r[i] = e  BY <1>6, <2>4
    <3> QED  BY <1>1, <1>3, <2>1, <3>1, <3>2
  <2>5. CASE i < k /\ j > k
    <3>1. /\ r[i] = q[i] /\ i \in 1..Len(q)
          /\ r[j] = q[j - 1] /\ j - 1 \in 1..Len(q) /\ ~(j - 1 < k)
      BY <1>4, <1>6, <1>7, <2>5
    <3> QED  BY <1>1, <1>3, <2>1, <2>5, <3>1
  <2>6. CASE i > k
    <3>1. /\ r[i] = q[i - 1] /\ i - 1 \in 1..Len(q)
          /\ r[j] = q[j - 1] /\ j - 1 \in 1..Len(q) /\ i - 1 < j - 1
      BY <1>4, <1>6, <1>7, <2>6
    <3> QED  BY <3>1 DEF Sorted
  <2> QED  BY <1>4, <2>2, <2>3, <2>4, <2>5, <2>6
<1> QED  BY <1>6, <1>7 DEF Sorted, r

-----------------------------------------------------------------------------
\* An erasure keeps the order of the others.
LEMMA RemoveAtSorted ==
    ASSUME NEW S, NEW q \in Seq(S), NEW k \in 1..Len(q), \A x \in S : x.time \in Int,
           Sorted(q)
    PROVE  Sorted(RemoveAt(q, k))
<1> DEFINE r == RemoveAt(q, k)
<1>1. DOMAIN r = 1..Len(q) - 1 /\ \A i \in 1..Len(q) - 1 :
        r[i] = IF i < k THEN q[i] ELSE q[i + 1]
  BY RemoveAtEffect
<1> HIDE DEF r
<1>2. ASSUME NEW i \in 1..Len(q) - 1, NEW j \in 1..Len(q) - 1, i < j
      PROVE  r[i].time <= r[j].time
  BY <1>1, <1>2 DEF Sorted
<1> QED  BY <1>1, <1>2 DEF Sorted, r

\* A cancelled event is the only one that leaves the queue.
LEMMA CancelEffect ==
    ASSUME NEW S, NEW q \in Seq(S), NEW time, NEW inst
    PROVE  \/ /\ Cancel(q, time, inst) = q
              /\ \A i \in 1..Len(q) : q[i].inst # inst
           \/ \E k \in 1..Len(q) :
                /\ q[k].inst = inst
                /\ Cancel(q, time, inst) = RemoveAt(q, k)
<1> DEFINE equal == {i \in DOMAIN q : q[i].inst = inst}
           there == {i \in equal : q[i].time = time}
<1>1. \A E \in SUBSET (1..Len(q)) : E # {} => Min(E) \in E
  <2> SUFFICES ASSUME NEW E \in SUBSET (1..Len(q)), E # {} PROVE Min(E) \in E
    OBVIOUS
  <2>1. \E m \in E : \A l \in E : m <= l  BY LeastNatural
  <2> QED  BY <2>1 DEF Min
<1>2. equal \in SUBSET (1..Len(q)) /\ there \in SUBSET equal  OBVIOUS
<1>3. CASE there # {}
  <2>1. Cancel(q, time, inst) = RemoveAt(q, Min(there))  BY <1>3 DEF Cancel
  <2>2. Min(there) \in equal  BY <1>1, <1>2, <1>3
  <2> QED  BY <1>2, <2>1, <2>2
<1>4. CASE there = {} /\ equal # {}
  <2>1. Cancel(q, time, inst) = RemoveAt(q, Min(equal))  BY <1>4 DEF Cancel
  <2>2. Min(equal) \in equal  BY <1>1, <1>2, <1>4
  <2> QED  BY <1>2, <2>1, <2>2
<1>5. CASE there = {} /\ equal = {}
  <2>1. Cancel(q, time, inst) = q  BY <1>5 DEF Cancel
  <2> QED  BY <1>5, <2>1
<1> QED  BY <1>3, <1>4, <1>5

\* The queue of a finite set of events holds each of them once, in order.
LEMMA ScheduledEffect ==
    ASSUME NEW S, IsFiniteSet(S), NEW q \in Scheduled(S)
    PROVE  /\ q \in Seq(S)
           /\ Sorted(q)
           /\ \A e \in S : \E i \in 1..Len(q) : q[i] = e
           /\ \A i, j \in 1..Len(q) : q[i] = q[j] => i = j
<1> DEFINE n == Cardinality(S)
<1>1. n \in Nat  BY FS_CardinalityType
<1>2. /\ q \in [1..n -> S] /\ Sorted(q)
      /\ \A i, j \in 1..n : i # j => q[i] # q[j]
  BY DEF Scheduled, SetToSeqs, Sorted
<1>3. q \in Seq(S) /\ Len(q) = n
  <2> HIDE DEF n
  <2> QED  BY <1>1, <1>2
<1>4. q \in Injection(1..n, S)  BY <1>2 DEF Injection, IsInjective
<1>5. Cardinality(1..n) = n  BY <1>1, FS_Interval
<1>6. q \in Surjection(1..n, S)  BY <1>4, <1>5, FS_Injection
<1> QED  BY <1>2, <1>3, <1>6 DEF Surjection

=============================================================================
