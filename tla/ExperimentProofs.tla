-------------------------- MODULE ExperimentProofs --------------------------
(***************************************************************************)
(* Theorems about Experiment, for any sessions, sampled times, numbers of  *)
(* nodes and packets.                                                      *)
(***************************************************************************)
EXTENDS Experiment, SequenceTheorems, SumTheorems

-----------------------------------------------------------------------------
(* Extreme elements of finite sets of times.                               *)

\* Among sections of a finite set, one for each element, there is a minimal one.
LEMMA MinimalSection ==
  ASSUME NEW S, IsFiniteSet(S), S # {}, NEW L \in [S -> SUBSET S]
  PROVE  \E x \in S : \A y \in S : L[y] \subseteq L[x] => L[y] = L[x]
<1> DEFINE T == {L[x] : x \in S}
<1>1. T \subseteq SUBSET S /\ T # {}
  OBVIOUS
<1>2. \E u \in T : \A v \in T : v \subseteq u => v = u
  <2> HIDE DEF T
  <2> QED
    BY <1>1, MinimalSubset
<1> QED
  BY <1>2

\* The least element of a finite set of times is one.
LEMMA LeastIsLeast ==
  ASSUME NEW S, IsFiniteSet(S), S # {}
  PROVE  S \subseteq Nat => Least(S) \in S /\ \A y \in S : Least(S) <= y
<1> DEFINE Upto == [x \in S |-> {y \in S : y <= x}]
<1>1. PICK x \in S : \A y \in S : Upto[y] \subseteq Upto[x] => Upto[y] = Upto[x]
  <2>1. Upto \in [S -> SUBSET S]
    OBVIOUS
  <2> HIDE DEF Upto
  <2>2. \E x \in S : \A y \in S : Upto[y] \subseteq Upto[x] => Upto[y] = Upto[x]
    BY <2>1, MinimalSection
  <2> QED
    BY <2>2
<1> SUFFICES ASSUME S \subseteq Nat
             PROVE  Least(S) \in S /\ \A y \in S : Least(S) <= y
  OBVIOUS
<1>2. ASSUME NEW y \in S PROVE x <= y
  <2>1. SUFFICES ASSUME y < x PROVE FALSE
    OBVIOUS
  <2>2. \A z \in S : z <= y => z <= x
    <3>1. \A z \in S : z \in Nat
      OBVIOUS
    <3> QED
      BY <2>1, <3>1
  <2>3. Upto[y] \subseteq Upto[x]
    BY <2>2
  <2>4. x \in Upto[x] /\ x \notin Upto[y]
    BY <2>1
  <2> QED
    BY <1>1, <2>3, <2>4, Zenon
<1> QED
  BY <1>2 DEF Least

\* The greatest element of a finite set of times is one.
LEMMA GreatestIsGreatest ==
  ASSUME NEW S, IsFiniteSet(S), S # {}
  PROVE  S \subseteq Nat => Greatest(S) \in S /\ \A y \in S : Greatest(S) >= y
<1> DEFINE From == [x \in S |-> {y \in S : y >= x}]
<1>1. PICK x \in S : \A y \in S : From[y] \subseteq From[x] => From[y] = From[x]
  <2>1. From \in [S -> SUBSET S]
    OBVIOUS
  <2> HIDE DEF From
  <2>2. \E x \in S : \A y \in S : From[y] \subseteq From[x] => From[y] = From[x]
    BY <2>1, MinimalSection
  <2> QED
    BY <2>2
<1> SUFFICES ASSUME S \subseteq Nat
             PROVE  Greatest(S) \in S /\ \A y \in S : Greatest(S) >= y
  OBVIOUS
<1>2. ASSUME NEW y \in S PROVE x >= y
  <2>1. SUFFICES ASSUME y > x PROVE FALSE
    OBVIOUS
  <2>2. \A z \in S : z >= y => z >= x
    <3>1. \A z \in S : z \in Nat
      OBVIOUS
    <3> QED
      BY <2>1, <3>1
  <2>3. From[y] \subseteq From[x]
    BY <2>2
  <2>4. x \in From[x] /\ x \notin From[y]
    BY <2>1
  <2> QED
    BY <1>1, <2>3, <2>4, Zenon
<1> QED
  BY <1>2 DEF Greatest

\* Nothing is observed after the greatest time, which is after all stop events.
LEMMA LastTime ==
  /\ Greatest(SampleTimes) \in SampleTimes
  /\ Greatest(SampleTimes) \in Nat /\ Greatest(SampleTimes) > 1000
  /\ \A t \in SampleTimes : t <= Greatest(SampleTimes)
<1>1. IsFiniteSet(SampleTimes) /\ SampleTimes # {} /\ SampleTimes \subseteq Nat
  BY ExperimentAssumption
<1>2. /\ Greatest(SampleTimes) \in SampleTimes
      /\ \A t \in SampleTimes : Greatest(SampleTimes) >= t
  BY <1>1, GreatestIsGreatest
<1> DEFINE G == Greatest(SampleTimes)
<1>3. PICK t \in SampleTimes : t > 1000
  BY ExperimentAssumption
<1>4. G \in Nat /\ G >= t /\ t \in Nat
  BY <1>1, <1>2
<1>5. \A s \in SampleTimes : s \in Nat /\ G >= s
  BY <1>1, <1>2
<1> HIDE DEF G
<1>6. G > 1000 /\ \A s \in SampleTimes : s <= G
  BY <1>3, <1>4, <1>5
<1> QED
  BY <1>2, <1>4, <1>6 DEF G

\* A handler is observed again at no earlier time.
LEMMA LaterIsLater ==
  ASSUME NEW t \in 0 .. Greatest(SampleTimes)
  PROVE  Later(t) \in t .. Greatest(SampleTimes)
<1> DEFINE S == {s \in SampleTimes : s > t}
           G == Greatest(SampleTimes)
<1>1. IsFiniteSet(S) /\ IsFiniteSet({G})
  BY ExperimentAssumption, FS_Subset, FS_Singleton
<1>2. IsFiniteSet(S \cup {G})
  BY <1>1, FS_Union
<1>3. S \cup {G} \subseteq t .. G /\ G \in Nat
  <2>1. G \in Nat /\ \A s \in SampleTimes : s \in Nat /\ s <= G
    BY LastTime, ExperimentAssumption
  <2>2. t \in 0 .. G
    OBVIOUS
  <2> HIDE DEF G
  <2> QED
    BY <2>1, <2>2
<1>4. t .. G \subseteq Nat
  <2>1. t \in 0 .. G
    OBVIOUS
  <2> HIDE DEF G
  <2> QED
    BY <1>3, <2>1
<1> HIDE DEF S, G
<1>5. Least(S \cup {G}) \in S \cup {G}
  BY <1>2, <1>3, <1>4, LeastIsLeast
<1> QED
  BY <1>3, <1>5 DEF Later, S, G

-----------------------------------------------------------------------------
(* The scheduler.                                                          *)

\* Sorting by the number of events that come before is sorting: no two events
\* have the same number, so that every place is taken.
LEMMA InOrderSorts ==
  ASSUME NEW q \in Seq(Events)
  PROVE  InOrder(q) \in Seq(Events) /\ Ordered(InOrder(q))
<1> DEFINE n == Len(q)
           D == 1 .. n
           rank == [i \in D |-> Cardinality(Before(q, i))]
<1>1. n \in Nat /\ DOMAIN q = D /\ \A i \in D : q[i] \in Events
  BY ElementOfSeq
<1>2. \A i \in D : q[i].at \in Int
  <2>1. \A e \in Events : e.at \in 0 .. Greatest(SampleTimes)
    BY DEF Events
  <2>2. 0 .. Greatest(SampleTimes) \subseteq Int
    BY LastTime
  <2> QED
    BY <1>1, <2>1, <2>2
<1>3. IsFiniteSet(D) /\ Cardinality(D) = n
  <2> HIDE DEF n
  <2>1. IsFiniteSet(D)
    BY <1>1, FS_Interval
  <2>2. Cardinality(D) = n
    BY <1>1, FS_Interval
  <2> QED
    BY <2>1, <2>2
<1>4. ASSUME NEW i \in D
      PROVE  /\ Before(q, i) \subseteq D \ {i} /\ IsFiniteSet(Before(q, i))
             /\ rank[i] \in 0 .. n - 1
  <2>1. Before(q, i) \subseteq D \ {i}
    BY <1>1, <1>2 DEF Before
  <2>2. IsFiniteSet(D \ {i}) /\ Cardinality(D \ {i}) = n - 1
    BY <1>3, FS_RemoveElement
  <2>3. IsFiniteSet(Before(q, i)) /\ Cardinality(Before(q, i)) <= n - 1
    BY <2>1, <2>2, FS_Subset
  <2>4. Cardinality(Before(q, i)) \in Nat
    BY <2>3, FS_CardinalityType
  <2> HIDE DEF n
  <2> QED
    BY <1>1, <2>1, <2>3, <2>4
<1>5. ASSUME NEW i \in D, NEW j \in D, i \in Before(q, j)
      PROVE  rank[i] < rank[j]
  <2>1. Before(q, i) \subseteq Before(q, j)
    BY <1>1, <1>2, <1>5 DEF Before
  <2>2. i \notin Before(q, i)
    BY <1>4
  <2>3. /\ Cardinality(Before(q, i)) <= Cardinality(Before(q, j))
        /\ Cardinality(Before(q, j)) = Cardinality(Before(q, i))
             => Before(q, i) = Before(q, j)
    BY <1>4, <2>1, FS_Subset
  <2>4. rank[i] \in Int /\ rank[j] \in Int
    BY <1>4
  <2> HIDE DEF n
  <2> QED
    BY <1>5, <2>2, <2>3, <2>4
<1>6. ASSUME NEW i \in D, NEW j \in D, i # j
      PROVE  i \in Before(q, j) \/ j \in Before(q, i)
  BY <1>1, <1>2, <1>6 DEF Before
<1>7. \A k \in 0 .. n - 1 : \E i \in D : rank[i] = k
  <2>1. rank \in [D -> 0 .. n - 1]
    BY <1>4
  <2>2. \A i, j \in D : rank[i] = rank[j] => i = j
    <3>1. \A i \in D : rank[i] \in Int
      BY <1>4
    <3> HIDE DEF rank, D
    <3> QED
      BY <1>5, <1>6, <3>1
  <2>3. rank \in Injection(D, 0 .. n - 1)
    <3> HIDE DEF rank, D, n
    <3> QED
      BY <2>1, <2>2 DEF Injection, IsInjective
  <2>4. IsFiniteSet(0 .. n - 1) /\ Cardinality(0 .. n - 1) = n
    <3> HIDE DEF rank, D, n
    <3>1. 0 \in Int /\ n - 1 \in Int
      BY <1>1
    <3>2. IsFiniteSet(0 .. n - 1)
      BY <3>1, FS_Interval
    <3>3. Cardinality(0 .. n - 1) = IF 0 > n - 1 THEN 0 ELSE n - 1 - 0 + 1
      BY <3>1, FS_Interval
    <3> QED
      BY <1>1, <3>2, <3>3
  <2>5. rank \in Surjection(D, 0 .. n - 1)
    <3> HIDE DEF rank, D, n
    <3> QED
      BY <1>3, <2>3, <2>4, FS_Injection
  <2> QED
    BY <2>5 DEF Surjection
<1> DEFINE At(k) == CHOOSE i \in D : Cardinality(Before(q, i)) = k - 1
<1>8. ASSUME NEW k \in D PROVE At(k) \in D /\ rank[At(k)] = k - 1
  <2>1. k - 1 \in 0 .. n - 1
    BY <1>1
  <2> QED
    BY <1>7, <2>1
<1>9. InOrder(q) = [k \in D |-> q[At(k)]]
  BY <1>1 DEF InOrder
<1>10. \A k \in D : q[At(k)] \in Events
  BY <1>1, <1>8
<1>11. InOrder(q) \in Seq(Events)
  <2> HIDE DEF At
  <2> QED
    BY <1>1, <1>9, <1>10
<1>12. ASSUME NEW k \in D, NEW l \in D, k < l
       PROVE  InOrder(q)[k].at <= InOrder(q)[l].at
  <2>1. At(k) \in D /\ At(l) \in D /\ rank[At(k)] = k - 1 /\ rank[At(l)] = l - 1
    BY <1>8
  <2> HIDE DEF At, rank
  <2>2. At(l) \notin Before(q, At(k))
    <3>1. ~ (rank[At(l)] < rank[At(k)])
      BY <1>12, <2>1
    <3> QED
      BY <1>5, <2>1, <3>1
  <2>3. ~ (q[At(l)].at < q[At(k)].at)
    BY <1>1, <2>1, <2>2 DEF Before
  <2>4. q[At(k)].at <= q[At(l)].at
    BY <1>2, <2>1, <2>3
  <2> QED
    BY <1>9, <2>4
<1>13. DOMAIN InOrder(q) = D
  BY <1>9
<1> QED
  <2> HIDE DEF D
  <2> QED
    BY <1>11, <1>12, <1>13 DEF Ordered

\* The times of events are numbers.
LEMMA EventTimes ==
  ASSUME NEW q \in Seq(Events)
  PROVE  /\ Len(q) \in Nat /\ DOMAIN q = 1 .. Len(q)
         /\ \A i \in 1 .. Len(q) : q[i] \in Events /\ q[i].at \in Nat
                                     /\ q[i].at \in 0 .. Greatest(SampleTimes)
<1>1. \A e \in Events : e.at \in 0 .. Greatest(SampleTimes)
  BY DEF Events
<1>2. 0 .. Greatest(SampleTimes) \subseteq Nat
  BY LastTime
<1> QED
  BY <1>1, <1>2, ElementOfSeq, LenProperties

\* An event is put where the events that are due no later end, which leaves
\* the events in order.
LEMMA InsertSorts ==
  ASSUME NEW q \in Seq(Events), Ordered(q), NEW e \in Events
  PROVE  /\ Insert(q, e) \in Seq(Events) /\ Ordered(Insert(q, e))
         /\ \A i \in DOMAIN Insert(q, e) :
               Insert(q, e)[i] = e \/ \E j \in DOMAIN q : Insert(q, e)[i] = q[j]
<1> DEFINE n == Len(q)
           S == {i \in DOMAIN q : q[i].at <= e.at}
           m == Cardinality(S)
<1>1. /\ n \in Nat /\ DOMAIN q = 1 .. n /\ e.at \in Nat
      /\ \A i \in 1 .. n : q[i] \in Events /\ q[i].at \in Nat
  <2>1. <<e>> \in Seq(Events) /\ Len(<<e>>) = 1 /\ <<e>>[1] = e
    OBVIOUS
  <2>2. 1 \in 1 .. Len(<<e>>)
    BY <2>1
  <2> QED
    BY <2>1, <2>2, EventTimes
<1>2. IsFiniteSet(1 .. n) /\ Cardinality(1 .. n) = n
  <2> HIDE DEF n
  <2>1. IsFiniteSet(1 .. n)
    BY <1>1, FS_Interval
  <2>2. Cardinality(1 .. n) = n
    BY <1>1, FS_Interval
  <2> QED
    BY <2>1, <2>2
<1>3. S \subseteq 1 .. n /\ IsFiniteSet(S) /\ m \in Nat /\ m <= n
  <2>1. S \in SUBSET (1 .. n)
    BY <1>1
  <2>2. IsFiniteSet(S) /\ Cardinality(S) <= Cardinality(1 .. n)
    <3> HIDE DEF n, S
    <3> QED
      BY <1>2, <2>1, FS_Subset
  <2>3. m \in Nat
    BY <2>2, FS_CardinalityType
  <2> HIDE DEF n, S, m
  <2>4. m <= n
    BY <1>2, <2>2 DEF m
  <2> QED
    BY <2>1, <2>2, <2>3, <2>4
<1>4. ASSUME NEW i \in S PROVE i <= m
  <2>1. i \in 1 .. n /\ q[i].at <= e.at
    BY <1>1
  <2>2. \A j \in 1 .. i : j \in 1 .. n /\ q[j].at <= q[i].at
    BY <1>1, <2>1 DEF Ordered
  <2>3. \A j \in 1 .. i : j \in S
    <3>1. ASSUME NEW j \in 1 .. i PROVE q[j].at <= e.at
      <4>1. q[j].at \in Nat /\ q[i].at \in Nat
        BY <1>1, <2>1, <2>2
      <4> QED
        BY <1>1, <2>1, <2>2, <4>1
    <3> QED
      BY <1>1, <2>2, <3>1
  <2>4. i \in Nat
    BY <1>1, <2>1
  <2>5. Cardinality(1 .. i) = i
    BY <2>1, <2>4, FS_Interval
  <2>6. 1 .. i \in SUBSET S
    BY <2>3
  <2>7. Cardinality(1 .. i) <= Cardinality(S)
    <3> HIDE DEF S
    <3> QED
      BY <1>3, <2>6, FS_Subset
  <2> QED
    BY <2>5, <2>7
<1>5. S = 1 .. m
  <2>1. \A i \in S : i \in 1 .. m
    <3> HIDE DEF S, m, n
    <3> QED
      BY <1>1, <1>3, <1>4
  <2>2. S \in SUBSET (1 .. m)
    BY <2>1
  <2> HIDE DEF S
  <2>3. IsFiniteSet(1 .. m)
    <3> HIDE DEF m
    <3> QED
      BY <1>3, FS_Interval
  <2>4. Cardinality(1 .. m) = m
    <3> HIDE DEF m
    <3> QED
      BY <1>3, FS_Interval
  <2>5. Cardinality(1 .. m) = Cardinality(S)
    BY <2>4
  <2> HIDE DEF m
  <2> QED
    BY <2>2, <2>3, <2>5, FS_Subset
<1> DEFINE a == SubSeq(q, 1, m)
           b == SubSeq(q, m + 1, n)
           f == Insert(q, e)
<1>6. f = a \o <<e>> \o b
  <2>1. f = SubSeq(q, 1, (m + 1) - 1) \o <<e>> \o SubSeq(q, m + 1, Len(q))
    BY Zenon DEF Insert, InsertAt
  <2>2. (m + 1) - 1 = m
    BY <1>3
  <2> HIDE DEF m, f
  <2> QED
    BY <2>1, <2>2
<1>7. /\ a \in Seq(Events) /\ Len(a) = m /\ \A i \in 1 .. m : a[i] = q[i]
      /\ b \in Seq(Events) /\ Len(b) = n - m
      /\ \A i \in 1 .. n - m : b[i] = q[m + i]
  <2> HIDE DEF n, m
  <2>1. m + 1 \in Int /\ 1 \in Int /\ n \in Int /\ m \in Int
    BY <1>1, <1>3
  <2>2. \A i \in 1 .. m : q[i] \in Events
    BY <1>1, <1>3
  <2>3. \A i \in m + 1 .. n : q[i] \in Events
    BY <1>1, <1>3
  <2>4. /\ a \in Seq(Events) /\ Len(a) = (IF 1 <= m THEN m - 1 + 1 ELSE 0)
        /\ \A i \in 1 .. m - 1 + 1 : a[i] = q[1 + i - 1]
    BY <2>1, <2>2, SubSeqProperties
  <2>5. /\ b \in Seq(Events) /\ Len(b) = (IF m + 1 <= n THEN n - (m + 1) + 1 ELSE 0)
        /\ \A i \in 1 .. n - (m + 1) + 1 : b[i] = q[(m + 1) + i - 1]
    BY <2>1, <2>3, SubSeqProperties
  <2> HIDE DEF a, b
  <2>6. Len(a) = m /\ m - 1 + 1 = m /\ \A i \in 1 .. m : 1 + i - 1 = i
    BY <1>3, <2>4
  <2>7. /\ Len(b) = n - m /\ n - (m + 1) + 1 = n - m
        /\ \A i \in 1 .. n - m : (m + 1) + i - 1 = m + i
    BY <1>1, <1>3, <2>5
  <2> QED
    BY <2>4, <2>5, <2>6, <2>7
<1>8. /\ f \in Seq(Events) /\ Len(f) = n + 1
      /\ \A i \in 1 .. n + 1 : f[i] = IF i <= m THEN q[i]
                                      ELSE IF i = m + 1 THEN e ELSE q[i - 1]
  <2> HIDE DEF n, m, a, b, f
  <2>1. <<e>> \in Seq(Events) /\ Len(<<e>>) = 1 /\ <<e>>[1] = e
    OBVIOUS
  <2>2. /\ a \o <<e>> \in Seq(Events) /\ Len(a \o <<e>>) = m + 1
        /\ \A i \in 1 .. m + 1 : (a \o <<e>>)[i] = IF i <= m THEN a[i] ELSE <<e>>[i - m]
    BY <1>7, <2>1, ConcatProperties
  <2>3. /\ f \in Seq(Events) /\ Len(f) = (m + 1) + (n - m)
        /\ \A i \in 1 .. (m + 1) + (n - m) :
              f[i] = IF i <= m + 1 THEN (a \o <<e>>)[i] ELSE b[i - (m + 1)]
    <3> DEFINE c == a \o <<e>>
    <3>1. c \in Seq(Events) /\ Len(c) = m + 1 /\ f = c \o b
      BY <1>6, <2>2
    <3> HIDE DEF c
    <3>2. /\ c \o b \in Seq(Events) /\ Len(c \o b) = Len(c) + Len(b)
          /\ \A i \in 1 .. Len(c) + Len(b) :
                (c \o b)[i] = IF i <= Len(c) THEN c[i] ELSE b[i - Len(c)]
      BY <1>7, <3>1, ConcatProperties, ZenonT(60)
    <3>3. /\ f \in Seq(Events) /\ Len(f) = (m + 1) + (n - m)
          /\ \A i \in 1 .. (m + 1) + (n - m) :
                f[i] = IF i <= m + 1 THEN c[i] ELSE b[i - (m + 1)]
      BY <1>7, <3>1, <3>2
    <3> QED
      BY <3>3 DEF c
  <2>4. (m + 1) + (n - m) = n + 1
    BY <1>1, <1>3
  <2>5. ASSUME NEW i \in 1 .. n + 1, i <= m PROVE f[i] = q[i]
    <3>1. i <= m + 1 /\ i \in 1 .. m + 1 /\ i \in 1 .. m
      BY <1>1, <1>3, <2>5
    <3> QED
      BY <1>7, <2>2, <2>3, <2>4, <2>5, <3>1
  <2>6. f[m + 1] = e
    <3>1. m + 1 \in 1 .. n + 1 /\ m + 1 \in 1 .. m + 1 /\ ~ (m + 1 <= m) /\ m + 1 - m = 1
      BY <1>1, <1>3
    <3> QED
      BY <2>1, <2>2, <2>3, <2>4, <3>1
  <2>7. ASSUME NEW i \in 1 .. n + 1, i > m + 1 PROVE f[i] = q[i - 1]
    <3>1. /\ ~ (i <= m + 1) /\ i - (m + 1) \in 1 .. n - m
          /\ m + (i - (m + 1)) = i - 1
      BY <1>1, <1>3, <2>7
    <3> QED
      BY <1>7, <2>3, <2>4, <2>7, <3>1
  <2>8. \A i \in 1 .. n + 1 : i <= m \/ i = m + 1 \/ i > m + 1
    BY <1>1, <1>3
  <2> QED
    BY <1>1, <1>3, <2>3, <2>4, <2>5, <2>6, <2>7, <2>8
<1>9. \A i \in 1 .. n : IF i <= m THEN q[i].at <= e.at ELSE q[i].at > e.at
  <2>1. \A i \in 1 .. n : i \in S <=> q[i].at <= e.at
    BY <1>1
  <2> HIDE DEF S, n, m
  <2>2. \A i \in 1 .. n : i \in S <=> i <= m
    BY <1>1, <1>3, <1>5
  <2> QED
    BY <1>1, <2>1, <2>2
<1>10. ASSUME NEW i \in 1 .. n + 1, NEW j \in 1 .. n + 1, i < j
       PROVE  f[i].at <= f[j].at
  <2> HIDE DEF f, m, n
  <2>1. \A k, l \in 1 .. n : k < l => q[k].at <= q[l].at
    BY <1>1 DEF Ordered
  <2>2. CASE j <= m
    <3>1. i <= m /\ i \in 1 .. n /\ j \in 1 .. n
      BY <1>1, <1>3, <1>10, <2>2
    <3> QED
      BY <1>8, <1>10, <2>1, <2>2, <3>1
  <2>3. CASE j = m + 1
    <3>1. i <= m /\ i \in 1 .. n /\ ~ (j <= m)
      BY <1>1, <1>3, <1>10, <2>3
    <3> QED
      BY <1>8, <1>9, <2>3, <3>1
  <2>4. CASE j > m + 1
    <3>1. j - 1 \in 1 .. n /\ ~ (j <= m) /\ j # m + 1 /\ ~ (j - 1 <= m)
      BY <1>1, <1>3, <2>4
    <3>2. f[j] = q[j - 1] /\ q[j - 1].at > e.at
      BY <1>8, <1>9, <3>1
    <3>3. CASE i <= m
      <4>1. i \in 1 .. n /\ i < j - 1
        BY <1>1, <1>3, <2>4, <3>3
      <4> QED
        BY <1>8, <2>1, <3>1, <3>2, <3>3, <4>1
    <3>4. CASE i = m + 1
      <4>1. ~ (i <= m)
        BY <1>3, <3>4
      <4>2. f[i] = e
        BY <1>8, <3>4, <4>1
      <4> QED
        BY <1>1, <3>1, <3>2, <4>2
    <3>5. CASE i > m + 1
      <4>1. i - 1 \in 1 .. n /\ ~ (i <= m) /\ i # m + 1 /\ i - 1 < j - 1
        BY <1>1, <1>3, <1>10, <3>5
      <4> QED
        BY <1>8, <2>1, <3>1, <3>2, <4>1
    <3>6. i <= m \/ i = m + 1 \/ i > m + 1
      BY <1>1, <1>3
    <3> QED
      BY <3>3, <3>4, <3>5, <3>6
  <2>5. j <= m \/ j = m + 1 \/ j > m + 1
    BY <1>1, <1>3
  <2> QED
    BY <2>2, <2>3, <2>4, <2>5
<1>11. ASSUME NEW i \in 1 .. n + 1
       PROVE  f[i] = e \/ \E j \in 1 .. n : f[i] = q[j]
  <2> HIDE DEF f, m, n
  <2>1. CASE i <= m
    <3>1. i \in 1 .. n
      BY <1>1, <1>3, <2>1
    <3> QED
      BY <1>8, <2>1, <3>1
  <2>2. CASE i = m + 1
    BY <1>3, <1>8, <2>2
  <2>3. CASE i > m + 1
    <3>1. i - 1 \in 1 .. n /\ ~ (i <= m) /\ i # m + 1
      BY <1>1, <1>3, <2>3
    <3> QED
      BY <1>8, <3>1
  <2>4. i <= m \/ i = m + 1 \/ i > m + 1
    BY <1>1, <1>3
  <2> QED
    BY <2>1, <2>2, <2>3, <2>4
<1>12. DOMAIN f = 1 .. n + 1
  <2> HIDE DEF f, n
  <2> QED
    BY <1>8, LenProperties
<1> QED
  <2> HIDE DEF n, m
  <2> QED
    BY <1>1, <1>8, <1>10, <1>11, <1>12 DEF Ordered

\* What is left when the first event is taken is in order and due no earlier.
LEMMA TailSorted ==
  ASSUME NEW q \in Seq(Events), Ordered(q), q # <<>>
  PROVE  /\ Head(q) \in Events /\ Tail(q) \in Seq(Events) /\ Ordered(Tail(q))
         /\ \A i \in DOMAIN Tail(q) : Head(q).at <= Tail(q)[i].at
         /\ 1 \in DOMAIN q /\ Head(q) = q[1]
<1>1. /\ Len(q) \in Nat \ {0} /\ DOMAIN q = 1 .. Len(q)
      /\ \A i \in 1 .. Len(q) : q[i].at \in Nat
  BY EventTimes, EmptySeq
<1>2. /\ Head(q) \in Events /\ Tail(q) \in Seq(Events) /\ Len(Tail(q)) = Len(q) - 1
      /\ \A i \in 1 .. Len(Tail(q)) : Tail(q)[i] = q[i + 1]
  BY HeadTailProperties
<1>3. Head(q) = q[1] /\ 1 \in 1 .. Len(q)
  BY <1>1
<1>4. DOMAIN Tail(q) = 1 .. Len(q) - 1
  BY <1>2, LenProperties
<1>5. \A i \in 1 .. Len(q) - 1 : i \in Nat /\ i + 1 \in 1 .. Len(q) /\ 1 < i + 1
  BY <1>1
<1>6. \A i, j \in 1 .. Len(q) : i < j => q[i].at <= q[j].at
  BY <1>1 DEF Ordered
<1>7. \A i \in DOMAIN Tail(q) : Head(q).at <= Tail(q)[i].at
  BY <1>2, <1>3, <1>4, <1>5, <1>6
<1>8. ASSUME NEW i \in DOMAIN Tail(q), NEW j \in DOMAIN Tail(q), i < j
      PROVE  Tail(q)[i].at <= Tail(q)[j].at
  <2>1. i + 1 < j + 1 /\ i + 1 \in 1 .. Len(q) /\ j + 1 \in 1 .. Len(q)
    BY <1>4, <1>5, <1>8
  <2>2. Tail(q)[i] = q[i + 1] /\ Tail(q)[j] = q[j + 1]
    BY <1>2, <1>4
  <2> QED
    BY <1>6, <2>1, <2>2
<1> QED
  BY <1>1, <1>2, <1>3, <1>7, <1>8 DEF Ordered

\* A sample that is no earlier than the others is appended in order.
LEMMA AppendSorts ==
  ASSUME NEW s \in Seq(Samples), Ordered(s), NEW x \in Samples,
         \A i \in DOMAIN s : s[i].at <= x.at
  PROVE  /\ s \o <<x>> \in Seq(Samples) /\ Ordered(s \o <<x>>)
         /\ DOMAIN (s \o <<x>>) = 1 .. Len(s) + 1 /\ DOMAIN s = 1 .. Len(s)
         /\ \A i \in 1 .. Len(s) + 1 :
               (s \o <<x>>)[i] = IF i \in DOMAIN s THEN s[i] ELSE x
<1>1. Len(s) \in Nat /\ DOMAIN s = 1 .. Len(s) /\ \A i \in 1 .. Len(s) : s[i] \in Samples
  BY ElementOfSeq, LenProperties
<1>2. <<x>> \in Seq(Samples) /\ Len(<<x>>) = 1 /\ <<x>>[1] = x
  OBVIOUS
<1> DEFINE f == s \o <<x>>
<1>3. /\ f \in Seq(Samples) /\ Len(f) = Len(s) + 1
      /\ \A i \in 1 .. Len(s) + 1 : f[i] = IF i <= Len(s) THEN s[i] ELSE <<x>>[i - Len(s)]
  BY <1>2, ConcatProperties
<1>4. DOMAIN f = 1 .. Len(s) + 1
  <2> HIDE DEF f
  <2> QED
    BY <1>3, LenProperties
<1> HIDE DEF f
<1>5. ASSUME NEW i \in 1 .. Len(s) + 1
      PROVE  f[i] = IF i \in DOMAIN s THEN s[i] ELSE x
  <2>1. i \in DOMAIN s <=> i <= Len(s)
    BY <1>1
  <2>2. ~ (i <= Len(s)) => i - Len(s) = 1
    BY <1>1
  <2> QED
    BY <1>2, <1>3, <2>1, <2>2
<1>6. ASSUME NEW i \in 1 .. Len(s) + 1, NEW j \in 1 .. Len(s) + 1, i < j
      PROVE  f[i].at <= f[j].at
  <2>1. i \in DOMAIN s
    BY <1>1, <1>6
  <2>2. CASE j \in DOMAIN s
    BY <1>5, <1>6, <2>1, <2>2 DEF Ordered
  <2>3. CASE j \notin DOMAIN s
    BY <1>5, <1>6, <2>1, <2>3
  <2> QED
    BY <2>2, <2>3
<1>7. Ordered(f)
  BY <1>4, <1>6 DEF Ordered
<1> QED
  BY <1>1, <1>3, <1>4, <1>5, <1>7 DEF f

-----------------------------------------------------------------------------
(* Command lines.                                                          *)

LEMMA FourEvents ==
  ASSUME NEW a \in Events, NEW b \in Events, NEW c \in Events, NEW d \in Events
  PROVE  <<a, b, c, d>> \in Seq(Events)
OBVIOUS

\* What main schedules lies before the last time that is observed.
LEMMA ScheduledEvents ==
  ASSUME NEW l \in CommandLine
  PROVE  Scheduled(l) \in Seq(Events)
<1> DEFINE G == Greatest(SampleTimes)
           Times == 0 .. G
           Kinds == Handlers \cup {"stop", "sinks start", "sinks stop", "clients start",
                                   "clients stop"}
           T800 == 800  T900 == 900  T1000 == 1000
<1>1. Events = [what : Kinds, at : Times]
  BY DEF Events
<1>2. /\ 0 \in Times /\ 1 \in Times /\ 10 \in Times /\ 20 \in Times
      /\ 22 \in Times /\ 50 \in Times /\ 60 \in Times /\ 65 \in Times
  <2>1. G \in Nat /\ G > 1000
    BY LastTime
  <2> HIDE DEF G
  <2> QED
    BY <2>1
<1>11. T800 \in Times /\ T900 \in Times /\ T1000 \in Times
  <2>1. G \in Nat /\ G > 1000
    BY LastTime
  <2> HIDE DEF G
  <2> QED
    BY <2>1
<1>3. /\ "TraceMetrics" \in Kinds /\ "TraceQueue" \in Kinds /\ "TraceQueueDrop" \in Kinds
      /\ "stop" \in Kinds /\ "sinks start" \in Kinds /\ "sinks stop" \in Kinds
      /\ "clients start" \in Kinds /\ "clients stop" \in Kinds
  BY DEF Handlers
<1>4. \A kind \in Kinds, time \in Times : Event(kind, time) \in Events
  <2> HIDE DEF Kinds, Times
  <2> QED
    BY <1>1, SMT DEF Event
<1> HIDE DEF Kinds, Times, T800, T900, T1000
<1>5. WiredTraces \in Seq(Events)
  <2>1. Event("TraceMetrics", 1) \in Events
    BY <1>2, <1>3, <1>4, Zenon
  <2>2. Event("TraceQueue", 1) \in Events
    BY <1>2, <1>3, <1>4, Zenon
  <2>3. Event("TraceQueueDrop", 1) \in Events
    BY <1>2, <1>3, <1>4, Zenon
  <2>4. Event("stop", 65) \in Events
    BY <1>2, <1>3, <1>4, Zenon
  <2> QED
    BY <2>1, <2>2, <2>3, <2>4, FourEvents DEF WiredTraces
<1>6. WiredApplications \in Seq(Events)
  <2>1. Event("sinks start", 0) \in Events
    BY <1>2, <1>3, <1>4, Zenon
  <2>2. Event("sinks stop", 60) \in Events
    BY <1>2, <1>3, <1>4, Zenon
  <2>3. Event("clients start", 10) \in Events
    BY <1>2, <1>3, <1>4, Zenon
  <2>4. Event("clients stop", 50) \in Events
    BY <1>2, <1>3, <1>4, Zenon
  <2> QED
    BY <2>1, <2>2, <2>3, <2>4, FourEvents DEF WiredApplications
<1>7. WifiTraces \in Seq(Events)
  <2>1. Event("stop", 65) \in Events
    BY <1>2, <1>3, <1>4, Zenon
  <2>2. Event("TraceMetrics", 22) \in Events
    BY <1>2, <1>3, <1>4, Zenon
  <2> QED
    BY <2>1, <2>2 DEF WifiTraces
<1>8. WifiApplications \in Seq(Events)
  <2>1. Event("sinks start", 10) \in Events
    BY <1>2, <1>3, <1>4, Zenon
  <2>2. Event("sinks stop", 65) \in Events
    BY <1>2, <1>3, <1>4, Zenon
  <2>3. Event("clients start", 20) \in Events
    BY <1>2, <1>3, <1>4, Zenon
  <2>4. Event("clients stop", 60) \in Events
    BY <1>2, <1>3, <1>4, Zenon
  <2> QED
    BY <2>1, <2>2, <2>3, <2>4, FourEvents DEF WifiApplications
<1>9. LrWpanTraces(l.tracing) \in Seq(Events)
  <2>1. Event("TraceMetrics", 1) \in Events
    BY <1>2, <1>3, <1>4, Zenon
  <2>2. Event("stop", T1000) \in Events
    BY <1>3, <1>4, <1>11, Zenon
  <2> QED
    BY <2>1, <2>2 DEF LrWpanTraces, T1000
<1>10. LrWpanApplications \in Seq(Events)
  <2>1. Event("sinks start", 10) \in Events
    BY <1>2, <1>3, <1>4, Zenon
  <2>2. Event("sinks stop", T900) \in Events
    BY <1>3, <1>4, <1>11, Zenon
  <2>3. Event("clients start", 20) \in Events
    BY <1>2, <1>3, <1>4, Zenon
  <2>4. Event("clients stop", T800) \in Events
    BY <1>3, <1>4, <1>11, Zenon
  <2> QED
    <3> DEFINE a == Event("sinks start", 10)
               b == Event("sinks stop", T900)
               c == Event("clients start", 20)
               d == Event("clients stop", T800)
    <3>1. LrWpanApplications = <<a, b, c, d>>
      BY Zenon DEF LrWpanApplications, T800, T900
    <3> HIDE DEF a, b, c, d
    <3>2. a \in Events /\ b \in Events /\ c \in Events /\ d \in Events
      BY <2>1, <2>2, <2>3, <2>4 DEF a, b, c, d
    <3> QED
      BY <3>1, <3>2, FourEvents
<1>12. /\ WiredTraces \o WiredApplications \in Seq(Events)
      /\ WifiTraces \o WifiApplications \in Seq(Events)
      /\ LrWpanTraces(l.tracing) \o LrWpanApplications \in Seq(Events)
  BY <1>5, <1>6, <1>7, <1>8, <1>9, <1>10, ConcatProperties
<1>13. l.program \in Programs
  BY DEF CommandLine
<1> QED
  BY <1>12, <1>13 DEF Scheduled, Programs, Wired

\* The number of clients is a number, whatever the number of nodes.
LEMMA FlowsType ==
  ASSUME NEW l \in CommandLine
  PROVE  Flows(l) \in Nat
<1>1. l.program \in Programs /\ l.nodes \in Nat \cup {NotGiven}
  BY DEF CommandLine
<1>2. Parameters(l.program).nodes \in Nat
  BY <1>1 DEF Programs, Parameters, RedParameters, SredParameters, ESRedParameters,
              WifiParameters, LrWpanParameters
<1>3. Nodes(l) \in Nat
  BY <1>1, <1>2 DEF Nodes
<1>4. ASSUME NEW n \in Nat, NEW m PROVE FlowLoops(n, m) \in Nat
  <2> DEFINE S == {p \in (1 .. n) \X (1 .. n) :
                      n * (p[1] - 1) + p[2] <= Greatest({1, m})}
  <2>1. IsFiniteSet(1 .. n)
    BY FS_Interval
  <2>2. IsFiniteSet((1 .. n) \X (1 .. n))
    BY <2>1, FS_Product
  <2>3. S \in SUBSET ((1 .. n) \X (1 .. n))
    OBVIOUS
  <2> HIDE DEF S
  <2>4. Cardinality(S) \in Nat
    BY <2>2, <2>3, FS_Subset, FS_CardinalityType
  <2> QED
    BY <2>4, Zenon DEF FlowLoops, S
<1> QED
  BY <1>3, <1>4 DEF Flows, WiredFlows

\* A launch has a command line and a directory.
LEMMA Lines ==
  ASSUME session \in Sessions, NEW r \in Launches
  PROVE  line(r) \in CommandLine /\ Dir(r) \in Names
<1>1. session \in Session
  BY ExperimentAssumption
<1>2. line(r) \in CommandLine
  BY <1>1 DEF Session, line
<1>3. line(r).program \in Programs
  BY <1>2 DEF CommandLine
<1> QED
  BY <1>2, <1>3 DEF Dir, Names

-----------------------------------------------------------------------------
(* What the steps do.                                                      *)

\* A step of launch r.
Step(r) == Parse(r) \/ Program(r) \/ Traffic(r)

\* Nothing happens to launch q.
Still(q) ==
    /\ session' = session /\ pc'[q] = pc[q] /\ now'[q] = now[q]
    /\ pending'[q] = pending[q] /\ net'[q] = net[q] /\ taken'[q] = taken[q]

\* A write appends the sample to the history, or nothing when it is late, and
\* the same to the file, if there is a directory.
Appends(r, added) ==
    /\ taken' = [taken EXCEPT ![r] = taken[r] \o added]
    /\ disk' = [disk EXCEPT ![Dir(r)] =
                   [exists |-> disk[Dir(r)].exists,
                    samples |-> IF disk[Dir(r)].exists THEN disk[Dir(r)].samples \o added
                                ELSE disk[Dir(r)].samples,
                    xml |-> disk[Dir(r)].xml]]

LEMMA WriteAppends ==
  ASSUME Types, NEW r \in Launches, NEW s, Write(r, s)
  PROVE  Appends(r, <<>>) \/ Appends(r, <<s>>)
<1>1. Dir(r) \in Names
  BY Lines DEF Types
<1> DEFINE added == IF s.at < Greatest(SampleTimes) THEN <<s>> ELSE <<>>
<1>2. /\ disk' = [disk EXCEPT ![Dir(r)].samples =
                     IF disk[Dir(r)].exists THEN @ \o added ELSE @]
      /\ taken' = [taken EXCEPT ![r] = @ \o added]
  BY Zenon DEF Write
<1>3. added = <<s>> \/ added = <<>>
  OBVIOUS
<1> HIDE DEF added
<1>4. disk[Dir(r)] \in Directories
  BY <1>1 DEF Types
<1> DEFINE d == disk[Dir(r)]
           x == IF d.exists THEN d.samples \o added ELSE d.samples
<1>5. disk' = [disk EXCEPT ![Dir(r)] = [d EXCEPT !.samples = x]]
  BY <1>2, Zenon
<1>6. [d EXCEPT !.samples = x] = [exists |-> d.exists, samples |-> x, xml |-> d.xml]
  <2> HIDE DEF x
  <2>1. d \in Directories
    BY <1>4
  <2> HIDE DEF d
  <2> QED
    BY <2>1 DEF Directories
<1>7. taken' = [taken EXCEPT ![r] = taken[r] \o added]
  BY <1>2, Zenon
<1>8. disk' = [disk EXCEPT ![Dir(r)] = [exists |-> d.exists, samples |-> x, xml |-> d.xml]]
  BY <1>5, <1>6, Zenon
<1>9. Appends(r, added)
  BY <1>7, <1>8, Zenon DEF Appends
<1> QED
  BY <1>3, <1>9

\* A sample that launch r takes now.
SampleNow(r, what, t, s) ==
    /\ s \in Samples /\ s.what = what /\ s.at = t /\ s.numbers = NumbersNow(r, what)
    /\ Write(r, s)

LEMMA SampleType ==
  ASSUME NEW r \in Launches, NEW t \in Nat,
         NEW what \in {"TraceMetrics", "TraceQueue", "TraceQueueDrop"}
  PROVE  Sample(r, what, t, NumbersNow(r, what)) \in Samples
<1>1. NumbersNow(r, what) \in SUBSET {"throughput", "delay", "drop", "delivery",
                                      "bufferOccupancy", "dropRatio"}
  BY DEF NumbersNow, If
<1> HIDE DEF NumbersNow
<1> QED
  BY <1>1 DEF Sample, Samples

\* An event is a handler that takes a sample and schedules itself again, the
\* start or stop of an application, or the end.
Handled(r, e) ==
    /\ e.what \in Handlers /\ pc' = pc
    /\ \E s : SampleNow(r, e.what, e.at, s)
    /\ pending' = [pending EXCEPT ![r] = Insert(Tail(pending[r]),
                                                 Event(e.what, Later(e.at)))]
Applied(r, e) ==
    /\ pc' = pc /\ taken' = taken /\ disk' = disk
    /\ pending' = [pending EXCEPT ![r] = Tail(pending[r])]
Stopped(r, e) ==
    /\ pc' = [pc EXCEPT ![r] = "stopped"] /\ taken' = taken /\ disk' = disk
    /\ pending' = [pending EXCEPT ![r] = Tail(pending[r])]

LEMMA EventCases ==
  ASSUME Types, NEW r \in Launches, Clock(r), NextEvent(r)
  PROVE  LET e == Head(pending[r])
         IN  /\ pc[r] = "running" /\ e \in Events /\ e.at \in Nat
             /\ now' = [now EXCEPT ![r] = e.at]
             /\ flows' = flows /\ on' \in [Launches -> SUBSET {"sinks", "clients"}]
             /\ session' = session /\ net' = net /\ UNCHANGED histories
             /\ Handled(r, e) \/ Applied(r, e) \/ Stopped(r, e)
<1> DEFINE e == Head(pending[r])
<1>1. /\ pc[r] = "running" /\ pending[r] # <<>>
      /\ now' = [now EXCEPT ![r] = e.at] /\ Handle(r, e)
      /\ session' = session /\ net' = net /\ UNCHANGED histories /\ flows' = flows
  BY DEF NextEvent
<1>2. e \in Events
  BY <1>1, TailSorted DEF Clock
<1>3. e.at \in Nat
  <2>1. e.at \in 0 .. Greatest(SampleTimes)
    BY <1>2 DEF Events
  <2> QED
    BY <2>1, LastTime
<1> HIDE DEF e
<1>4. on' \in [Launches -> SUBSET {"sinks", "clients"}]
  <2>1. on \in [Launches -> SUBSET {"sinks", "clients"}]
    BY DEF Types
  <2>2. \/ on' = on
        \/ \E s \in {{"sinks"}, {"clients"}} :
              on' = [on EXCEPT ![r] = @ \cup s] \/ on' = [on EXCEPT ![r] = @ \ s]
    BY <1>1 DEF Handle
  <2> QED
    BY <2>1, <2>2
<1>5. CASE /\ \/ e.what = "TraceMetrics" /\ TraceMetrics(r, e.at)
              \/ e.what = "TraceQueue" /\ TraceQueue(r, e.at)
              \/ e.what = "TraceQueueDrop" /\ TraceQueueDrop(r, e.at)
           /\ pending' = [pending EXCEPT ![r] = Insert(Tail(@), Event(e.what, Later(e.at)))]
           /\ UNCHANGED <<pc, on>>
  <2>1. e.what \in Handlers
    BY <1>5 DEF Handlers
  <2>2. Write(r, Sample(r, e.what, e.at, NumbersNow(r, e.what)))
    <3>1. CASE e.what = "TraceMetrics" /\ TraceMetrics(r, e.at)
      BY <3>1 DEF TraceMetrics, NumbersNow
    <3>2. CASE e.what = "TraceQueue" /\ TraceQueue(r, e.at)
      BY <3>2 DEF TraceQueue, NumbersNow
    <3>3. CASE e.what = "TraceQueueDrop" /\ TraceQueueDrop(r, e.at)
      BY <3>3 DEF TraceQueueDrop, NumbersNow
    <3> QED
      BY <1>5, <3>1, <3>2, <3>3
  <2> DEFINE s == Sample(r, e.what, e.at, NumbersNow(r, e.what))
  <2>3. s \in Samples
    BY <1>3, <2>1, SampleType DEF Handlers
  <2>4. s.what = e.what /\ s.at = e.at /\ s.numbers = NumbersNow(r, e.what)
    BY DEF Sample
  <2>5. SampleNow(r, e.what, e.at, s)
    BY <2>2, <2>3, <2>4 DEF SampleNow
  <2>6. Handled(r, e)
    BY <1>5, <2>1, <2>5 DEF Handled
  <2> QED
    BY <1>1, <1>2, <1>3, <1>4, <1>5, <2>6 DEF e
<1>6. CASE /\ pending' = [pending EXCEPT ![r] = Tail(@)]
           /\ UNCHANGED <<pc, disk, taken>>
  <2>1. Applied(r, e)
    BY <1>6 DEF Applied
  <2> QED
    BY <1>1, <1>2, <1>3, <1>4, <1>6, <2>1 DEF e
<1>7. CASE /\ Goto(r, "stopped") /\ pending' = [pending EXCEPT ![r] = Tail(@)]
           /\ UNCHANGED <<on, disk, taken>>
  <2>1. Stopped(r, e)
    BY <1>7 DEF Stopped, Goto
  <2> QED
    BY <1>1, <1>2, <1>3, <1>4, <1>7, <2>1 DEF e
<1> QED
  BY <1>1, <1>5, <1>6, <1>7 DEF Handle

\* A report is nothing or the file flow.xml, and the process is gone.
XmlWritten(r) ==
    disk' = [disk EXCEPT ![Dir(r)] =
               [exists |-> disk[Dir(r)].exists, samples |-> disk[Dir(r)].samples,
                xml |-> IF disk[Dir(r)].exists THEN r ELSE disk[Dir(r)].xml]]

LEMMA ReportCases ==
  ASSUME Types, NEW r \in Launches, Report(r)
  PROVE  /\ pc[r] = "stopped" /\ \E end \in {"done", "failed"} : pc' = [pc EXCEPT ![r] = end]
         /\ now' = [now EXCEPT ![r] = 0] /\ pending' = [pending EXCEPT ![r] = <<>>]
         /\ on' = [on EXCEPT ![r] = {}] /\ net' = [net EXCEPT ![r] = Quiet]
         /\ session' = session /\ taken' = taken /\ UNCHANGED histories /\ flows' = flows
         /\ (disk' = disk /\ line(r).program \in Wired) \/ XmlWritten(r)
<1>1. ASSUME SerializeToXmlFile(r) PROVE XmlWritten(r)
  <2> DEFINE d == disk[Dir(r)]
             x == IF d.exists THEN r ELSE d.xml
  <2>1. d \in Directories
    BY Lines DEF Types
  <2>2. disk' = [disk EXCEPT ![Dir(r)] = [d EXCEPT !.xml = x]]
    BY <1>1, Zenon DEF SerializeToXmlFile
  <2>3. [d EXCEPT !.xml = x] = [exists |-> d.exists, samples |-> d.samples, xml |-> x]
    <3> HIDE DEF d, x
    <3> QED
      BY <2>1 DEF Directories
  <2> QED
    BY <2>2, <2>3, Zenon DEF XmlWritten
<1>2. WiredReport(r) \/ WifiReport(r) \/ LrWpanReport(r)
  BY DEF Report
<1>3. CASE WiredReport(r)
  BY <1>3 DEF Report, WiredReport, Destroy, Goto
<1>4. CASE WifiReport(r) \/ LrWpanReport(r)
  <2>1. XmlWritten(r)
    BY <1>1, <1>4 DEF WifiReport, LrWpanReport
  <2>2. \E end \in {"done", "failed"} : pc' = [pc EXCEPT ![r] = end]
    BY <1>4 DEF WifiReport, LrWpanReport, Goto
  <2> QED
    BY <2>1, <2>2 DEF Report, Destroy
<1> QED
  BY <1>2, <1>3, <1>4

\* The step of one launch is none of another.
LEMMA OthersStill ==
  ASSUME Types, NEW r \in Launches, Clock(r), Step(r), NEW q \in Launches, q # r
  PROVE  Still(q)
<1>1. ASSUME NEW s, NEW added, Appends(r, added)
      PROVE  taken'[q] = taken[q]
  BY <1>1 DEF Appends, Types
<1>2. CASE Parse(r) \/ Build(r) \/ MakeDirectory(r) \/ Run(r)
  BY <1>2 DEF Parse, Build, MakeDirectory, Run, Goto, simulator, Still, Types
<1>3. CASE RemoveDirectory(r)
  BY <1>3 DEF RemoveDirectory, TakeOver, Goto, simulator, Still, Types
<1>4. CASE NextEvent(r)
  <2> DEFINE e == Head(pending[r])
  <2>1. /\ now'[q] = now[q] /\ session' = session /\ net' = net
        /\ Handled(r, e) \/ Applied(r, e) \/ Stopped(r, e)
    BY <1>4, EventCases DEF Types
  <2> HIDE DEF e
  <2>2. pc'[q] = pc[q] /\ pending'[q] = pending[q]
    BY <2>1 DEF Handled, Applied, Stopped, Types
  <2>3. taken'[q] = taken[q]
    <3>1. CASE Handled(r, e)
      <4>1. PICK s : Write(r, s)
        BY <3>1 DEF Handled, SampleNow
      <4> QED
        BY <1>1, <4>1, WriteAppends
    <3> QED
      BY <2>1, <3>1 DEF Applied, Stopped
  <2> QED
    BY <2>1, <2>2, <2>3 DEF Still
<1>5. CASE Traffic(r)
  <2>1. net'[q] = net[q]
    BY <1>5 DEF Traffic, Transmit, Reach, Lose, Arrive, Answer, Types
  <2> QED
    BY <1>5, <2>1 DEF Traffic, Still
<1>6. CASE Report(r)
  <2>0. PICK end \in {"done", "failed"} : pc' = [pc EXCEPT ![r] = end]
    BY <1>6, ReportCases
  <2>1. /\ session' = session /\ pc'[q] = pc[q] /\ now'[q] = now[q]
        /\ pending'[q] = pending[q] /\ net'[q] = net[q]
    <3>1. /\ now' = [now EXCEPT ![r] = 0] /\ pending' = [pending EXCEPT ![r] = <<>>]
          /\ net' = [net EXCEPT ![r] = Quiet] /\ session' = session
      BY <1>6, ReportCases
    <3> QED
      BY <2>0, <3>1 DEF Types
  <2>2. taken'[q] = taken[q]
    BY <1>6, ReportCases
  <2> QED
    BY <2>1, <2>2 DEF Still
<1> QED
  BY <1>2, <1>3, <1>4, <1>5, <1>6 DEF Step, Program

\* Who is still stays in order.
LEMMA StillKeeps ==
  ASSUME NEW q \in Launches, Still(q), Clock(q), Counts(q), Printed(q)
  PROVE  Clock(q)' /\ Counts(q)' /\ Printed(q)'
<1>1. Clock(q)'
  BY DEF Still, Clock, Ordered, Simulating
<1>2. Counts(q)'
  BY DEF Still, Counts, line
<1>3. Printed(q)'
  BY DEF Still, Printed, NumbersNow, Simulating, Denominator, line
<1> QED
  BY <1>1, <1>2, <1>3

\* What is appended has the type of what is there.
LEMMA AppendType ==
  ASSUME Types, NEW r \in Launches, NEW s, s \in Samples, Write(r, s)
  PROVE  /\ taken' \in [Launches -> Seq(Samples)]
         /\ disk' \in [Names -> Directories]
<1>1. ASSUME NEW added \in Seq(Samples), Appends(r, added)
      PROVE  /\ taken' \in [Launches -> Seq(Samples)]
             /\ disk' \in [Names -> Directories]
  <2>1. Dir(r) \in Names
    BY Lines DEF Types
  <2>2. /\ disk[Dir(r)].exists \in BOOLEAN /\ disk[Dir(r)].samples \in Seq(Samples)
        /\ disk[Dir(r)].xml \in Launches \cup {Nobody} /\ taken[r] \in Seq(Samples)
    BY <2>1 DEF Types, Directories
  <2>3. /\ disk[Dir(r)].samples \o added \in Seq(Samples)
        /\ taken[r] \o added \in Seq(Samples)
    BY <1>1, <2>2, ConcatProperties
  <2>4. taken' \in [Launches -> Seq(Samples)]
    BY <1>1, <2>3 DEF Appends, Types
  <2> DEFINE d == [exists |-> disk[Dir(r)].exists,
                   samples |-> IF disk[Dir(r)].exists THEN disk[Dir(r)].samples \o added
                               ELSE disk[Dir(r)].samples,
                   xml |-> disk[Dir(r)].xml]
  <2>5. d \in Directories
    BY <2>2, <2>3 DEF Directories
  <2>6. disk' = [disk EXCEPT ![Dir(r)] = d]
    BY <1>1 DEF Appends
  <2> HIDE DEF d
  <2>7. disk' \in [Names -> Directories]
    BY <2>5, <2>6 DEF Types
  <2> QED
    BY <2>4, <2>7
<1>2. <<s>> \in Seq(Samples) /\ <<>> \in Seq(Samples)
  OBVIOUS
<1> QED
  BY <1>1, <1>2, WriteAppends

\* A handler schedules itself at no earlier time.
LEMMA NextSample ==
  ASSUME NEW e \in Events, e.what \in Handlers
  PROVE  /\ Event(e.what, Later(e.at)) \in Events
         /\ e.at <= Event(e.what, Later(e.at)).at
<1> DEFINE G == Greatest(SampleTimes)
<1>1. e.at \in 0 .. G
  BY DEF Events
<1>2. Later(e.at) \in e.at .. G
  BY <1>1, LaterIsLater
<1>3. G \in Nat
  BY LastTime
<1> HIDE DEF G
<1>4. Later(e.at) \in 0 .. G /\ e.at <= Later(e.at)
  BY <1>1, <1>2, <1>3
<1> QED
  BY <1>4 DEF Event, Events, G

\* The history of the launch, with a sample or without.
LEMMA AppendsTo ==
  ASSUME Types, NEW r \in Launches, NEW s, Write(r, s)
  PROVE  taken'[r] = taken[r] \/ taken'[r] = taken[r] \o <<s>>
<1>1. taken[r] \in Seq(Samples) /\ DOMAIN taken = Launches
  BY DEF Types
<1>2. taken[r] \o <<>> = taken[r]
  BY <1>1, ConcatEmptySeq
<1>3. taken' = [taken EXCEPT ![r] = taken[r] \o <<>>]
      \/ taken' = [taken EXCEPT ![r] = taken[r] \o <<s>>]
  BY WriteAppends DEF Appends
<1> QED
  BY <1>1, <1>2, <1>3

-----------------------------------------------------------------------------
(* The inductive invariant is preserved, part by part.                     *)

LEMMA TypesStep ==
  ASSUME Types, NEW r \in Launches, Clock(r), Step(r)
  PROVE  Types'
<1>1. session' = session /\ line(r) \in CommandLine /\ Dir(r) \in Names
  BY Lines DEF Types, Step, Program, Parse, Build, RemoveDirectory, MakeDirectory, Run,
               NextEvent, Report, Traffic
<1>2. CASE Parse(r)
  <2>1. overlapped' \subseteq Names
    BY <1>1, <1>2 DEF Parse, Types, If
  <2> QED
    BY <1>2, <2>1 DEF Parse, Types, Goto, simulator, Ended
<1>3. CASE Build(r)
  BY <1>1, <1>3, FlowsType DEF Build, Types, Goto, simulator, histories
<1>4. CASE RemoveDirectory(r)
  <2>1. disk[Dir(r)] \in Directories
    BY <1>1 DEF Types
  <2>2. \A d \in Leftovers(disk[Dir(r)]) \cup {Absent} : d \in Directories
    <3> DEFINE o == disk[Dir(r)]
    <3>1. [o EXCEPT !.samples = <<>>, !.xml = Nobody] \in Directories
      <4>1. o \in Directories
        BY <2>1
      <4>2. <<>> \in Seq(Samples)
        OBVIOUS
      <4> HIDE DEF o
      <4> QED
        BY <4>1, <4>2 DEF Directories
    <3>2. Absent \in Directories
      BY DEF Absent, Directories
    <3> QED
      BY <2>1, <3>1, <3>2 DEF Leftovers
  <2>3. \/ \E d \in Leftovers(disk[Dir(r)]) \cup {Absent} : TakeOver(r, d)
        \/ Goto(r, "failed") /\ UNCHANGED <<disk, owner, left>>
    BY <1>4 DEF RemoveDirectory
  <2>4. unnoticed' \in [Launches -> SUBSET {"rm", "mkdir"}]
    BY <1>4 DEF RemoveDirectory, Fails, Types
  <2>5. ASSUME NEW d \in Leftovers(disk[Dir(r)]) \cup {Absent}, TakeOver(r, d)
        PROVE  /\ disk' \in [Names -> Directories]
               /\ owner' \in [Names -> Launches \cup {Nobody}]
               /\ left' \in [Names -> Seq(Samples)]
    <3>1. d \in Directories /\ d.samples \in Seq(Samples)
      BY <2>2 DEF Directories
    <3>2. disk' \in [Names -> Directories]
      BY <1>1, <2>5, <3>1 DEF TakeOver, Types
    <3>3. owner' \in [Names -> Launches \cup {Nobody}]
      BY <1>1, <2>5 DEF TakeOver, Types
    <3>4. left' \in [Names -> Seq(Samples)]
      BY <1>1, <2>5, <3>1 DEF TakeOver, Types
    <3> QED
      BY <3>2, <3>3, <3>4
  <2>6. /\ disk' \in [Names -> Directories]
        /\ owner' \in [Names -> Launches \cup {Nobody}]
        /\ left' \in [Names -> Seq(Samples)]
    <3>1. CASE UNCHANGED <<disk, owner, left>>
      BY <3>1 DEF Types
    <3> QED
      BY <2>3, <2>5, <3>1
  <2>7. pc' \in [Launches -> {"off", "parsed", "built", "removed", "made", "running",
                             "stopped"} \cup Ended]
    BY <2>3, ZenonT(60) DEF TakeOver, Types, Goto, Ended
  <2> QED
    BY <1>4, <2>4, <2>6, <2>7 DEF RemoveDirectory, Types, simulator
<1>5. CASE MakeDirectory(r)
  <2>1. disk' \in [Names -> Directories]
    <3>1. disk' = disk \/ disk' = [disk EXCEPT ![Dir(r)].exists = TRUE]
      BY <1>5 DEF MakeDirectory
    <3>2. disk \in [Names -> Directories] /\ disk[Dir(r)] \in Directories
      BY <1>1 DEF Types
    <3> DEFINE o == disk[Dir(r)]
    <3>3. [o EXCEPT !.exists = TRUE] \in Directories
      <4>1. o \in Directories
        BY <3>2
      <4> HIDE DEF o
      <4> QED
        BY <4>1 DEF Directories
    <3> QED
      BY <3>1, <3>2, <3>3
  <2>2. pc' \in [Launches -> {"off", "parsed", "built", "removed", "made", "running",
                             "stopped"} \cup Ended]
    BY <1>5 DEF MakeDirectory, Types, Goto, Ended
  <2>3. unnoticed' \in [Launches -> SUBSET {"rm", "mkdir"}]
    BY <1>5 DEF MakeDirectory, Fails, Types
  <2> QED
    BY <1>5, <2>1, <2>2, <2>3 DEF MakeDirectory, Types, simulator
<1>6. CASE Run(r)
  <2>1. Scheduled(line(r)) \in Seq(Events)
    BY <1>1, ScheduledEvents
  <2>2. InOrder(Scheduled(line(r))) \in Seq(Events)
    BY <2>1, InOrderSorts
  <2> QED
    BY <1>6, <2>2 DEF Run, Types, Goto, histories
<1>7. CASE NextEvent(r)
  <2> DEFINE e == Head(pending[r])
  <2>1. /\ pc[r] = "running" /\ e \in Events /\ e.at \in Nat
        /\ now' = [now EXCEPT ![r] = e.at]
        /\ flows' = flows /\ on' \in [Launches -> SUBSET {"sinks", "clients"}]
        /\ net' = net /\ UNCHANGED histories
        /\ Handled(r, e) \/ Applied(r, e) \/ Stopped(r, e)
    BY <1>7, EventCases
  <2>2. Tail(pending[r]) \in Seq(Events) /\ Ordered(Tail(pending[r]))
    BY <1>7, TailSorted DEF Clock, NextEvent
  <2> HIDE DEF e
  <2>3. pc' \in [Launches -> {"off", "parsed", "built", "removed", "made", "running",
                             "stopped"} \cup Ended]
    BY <2>1 DEF Handled, Applied, Stopped, Types
  <2>4. pending' \in [Launches -> Seq(Events)]
    <3>1. CASE Handled(r, e)
      <4>1. Event(e.what, Later(e.at)) \in Events
        BY <2>1, <3>1, NextSample DEF Handled
      <4>2. Insert(Tail(pending[r]), Event(e.what, Later(e.at))) \in Seq(Events)
        BY <2>2, <4>1, InsertSorts
      <4> QED
        BY <3>1, <4>2 DEF Handled, Types
    <3> QED
      BY <2>1, <2>2, <3>1, ZenonT(60) DEF Applied, Stopped, Types
  <2>5. /\ taken' \in [Launches -> Seq(Samples)]
        /\ disk' \in [Names -> Directories]
    <3>1. CASE Handled(r, e)
      BY <3>1, AppendType DEF Handled, SampleNow
    <3> QED
      BY <2>1, <3>1 DEF Applied, Stopped, Types
  <2> QED
    BY <1>1, <2>1, <2>3, <2>4, <2>5 DEF Types, histories
<1>8. CASE Traffic(r)
  <2>1. DOMAIN net' = Launches
    BY <1>8 DEF Traffic, Transmit, Reach, Lose, Arrive, Answer, Types
  <2> QED
    BY <1>8, <2>1 DEF Traffic, Types, histories
<1>9. CASE Report(r)
  <2>1. PICK end \in {"done", "failed"} : pc' = [pc EXCEPT ![r] = end]
    BY <1>9, ReportCases
  <2>2. /\ now' = [now EXCEPT ![r] = 0] /\ pending' = [pending EXCEPT ![r] = <<>>]
        /\ on' = [on EXCEPT ![r] = {}] /\ net' = [net EXCEPT ![r] = Quiet]
        /\ UNCHANGED histories /\ flows' = flows /\ taken' = taken
        /\ disk' = disk \/ XmlWritten(r)
    BY <1>9, ReportCases
  <2>3. disk' \in [Names -> Directories]
    <3> DEFINE d == [exists |-> disk[Dir(r)].exists, samples |-> disk[Dir(r)].samples,
                     xml |-> IF disk[Dir(r)].exists THEN r ELSE disk[Dir(r)].xml]
    <3>1. disk[Dir(r)] \in Directories
      BY <1>1 DEF Types
    <3>2. d \in Directories
      BY <3>1 DEF Directories
    <3>3. disk' = disk \/ disk' = [disk EXCEPT ![Dir(r)] = d]
      BY <2>2 DEF XmlWritten
    <3> HIDE DEF d
    <3> QED
      BY <3>2, <3>3 DEF Types
  <2>4. pc' \in [Launches -> {"off", "parsed", "built", "removed", "made", "running",
                             "stopped"} \cup Ended]
    BY <2>1 DEF Types, Ended
  <2>5. pending' \in [Launches -> Seq(Events)]
    <3>1. <<>> \in Seq(Events) /\ pending \in [Launches -> Seq(Events)]
      BY DEF Types
    <3> QED
      BY <2>2, <3>1
  <2>6. now' \in [Launches -> Nat] /\ on' \in [Launches -> SUBSET {"sinks", "clients"}]
        /\ DOMAIN net' = Launches
    BY <2>2 DEF Types
  <2> QED
    BY <1>1, <2>2, <2>3, <2>4, <2>5, <2>6 DEF Types, histories
<1> QED
  BY <1>2, <1>3, <1>4, <1>5, <1>6, <1>7, <1>8, <1>9 DEF Step, Program

\* A launch that is not simulating has no time and no events.
LEMMA Idle ==
  ASSUME NEW r \in Launches, Clock(r), ~ Simulating(r)', now'[r] = now[r],
         pending'[r] = pending[r], ~ Simulating(r), taken'[r] = taken[r],
         pc'[r] \in {"off", "parsed", "built", "removed", "made", "rejected"}
            => taken[r] = <<>>
  PROVE  Clock(r)'
BY DEF Clock, Ordered

LEMMA ClockStep ==
  ASSUME Types, NEW r \in Launches, Clock(r), Step(r)
  PROVE  Clock(r)'
<1>1. DOMAIN pc = Launches /\ DOMAIN now = Launches /\ DOMAIN pending = Launches
  BY DEF Types
<1>2. CASE Parse(r) \/ Build(r) \/ MakeDirectory(r)
  <2>1. /\ now'[r] = now[r] /\ pending'[r] = pending[r] /\ taken'[r] = taken[r]
        /\ pc[r] \in {"off", "parsed", "removed"}
        /\ pc'[r] \in {"parsed", "rejected", "built", "made", "failed"}
    BY <1>1, <1>2 DEF Parse, Build, MakeDirectory, Goto, simulator
  <2>2. taken[r] = <<>>
    BY <2>1 DEF Clock
  <2> QED
    BY <2>1, <2>2, Idle DEF Simulating
<1>3. CASE RemoveDirectory(r)
  <2>1. /\ now'[r] = now[r] /\ pending'[r] = pending[r] /\ taken'[r] = taken[r]
        /\ pc[r] = "built" /\ pc'[r] \in {"removed", "failed"}
    BY <1>1, <1>3 DEF RemoveDirectory, TakeOver, Goto, simulator
  <2>2. taken[r] = <<>>
    BY <2>1 DEF Clock
  <2> QED
    BY <2>1, <2>2, Idle DEF Simulating
<1>4. CASE Run(r)
  <2>1. /\ pc[r] = "made" /\ pc'[r] = "running" /\ now'[r] = now[r] /\ taken' = taken
        /\ pending'[r] = InOrder(Scheduled(line(r)))
    BY <1>1, <1>4 DEF Run, Goto
  <2>2. now[r] = 0 /\ taken[r] = <<>>
    BY <2>1 DEF Clock, Simulating
  <2> DEFINE p == InOrder(Scheduled(line(r)))
  <2>3. p \in Seq(Events) /\ Ordered(p)
    BY Lines, ScheduledEvents, InOrderSorts DEF Types
  <2>4. \A i \in DOMAIN p : 0 <= p[i].at
    <3> HIDE DEF p
    <3> QED
      BY <2>3, EventTimes
  <2> HIDE DEF p
  <2>5. pending'[r] = p
    BY <2>1 DEF p
  <2> QED
    BY <2>1, <2>2, <2>3, <2>4, <2>5 DEF Clock, Ordered, Simulating
<1>5. CASE NextEvent(r)
  <2> DEFINE e == Head(pending[r])
             q == Tail(pending[r])
             f == Event(e.what, Later(e.at))
  <2>1. /\ pc[r] = "running" /\ e \in Events /\ e.at \in Nat /\ now'[r] = e.at
        /\ Handled(r, e) \/ Applied(r, e) \/ Stopped(r, e)
    BY <1>1, <1>5, EventCases
  <2>2. /\ q \in Seq(Events) /\ Ordered(q) /\ \A i \in DOMAIN q : e.at <= q[i].at
        /\ now[r] <= e.at
    BY <1>5, TailSorted DEF Clock, NextEvent
  <2>3. /\ now[r] \in Nat /\ taken[r] \in Seq(Samples) /\ Ordered(taken[r])
        /\ \A i \in DOMAIN taken[r] : taken[r][i].at <= now[r] /\ taken[r][i].at \in Nat
    <3>1. \A s \in Samples : s.at \in Nat
      BY DEF Samples
    <3> QED
      BY <2>1, <3>1, ElementOfSeq, LenProperties DEF Clock, Simulating
  <2> HIDE DEF e, q
  <2>4. \A i \in DOMAIN taken[r] : taken[r][i].at <= e.at
    BY <2>1, <2>2, <2>3
  <2>5. CASE Applied(r, e) \/ Stopped(r, e)
    <3>1. /\ pending'[r] = q /\ taken'[r] = taken[r] /\ pc'[r] \in {"running", "stopped"}
      BY <1>1, <2>1, <2>5 DEF Applied, Stopped, q
    <3> QED
      BY <2>1, <2>2, <2>3, <2>4, <3>1 DEF Clock, Ordered, Simulating
  <2>6. CASE Handled(r, e)
    <3>1. f \in Events /\ e.at <= f.at
      BY <2>1, <2>6, NextSample DEF Handled
    <3> HIDE DEF f
    <3> DEFINE p == Insert(q, f)
    <3>2. /\ p \in Seq(Events) /\ Ordered(p)
          /\ \A i \in DOMAIN p : p[i] = f \/ \E j \in DOMAIN q : p[i] = q[j]
      BY <2>2, <3>1, InsertSorts
    <3>3. pending'[r] = p /\ pc'[r] = "running"
      BY <1>1, <2>1, <2>6 DEF Handled, q, f
    <3> HIDE DEF p
    <3>4. \A i \in DOMAIN p : e.at <= p[i].at
      BY <2>2, <3>1, <3>2
    <3>5. PICK s \in Samples : s.at = e.at /\ Write(r, s)
      BY <2>6 DEF Handled, SampleNow
    <3>6. taken'[r] = taken[r] \/ taken'[r] = taken[r] \o <<s>>
      BY <2>3, <3>5, AppendsTo
    <3>7. CASE taken'[r] = taken[r]
      BY <2>1, <2>3, <2>4, <3>2, <3>3, <3>4, <3>7 DEF Clock, Ordered, Simulating
    <3>8. CASE taken'[r] = taken[r] \o <<s>>
      <4> DEFINE t == taken[r] \o <<s>>
      <4>1. /\ t \in Seq(Samples) /\ Ordered(t) /\ DOMAIN t = 1 .. Len(taken[r]) + 1
            /\ \A i \in 1 .. Len(taken[r]) + 1 :
                  t[i] = IF i \in DOMAIN taken[r] THEN taken[r][i] ELSE s
        BY <2>3, <2>4, <3>5, AppendSorts
      <4> HIDE DEF t
      <4>2. \A i \in DOMAIN t : t[i].at <= e.at
        BY <2>1, <2>4, <3>5, <4>1
      <4>3. taken'[r] = t
        BY <3>8 DEF t
      <4> QED
        BY <2>1, <3>2, <3>3, <3>4, <4>1, <4>2, <4>3 DEF Clock, Ordered, Simulating
    <3> QED
      BY <3>6, <3>7, <3>8
  <2> QED
    BY <2>1, <2>5, <2>6
<1>6. CASE Traffic(r)
  BY <1>6 DEF Traffic, Clock, Ordered, Simulating
<1>7. CASE Report(r)
  <2>1. /\ pc[r] = "stopped" /\ pc'[r] \in {"done", "failed"} /\ now'[r] = 0
        /\ pending'[r] = <<>> /\ taken' = taken
    <3>1. PICK end \in {"done", "failed"} : pc' = [pc EXCEPT ![r] = end]
      BY <1>7, ReportCases
    <3>2. /\ now' = [now EXCEPT ![r] = 0] /\ pending' = [pending EXCEPT ![r] = <<>>]
          /\ pc[r] = "stopped" /\ taken' = taken
      BY <1>7, ReportCases
    <3> QED
      BY <1>1, <3>1, <3>2
  <2> QED
    BY <2>1 DEF Clock, Ordered, Simulating
<1> QED
  BY <1>2, <1>3, <1>4, <1>5, <1>6, <1>7 DEF Step, Program

\* What a packet on the way may do to the counters.
Moves(n, m) ==
    \/ /\ m.leaf = n.leaf + 1 /\ m.core = n.core /\ m.txPackets = n.txPackets + 1
       /\ m.rxPackets = n.rxPackets /\ m.lostPackets = n.lostPackets
       /\ m.received = n.received
    \/ /\ n.leaf > 0 /\ m.leaf = n.leaf - 1 /\ m.core = n.core + 1
       /\ m.txPackets = n.txPackets /\ m.rxPackets = n.rxPackets
       /\ m.lostPackets = n.lostPackets /\ m.received \in {n.received, n.received + 1}
    \/ /\ n.leaf > 0 /\ m.leaf = n.leaf - 1 /\ m.core = n.core
       /\ m.txPackets = n.txPackets /\ m.rxPackets = n.rxPackets
       /\ m.lostPackets = n.lostPackets + 1 /\ m.received \in {n.received, n.received + 1}
    \/ /\ n.core > 0 /\ m.leaf = n.leaf /\ m.core = n.core - 1
       /\ m.txPackets = n.txPackets /\ m.rxPackets = n.rxPackets
       /\ m.lostPackets = n.lostPackets + 1 /\ m.received = n.received
    \/ /\ n.core > 0 /\ m.leaf = n.leaf /\ m.core = n.core - 1
       /\ m.txPackets = n.txPackets /\ m.rxPackets = n.rxPackets + 1
       /\ m.lostPackets = n.lostPackets /\ m.received = n.received
    \/ /\ m.leaf = n.leaf /\ m.core = n.core + 1 /\ m.txPackets = n.txPackets + 1
       /\ m.rxPackets = n.rxPackets /\ m.lostPackets = n.lostPackets
       /\ m.received = n.received

LEMMA TrafficMoves ==
  ASSUME Types, NEW r \in Launches, net[r] \in Counters, Traffic(r)
  PROVE  net'[r] \in Counters /\ Moves(net[r], net'[r])
<1> DEFINE n == net[r]
           m == net'[r]
           seen == IF TracedDiscOnPath(line(r).program) THEN 1 ELSE 0
<1>1. DOMAIN net = Launches
  BY DEF Types
<1>2. n \in Counters
  OBVIOUS
<1>3. seen \in {0, 1}
  OBVIOUS
<1>4. ASSUME NEW a \in Nat, NEW b \in Nat, NEW c \in Nat, NEW d \in Nat, NEW f \in Nat,
             NEW g \in Nat, NEW h \in SUBSET {"unforced", "forced", "internal"},
             m = [leaf |-> a, core |-> b, txPackets |-> c, rxPackets |-> d,
                  lostPackets |-> f, received |-> g, reasons |-> h]
      PROVE  /\ m \in Counters /\ m.leaf = a /\ m.core = b /\ m.txPackets = c
             /\ m.rxPackets = d /\ m.lostPackets = f /\ m.received = g
  BY <1>4 DEF Counters
<1>5. /\ n.leaf \in Nat /\ n.core \in Nat /\ n.txPackets \in Nat /\ n.rxPackets \in Nat
      /\ n.lostPackets \in Nat /\ n.received \in Nat
      /\ n.reasons \in SUBSET {"unforced", "forced", "internal"}
      /\ n = [leaf |-> n.leaf, core |-> n.core, txPackets |-> n.txPackets,
              rxPackets |-> n.rxPackets, lostPackets |-> n.lostPackets,
              received |-> n.received, reasons |-> n.reasons]
  <2> HIDE DEF n
  <2> QED
    BY <1>2 DEF Counters
<1>6. CASE Transmit(r)
  <2>1. m = [n EXCEPT !.txPackets = @ + 1, !.leaf = @ + 1]
    BY <1>1, <1>6 DEF Transmit
  <2>2. m = [leaf |-> n.leaf + 1, core |-> n.core, txPackets |-> n.txPackets + 1,
             rxPackets |-> n.rxPackets, lostPackets |-> n.lostPackets,
             received |-> n.received, reasons |-> n.reasons]
    <3> HIDE DEF n, m, seen
    <3> QED
      BY <1>2, <2>1 DEF Counters
  <2> HIDE DEF n, m, seen
  <2>3. n.leaf + 1 \in Nat /\ n.txPackets + 1 \in Nat
    BY <1>3, <1>5, <2>1
  <2>4. /\ m \in Counters /\ m.leaf = n.leaf + 1 /\ m.core = n.core
        /\ m.txPackets = n.txPackets + 1 /\ m.rxPackets = n.rxPackets
        /\ m.lostPackets = n.lostPackets /\ m.received = n.received
    BY <1>4, <1>5, <2>2, <2>3
  <2>5. Moves(n, m)
    BY <2>1, <2>4 DEF Moves
  <2> QED
    BY <2>4, <2>5 DEF m, n
<1>7. CASE /\ net[r].leaf > 0
           /\ net' = [net EXCEPT ![r].leaf = @ - 1, ![r].core = @ + 1,
                                 ![r].received = @ + seen]
  <2>1. n.leaf > 0 /\ m = [n EXCEPT !.leaf = @ - 1, !.core = @ + 1, !.received = @ + seen]
    BY <1>1, <1>7
  <2>2. m = [leaf |-> n.leaf - 1, core |-> n.core + 1, txPackets |-> n.txPackets,
             rxPackets |-> n.rxPackets, lostPackets |-> n.lostPackets,
             received |-> n.received + seen, reasons |-> n.reasons]
    <3> HIDE DEF n, m, seen
    <3> QED
      BY <1>2, <2>1 DEF Counters
  <2> HIDE DEF n, m, seen
  <2>3. n.leaf - 1 \in Nat /\ n.core + 1 \in Nat /\ n.received + seen \in Nat
    BY <1>3, <1>5, <2>1
  <2>4. /\ m \in Counters /\ m.leaf = n.leaf - 1 /\ m.core = n.core + 1
        /\ m.txPackets = n.txPackets /\ m.rxPackets = n.rxPackets
        /\ m.lostPackets = n.lostPackets /\ m.received = n.received + seen
    BY <1>4, <1>5, <2>2, <2>3
  <2>5. m.received \in {n.received, n.received + 1}
    BY <1>3, <1>5, <2>4
  <2>6. Moves(n, m)
    BY <2>1, <2>4, <2>5 DEF Moves
  <2> QED
    BY <2>4, <2>6 DEF m, n
<1>8. ASSUME NEW reason \in {"unforced", "forced", "internal"}, net[r].leaf > 0,
             net' = [net EXCEPT ![r].leaf = @ - 1, ![r].lostPackets = @ + 1,
                                ![r].received = @ + seen,
                                ![r].reasons = If(seen = 1, {reason}) \cup @]
      PROVE  m \in Counters /\ Moves(n, m)
  <2> DEFINE h == If(seen = 1, {reason}) \cup n.reasons
  <2>1. n.leaf > 0 /\ m = [n EXCEPT !.leaf = @ - 1, !.lostPackets = @ + 1, !.received = @ + seen,
                             !.reasons = If(seen = 1, {reason}) \cup @]
    BY <1>1, <1>8
  <2>2. m = [leaf |-> n.leaf - 1, core |-> n.core, txPackets |-> n.txPackets,
             rxPackets |-> n.rxPackets, lostPackets |-> n.lostPackets + 1,
             received |-> n.received + seen, reasons |-> h]
    <3> HIDE DEF n, m, seen
    <3> QED
      BY <1>2, <2>1 DEF Counters
  <2> HIDE DEF n, m, seen
  <2>3. n.leaf - 1 \in Nat /\ n.lostPackets + 1 \in Nat /\ n.received + seen \in Nat
        /\ h \in SUBSET {"unforced", "forced", "internal"}
    BY <1>3, <1>5, <2>1 DEF If
  <2> HIDE DEF h
  <2>4. /\ m \in Counters /\ m.leaf = n.leaf - 1 /\ m.core = n.core
        /\ m.txPackets = n.txPackets /\ m.rxPackets = n.rxPackets
        /\ m.lostPackets = n.lostPackets + 1 /\ m.received = n.received + seen
    BY <1>4, <1>5, <2>2, <2>3
  <2>5. m.received \in {n.received, n.received + 1}
    BY <1>3, <1>5, <2>4
  <2>6. Moves(n, m)
    BY <2>1, <2>4, <2>5 DEF Moves
  <2> QED
    BY <2>4, <2>6 DEF m, n
<1>9. CASE /\ net[r].leaf > 0
           /\ net' = [net EXCEPT ![r].leaf = @ - 1, ![r].lostPackets = @ + 1]
  <2>1. n.leaf > 0 /\ m = [n EXCEPT !.leaf = @ - 1, !.lostPackets = @ + 1]
    BY <1>1, <1>9
  <2>2. m = [leaf |-> n.leaf - 1, core |-> n.core, txPackets |-> n.txPackets,
             rxPackets |-> n.rxPackets, lostPackets |-> n.lostPackets + 1,
             received |-> n.received, reasons |-> n.reasons]
    <3> HIDE DEF n, m, seen
    <3> QED
      BY <1>2, <2>1 DEF Counters
  <2> HIDE DEF n, m, seen
  <2>3. n.leaf - 1 \in Nat /\ n.lostPackets + 1 \in Nat
    BY <1>3, <1>5, <2>1
  <2>4. /\ m \in Counters /\ m.leaf = n.leaf - 1 /\ m.core = n.core
        /\ m.txPackets = n.txPackets /\ m.rxPackets = n.rxPackets
        /\ m.lostPackets = n.lostPackets + 1 /\ m.received = n.received
    BY <1>4, <1>5, <2>2, <2>3
  <2>5. Moves(n, m)
    BY <2>1, <2>4 DEF Moves
  <2> QED
    BY <2>4, <2>5 DEF m, n
<1>10. CASE /\ net[r].core > 0
            /\ net' = [net EXCEPT ![r].core = @ - 1, ![r].lostPackets = @ + 1]
  <2>1. n.core > 0 /\ m = [n EXCEPT !.core = @ - 1, !.lostPackets = @ + 1]
    BY <1>1, <1>10
  <2>2. m = [leaf |-> n.leaf, core |-> n.core - 1, txPackets |-> n.txPackets,
             rxPackets |-> n.rxPackets, lostPackets |-> n.lostPackets + 1,
             received |-> n.received, reasons |-> n.reasons]
    <3> HIDE DEF n, m, seen
    <3> QED
      BY <1>2, <2>1 DEF Counters
  <2> HIDE DEF n, m, seen
  <2>3. n.core - 1 \in Nat /\ n.lostPackets + 1 \in Nat
    BY <1>3, <1>5, <2>1
  <2>4. /\ m \in Counters /\ m.leaf = n.leaf /\ m.core = n.core - 1
        /\ m.txPackets = n.txPackets /\ m.rxPackets = n.rxPackets
        /\ m.lostPackets = n.lostPackets + 1 /\ m.received = n.received
    BY <1>4, <1>5, <2>2, <2>3
  <2>5. Moves(n, m)
    BY <2>1, <2>4 DEF Moves
  <2> QED
    BY <2>4, <2>5 DEF m, n
<1>11. CASE /\ net[r].core > 0
            /\ net' = [net EXCEPT ![r].core = @ - 1, ![r].rxPackets = @ + 1]
  <2>1. n.core > 0 /\ m = [n EXCEPT !.core = @ - 1, !.rxPackets = @ + 1]
    BY <1>1, <1>11
  <2>2. m = [leaf |-> n.leaf, core |-> n.core - 1, txPackets |-> n.txPackets,
             rxPackets |-> n.rxPackets + 1, lostPackets |-> n.lostPackets,
             received |-> n.received, reasons |-> n.reasons]
    <3> HIDE DEF n, m, seen
    <3> QED
      BY <1>2, <2>1 DEF Counters
  <2> HIDE DEF n, m, seen
  <2>3. n.core - 1 \in Nat /\ n.rxPackets + 1 \in Nat
    BY <1>3, <1>5, <2>1
  <2>4. /\ m \in Counters /\ m.leaf = n.leaf /\ m.core = n.core - 1
        /\ m.txPackets = n.txPackets /\ m.rxPackets = n.rxPackets + 1
        /\ m.lostPackets = n.lostPackets /\ m.received = n.received
    BY <1>4, <1>5, <2>2, <2>3
  <2>5. Moves(n, m)
    BY <2>1, <2>4 DEF Moves
  <2> QED
    BY <2>4, <2>5 DEF m, n
<1>16. CASE Answer(r)
  <2>1. m = [n EXCEPT !.txPackets = @ + 1, !.core = @ + 1]
    BY <1>1, <1>16 DEF Answer
  <2>2. m = [leaf |-> n.leaf, core |-> n.core + 1, txPackets |-> n.txPackets + 1,
             rxPackets |-> n.rxPackets, lostPackets |-> n.lostPackets,
             received |-> n.received, reasons |-> n.reasons]
    <3> HIDE DEF n, m, seen
    <3> QED
      BY <1>2, <2>1 DEF Counters
  <2> HIDE DEF n, m, seen
  <2>3. n.core + 1 \in Nat /\ n.txPackets + 1 \in Nat
    BY <1>5
  <2>4. /\ m \in Counters /\ m.leaf = n.leaf /\ m.core = n.core + 1
        /\ m.txPackets = n.txPackets + 1 /\ m.rxPackets = n.rxPackets
        /\ m.lostPackets = n.lostPackets /\ m.received = n.received
    BY <1>4, <1>5, <2>2, <2>3
  <2>5. Moves(n, m)
    BY <2>1, <2>4 DEF Moves
  <2> QED
    BY <2>4, <2>5 DEF m, n
<1>12. Transmit(r) \/ Reach(r) \/ Lose(r) \/ Arrive(r) \/ Answer(r)
  BY DEF Traffic
<1>13. CASE Reach(r)
  BY <1>7, <1>8, <1>13 DEF Reach
<1>14. CASE Lose(r)
  BY <1>9, <1>10, <1>14 DEF Lose
<1>15. CASE Arrive(r)
  BY <1>11, <1>15 DEF Arrive
<1> QED
  BY <1>6, <1>12, <1>13, <1>14, <1>15, <1>16

\* The packets add up, whatever happens to one of them.
LEMMA CountsStep ==
  ASSUME Types, NEW r \in Launches, Clock(r), Counts(r), Step(r)
  PROVE  Counts(r)'
<1>1. session' = session
  BY DEF Step, Program, Parse, Build, RemoveDirectory, MakeDirectory, Run, NextEvent,
         Report, Traffic
<1>2. CASE net' = net
  BY <1>1, <1>2 DEF Counts, line
<1>3. CASE Traffic(r)
  <2> DEFINE n == net[r]
             m == net'[r]
  <2>1. /\ n \in Counters
        /\ n.leaf + n.core + n.rxPackets + n.lostPackets = n.txPackets
    BY DEF Counts
  <2>2. m \in Counters /\ Moves(n, m)
    BY <1>3, <2>1, TrafficMoves
  <2> HIDE DEF n, m
  <2>3. /\ n.leaf \in Nat /\ n.core \in Nat /\ n.txPackets \in Nat /\ n.rxPackets \in Nat
        /\ n.lostPackets \in Nat /\ n.received \in Nat
    BY <2>1 DEF Counters
  <2>4. m.leaf + m.core + m.rxPackets + m.lostPackets = m.txPackets
    BY <2>1, <2>2, <2>3 DEF Moves
  <2> QED
    BY <2>2, <2>4 DEF Counts, m
<1>4. CASE Report(r)
  <2>1. net'[r] = Quiet
    BY <1>4, ReportCases DEF Types
  <2>2. /\ Quiet \in Counters
        /\ Quiet.leaf + Quiet.core + Quiet.rxPackets + Quiet.lostPackets = Quiet.txPackets
    BY DEF Quiet, Counters
  <2> QED
    BY <2>1, <2>2 DEF Counts
<1>5. CASE NextEvent(r)
  BY <1>2, <1>5 DEF NextEvent
<1> QED
  BY <1>2, <1>3, <1>4, <1>5 DEF Step, Program, Parse, Build, RemoveDirectory,
     MakeDirectory, Run, simulator

Kinds == {"TraceMetrics", "TraceQueue", "TraceQueueDrop"}

\* What is a number stays one while packets move.
LEMMA NumbersGrow ==
  ASSUME Types, NEW r \in Launches, Counts(r), Traffic(r), NEW what \in Kinds
  PROVE  NumbersNow(r, what) \subseteq NumbersNow(r, what)'
<1> DEFINE n == net[r]
           m == net'[r]
<1>1. /\ n \in Counters /\ m \in Counters /\ Moves(n, m)
      /\ line(r)' = line(r)
  BY TrafficMoves DEF Counts, Traffic, line
<1>2. /\ n.rxPackets <= m.rxPackets /\ n.lostPackets <= m.lostPackets
      /\ n.txPackets <= m.txPackets /\ n.received <= m.received
      /\ n.rxPackets \in Nat /\ n.lostPackets \in Nat /\ n.txPackets \in Nat
      /\ n.received \in Nat /\ m.rxPackets \in Nat /\ m.lostPackets \in Nat
      /\ m.txPackets \in Nat /\ m.received \in Nat
  <2> HIDE DEF n, m
  <2> QED
    BY <1>1 DEF Moves, Counters
<1>3. /\ net[r].rxPackets > 0 => net[r]'.rxPackets > 0
      /\ net[r].received > 0 => net[r]'.received > 0
  BY <1>2
<1>4. Denominator(r) > 0 => Denominator(r)' > 0
  BY <1>1, <1>2 DEF Denominator
<1> HIDE DEF n, m
<1> QED
  BY <1>3, <1>4 DEF NumbersNow, If, Kinds

\* Who has a delay has ratios: what arrived was sent.
LEMMA DelayHasRatios ==
  ASSUME NEW r \in Launches, Counts(r), NEW what \in Kinds, "delay" \in NumbersNow(r, what)
  PROVE  {"drop", "delivery"} \subseteq NumbersNow(r, what)
<1>1. what = "TraceMetrics" /\ net[r].rxPackets > 0
  BY DEF NumbersNow, If, Kinds
<1>2. /\ net[r].leaf \in Nat /\ net[r].core \in Nat /\ net[r].txPackets \in Nat
      /\ net[r].rxPackets \in Nat /\ net[r].lostPackets \in Nat
  BY DEF Counts, Counters
<1>3. net[r].leaf + net[r].core + net[r].rxPackets + net[r].lostPackets = net[r].txPackets
  BY DEF Counts
<1>4. Denominator(r) > 0
  BY <1>1, <1>2, <1>3 DEF Denominator
<1> QED
  BY <1>1, <1>4 DEF NumbersNow, If

\* The sequence of samples of one launch for which NumbersStay holds.
Steady(t) ==
    \A i, j \in DOMAIN t :
        /\ i < j /\ t[i].what = t[j].what => t[i].numbers \subseteq t[j].numbers
        /\ "delay" \in t[i].numbers => {"drop", "delivery"} \subseteq t[i].numbers

LEMMA AppendSteady ==
  ASSUME NEW t \in Seq(Samples), Ordered(t), Steady(t), NEW s \in Samples,
         \A i \in DOMAIN t : t[i].at <= s.at,
         \A i \in DOMAIN t : t[i].what = s.what => t[i].numbers \subseteq s.numbers,
         "delay" \in s.numbers => {"drop", "delivery"} \subseteq s.numbers
  PROVE  Steady(t \o <<s>>)
<1> DEFINE u == t \o <<s>>
<1>1. /\ DOMAIN u = 1 .. Len(t) + 1 /\ DOMAIN t = 1 .. Len(t)
      /\ \A i \in 1 .. Len(t) + 1 : u[i] = IF i \in DOMAIN t THEN t[i] ELSE s
  BY AppendSorts
<1>2. Len(t) \in Nat
  OBVIOUS
<1> HIDE DEF u
<1>3. ASSUME NEW i \in DOMAIN u, NEW j \in DOMAIN u, i < j, u[i].what = u[j].what
      PROVE  u[i].numbers \subseteq u[j].numbers
  <2>1. i \in DOMAIN t
    BY <1>1, <1>2, <1>3
  <2>2. CASE j \in DOMAIN t
    BY <1>1, <1>3, <2>1, <2>2 DEF Steady
  <2>3. CASE j \notin DOMAIN t
    BY <1>1, <1>3, <2>1, <2>3
  <2> QED
    BY <2>2, <2>3
<1>4. ASSUME NEW i \in DOMAIN u, "delay" \in u[i].numbers
      PROVE  {"drop", "delivery"} \subseteq u[i].numbers
  BY <1>1, <1>4 DEF Steady
<1>5. Steady(u)
  BY <1>3, <1>4 DEF Steady
<1> QED
  BY <1>5 DEF u

\* A sample has the numbers of those before it.
LEMMA SampleSteady ==
  ASSUME Types, NEW r \in Launches, Clock(r), Counts(r), Printed(r), Steady(taken[r]),
         Simulating(r), NEW what \in Kinds, NEW t, now[r] <= t, NEW s,
         SampleNow(r, what, t, s)
  PROVE  /\ Steady(taken'[r])
         /\ \A i \in DOMAIN taken'[r] :
               taken'[r][i].numbers \subseteq NumbersNow(r, taken'[r][i].what)
<1>1. /\ s \in Samples /\ s.what = what /\ s.at = t /\ s.numbers = NumbersNow(r, what)
      /\ Write(r, s) /\ s.at \in Nat
  BY DEF SampleNow, Samples
<1>2. /\ taken[r] \in Seq(Samples) /\ Ordered(taken[r]) /\ now[r] \in Nat
      /\ \A i \in DOMAIN taken[r] : taken[r][i].at <= now[r]
  BY DEF Clock
<1>3. \A i \in DOMAIN taken[r] : taken[r][i].numbers \subseteq NumbersNow(r, taken[r][i].what)
  BY DEF Printed
<1>4. \A i \in DOMAIN taken[r] : taken[r][i].at <= s.at
  <2>1. \A x \in Samples : x.at \in Nat
    BY DEF Samples
  <2>2. \A i \in DOMAIN taken[r] : taken[r][i] \in Samples
    BY <1>2, ElementOfSeq, LenProperties
  <2> QED
    BY <1>1, <1>2, <2>1, <2>2
<1>5. taken'[r] = taken[r] \/ taken'[r] = taken[r] \o <<s>>
  BY <1>1, AppendsTo
<1>6. CASE taken'[r] = taken[r]
  BY <1>3, <1>6 DEF Steady
<1>7. CASE taken'[r] = taken[r] \o <<s>>
  <2>1. Steady(taken[r] \o <<s>>)
    BY <1>1, <1>2, <1>3, <1>4, AppendSteady, DelayHasRatios
  <2> DEFINE u == taken[r] \o <<s>>
  <2>2. /\ DOMAIN u = 1 .. Len(taken[r]) + 1
        /\ \A i \in 1 .. Len(taken[r]) + 1 :
              u[i] = IF i \in DOMAIN taken[r] THEN taken[r][i] ELSE s
    BY <1>1, <1>2, <1>4, AppendSorts
  <2> HIDE DEF u
  <2>3. \A i \in DOMAIN u : u[i].numbers \subseteq NumbersNow(r, u[i].what)
    BY <1>1, <1>3, <2>2
  <2>4. taken'[r] = u /\ Steady(u)
    BY <1>7, <2>1 DEF u
  <2> QED
    BY <2>3, <2>4 DEF Steady
<1> QED
  BY <1>5, <1>6, <1>7

LEMMA NumbersStep ==
  ASSUME Types, NEW r \in Launches, Clock(r), Counts(r), Printed(r), Steady(taken[r]),
         Step(r)
  PROVE  Printed(r)' /\ Steady(taken'[r])
<1>1. DOMAIN pc = Launches
  BY DEF Types
<1>2. CASE Parse(r) \/ Build(r) \/ MakeDirectory(r)
  <2>1. taken' = taken /\ pc'[r] \notin {"running", "stopped"}
    BY <1>1, <1>2 DEF Parse, Build, MakeDirectory, Goto
  <2> QED
    BY <2>1 DEF Printed, Simulating
<1>3. CASE RemoveDirectory(r)
  <2>1. taken' = taken /\ pc'[r] \notin {"running", "stopped"}
    BY <1>1, <1>3 DEF RemoveDirectory, TakeOver, Goto
  <2> QED
    BY <2>1 DEF Printed, Simulating
<1>4. CASE Run(r)
  <2>1. taken' = taken /\ taken[r] = <<>>
    BY <1>4 DEF Run, Clock
  <2> QED
    BY <2>1 DEF Printed
<1>5. CASE NextEvent(r)
  <2> DEFINE e == Head(pending[r])
  <2>1. /\ pc[r] = "running" /\ e \in Events /\ e.at \in Nat /\ net' = net
        /\ session' = session
        /\ Handled(r, e) \/ Applied(r, e) \/ Stopped(r, e)
    BY <1>5, EventCases
  <2>2. now[r] <= e.at
    BY <1>5, TailSorted DEF Clock, NextEvent
  <2> HIDE DEF e
  <2>3. Simulating(r)
    BY <2>1 DEF Simulating
  <2>4. /\ Steady(taken'[r])
        /\ \A i \in DOMAIN taken'[r] :
              taken'[r][i].numbers \subseteq NumbersNow(r, taken'[r][i].what)
    <3>1. CASE Handled(r, e)
      <4>1. PICK s : SampleNow(r, e.what, e.at, s)
        BY <3>1 DEF Handled
      <4>2. e.what \in Kinds
        BY <3>1 DEF Handled, Handlers, Kinds
      <4> QED
        BY <2>2, <2>3, <4>1, <4>2, SampleSteady
    <3>2. CASE Applied(r, e) \/ Stopped(r, e)
      BY <2>3, <3>2 DEF Applied, Stopped, Printed
    <3> QED
      BY <2>1, <3>1, <3>2
  <2>5. ASSUME NEW w PROVE NumbersNow(r, w)' = NumbersNow(r, w)
    BY <2>1 DEF NumbersNow, Denominator, line
  <2> QED
    BY <2>4, <2>5 DEF Printed
<1>6. CASE Traffic(r)
  <2>1. taken' = taken /\ pc' = pc
    BY <1>6 DEF Traffic
  <2>2. \A i \in DOMAIN taken[r] : taken[r][i].what \in Kinds
    <3>1. \A x \in Samples : x.what \in Kinds
      BY DEF Samples, Kinds
    <3> QED
      BY <3>1, ElementOfSeq, LenProperties DEF Clock
  <2>3. \A w \in Kinds : NumbersNow(r, w) \subseteq NumbersNow(r, w)'
    BY <1>6, NumbersGrow
  <2> QED
    BY <2>1, <2>2, <2>3 DEF Printed, Simulating
<1>7. CASE Report(r)
  <2>1. pc[r] = "stopped" /\ pc'[r] \in {"done", "failed"}
    <3>1. PICK end \in {"done", "failed"} : pc' = [pc EXCEPT ![r] = end]
      BY <1>7, ReportCases
    <3> QED
      BY <1>1, <1>7, <3>1, ReportCases
  <2>2. taken' = taken
    BY <1>7, ReportCases
  <2> QED
    BY <2>1, <2>2 DEF Printed, Simulating
<1> QED
  BY <1>2, <1>3, <1>4, <1>5, <1>6, <1>7 DEF Step, Program

\* The session and with it the directories of the launches do not change.
LEMMA SameDir ==
  ASSUME NEW r \in Launches, Step(r)
  PROVE  session' = session /\ \A q \in Launches : Dir(q)' = Dir(q) /\ line(q)' = line(q)
<1>1. session' = session
  BY DEF Step, Program, Parse, Build, RemoveDirectory, MakeDirectory, Run, NextEvent,
         Report, Traffic
<1> QED
  BY <1>1 DEF Dir, line

LEMMA LegalityStep ==
  ASSUME Types, NEW r \in Launches, Clock(r), Step(r), Legality
  PROVE  Legality'
<1>1. ASSUME NEW q \in Launches PROVE Legal(q)' <=> Legal(q)
  <2>1. line(q)' = line(q)
    BY SameDir
  <2> QED
    BY <2>1 DEF Legal
<1>2. ASSUME NEW q \in Launches, pc'[q] \notin {"off", "rejected"}
      PROVE  Legal(q)
  <2>1. CASE pc[q] \notin {"off", "rejected"}
    BY <2>1 DEF Legality
  <2>2. CASE pc[q] \in {"off", "rejected"}
    <3>1. pc'[q] # pc[q]
      BY <1>2, <2>2
    <3>2. q = r
      BY <3>1, OthersStill DEF Still
    <3>3. CASE Parse(r)
      BY <1>2, <3>2, <3>3 DEF Parse, Goto, Types
    <3>4. CASE Program(r)
      <4>1. pc[r] \in {"parsed", "built", "removed", "made", "running", "stopped"}
        BY <3>4 DEF Program, Build, RemoveDirectory, MakeDirectory, Run, NextEvent, Report
      <4> QED
        BY <2>2, <3>2, <4>1
    <3>5. CASE Traffic(r)
      BY <3>1, <3>5 DEF Traffic
    <3> QED
      BY <3>3, <3>4, <3>5 DEF Step
  <2> QED
    BY <2>1, <2>2
<1> QED
  BY <1>1, <1>2 DEF Legality

\* A step of launch r touches no directory but its own, and no command but its
\* own.
LEMMA OthersKept ==
  ASSUME Types, NEW r \in Launches, Clock(r), Step(r)
  PROVE  /\ \A n \in Names \ {Dir(r)} :
               disk'[n] = disk[n] /\ owner'[n] = owner[n] /\ left'[n] = left[n]
         /\ \A q \in Launches \ {r} : unnoticed'[q] = unnoticed[q]
<1>1. /\ DOMAIN disk = Names /\ DOMAIN owner = Names /\ DOMAIN left = Names
      /\ DOMAIN unnoticed = Launches /\ Dir(r) \in Names
  BY Lines DEF Types
<1>2. CASE Parse(r) \/ Build(r) \/ Run(r) \/ Traffic(r)
  BY <1>2 DEF Parse, Build, Run, Traffic, histories
<1>3. CASE RemoveDirectory(r)
  <2>1. \A q \in Launches \ {r} : unnoticed'[q] = unnoticed[q]
    BY <1>1, <1>3 DEF RemoveDirectory, Fails
  <2>2. (\E d : TakeOver(r, d)) \/ UNCHANGED <<disk, owner, left>>
    BY <1>3 DEF RemoveDirectory
  <2> QED
    BY <1>1, <2>1, <2>2 DEF TakeOver
<1>4. CASE MakeDirectory(r)
  BY <1>1, <1>4 DEF MakeDirectory, Fails
<1>5. CASE NextEvent(r)
  <2>1. UNCHANGED histories
    BY <1>5 DEF NextEvent
  <2>2. disk' = disk \/ \E s : Write(r, s)
    <3> DEFINE e == Head(pending[r])
    <3>1. Handled(r, e) \/ Applied(r, e) \/ Stopped(r, e)
      BY <1>5, EventCases
    <3> HIDE DEF e
    <3> QED
      BY <3>1 DEF Handled, SampleNow, Applied, Stopped
  <2>3. ASSUME NEW s, Write(r, s)
        PROVE  \A n \in Names \ {Dir(r)} : disk'[n] = disk[n]
    BY <1>1, <2>3, WriteAppends DEF Appends
  <2> QED
    BY <2>1, <2>2, <2>3 DEF histories
<1>6. CASE Report(r)
  BY <1>1, <1>6, ReportCases DEF XmlWritten, histories
<1> QED
  BY <1>2, <1>3, <1>4, <1>5, <1>6 DEF Step, Program

\* Two launches of one name run at once only if the name is among those that
\* have overlapped.
LEMMA AloneStep ==
  ASSUME Types, NEW r \in Launches, Clock(r), Step(r),
         NEW x \in Launches, Dir(x) \notin overlapped', Directory(x)
  PROVE  /\ Dir(x) \notin overlapped
         /\ Started(x)' => \A q \in Launches \ {x} : Dir(q) = Dir(x) => ~ Started(q)'
         /\ Parse(r) \/ Started(r)
<1>1. DOMAIN pc = Launches /\ \A q \in Launches \ {r} : pc'[q] = pc[q]
  BY OthersStill DEF Types, Still
<1>2. overlapped \subseteq overlapped'
  <2>1. CASE Parse(r)
    BY <2>1 DEF Parse
  <2>2. CASE Program(r) \/ Traffic(r)
    BY <2>2 DEF Program, Traffic, Build, RemoveDirectory, MakeDirectory, Run, NextEvent,
                Report, histories
  <2> QED
    BY <2>1, <2>2 DEF Step
<1>3. Parse(r) \/ Started(r)
  BY DEF Step, Program, Traffic, Build, RemoveDirectory, MakeDirectory, Run, NextEvent,
         Report, Started, Ended
<1>4. Started(x) => \A q \in Launches \ {x} : Dir(q) = Dir(x) => ~ Started(q)
  BY <1>2 DEF Directory
<1>5. ASSUME Started(x)', NEW q \in Launches \ {x}, Dir(q) = Dir(x), Started(q)'
      PROVE  FALSE
  <2>1. \A p \in Launches \ {r} : Started(p)' <=> Started(p)
    BY <1>1 DEF Started
  <2>2. CASE Parse(r)
    <3>1. Started(r)' => Legal(r)
      BY <1>1, <2>2 DEF Parse, Goto, Started, Ended
    <3>2. ~ Started(r)
      BY <2>2 DEF Parse, Started
    <3>3. Legal(r) => \A p \in Launches : Started(p) => Dir(p) # Dir(r) \/ Dir(r) \in overlapped'
      BY <2>2 DEF Parse, If
    <3>4. CASE x = r
      <4>1. Started(q)
        BY <1>5, <2>1, <3>4
      <4> QED
        BY <1>5, <3>1, <3>3, <3>4, <4>1
    <3>5. CASE q = r
      <4>1. Started(x)
        BY <1>5, <2>1, <3>5
      <4> QED
        BY <1>5, <3>1, <3>3, <3>5, <4>1
    <3>6. CASE x # r /\ q # r
      BY <1>4, <1>5, <2>1, <3>6
    <3> QED
      BY <3>4, <3>5, <3>6
  <2>3. CASE Started(r)
    <3>1. Started(x) /\ Started(q)
      BY <1>5, <2>1, <2>3
    <3> QED
      BY <1>4, <1>5, <3>1
  <2> QED
    BY <1>3, <2>2, <2>3
<1> QED
  BY <1>2, <1>3, <1>5

\* Where nothing changes, the results stay.
LEMMA StoredStays ==
  ASSUME Types, NEW r \in Launches, Step(r), NEW x \in Launches,
         disk'[Dir(x)] = disk[Dir(x)], left'[Dir(x)] = left[Dir(x)],
         taken'[x] = taken[x], unnoticed'[x] = unnoticed[x], pc'[x] = pc[x], Stored(x)
  PROVE  Stored(x)'
<1>1. Dir(x)' = Dir(x) /\ line(x)' = line(x)
  BY SameDir
<1> QED
  BY <1>1 DEF Stored

\* A sample goes where the other samples of the launch are.
LEMMA AppendStored ==
  ASSUME Types, NEW r \in Launches, pc[r] = "running", pc' = pc, Step(r), NEW s, Write(r, s),
         UNCHANGED histories, Stored(r)
  PROVE  Stored(r)'
<1>1. PICK added \in {<<>>, <<s>>} : Appends(r, added)
  BY WriteAppends
<1>2. Dir(r)' = Dir(r) /\ line(r)' = line(r) /\ Dir(r) \in Names
  BY SameDir, Lines DEF Types
<1>3. /\ DOMAIN taken = Launches /\ DOMAIN disk = Names
      /\ taken[r] \in Seq(Samples) /\ left[Dir(r)] \in Seq(Samples)
  BY <1>2 DEF Types
<1>4. taken'[r] = taken[r] \o added
  BY <1>1, <1>3 DEF Appends
<1> DEFINE d == disk[Dir(r)]
           e == disk'[Dir(r)]
<1>5. e.exists = d.exists /\ e.xml = d.xml /\ (d.exists => e.samples = d.samples \o added)
  BY <1>1, <1>2, <1>3 DEF Appends
<1>6. d.exists => e.samples = left[Dir(r)] \o taken'[r]
  <2> SUFFICES ASSUME d.exists PROVE e.samples = left[Dir(r)] \o taken'[r]
    OBVIOUS
  <2>1. d.samples = left[Dir(r)] \o taken[r]
    BY DEF Stored
  <2>2. (left[Dir(r)] \o taken[r]) \o added = left[Dir(r)] \o (taken[r] \o added)
    <3> DEFINE a == left[Dir(r)]
               b == taken[r]
    <3>1. CASE added = <<>>
      <4>1. a \in Seq(Samples) /\ b \in Seq(Samples)
        BY <1>3
      <4> HIDE DEF a, b
      <4>2. a \o b \in Seq(Samples)
        BY <4>1, ConcatProperties
      <4>3. (a \o b) \o <<>> = a \o b /\ b \o <<>> = b
        BY <4>1, <4>2, ConcatEmptySeq
      <4> QED
        BY <3>1, <4>3 DEF a, b
    <3>2. CASE added = <<s>>
      <4> DEFINE T == Samples \cup {s}
      <4>1. a \in Seq(T) /\ b \in Seq(T) /\ <<s>> \in Seq(T)
        BY <1>3
      <4> HIDE DEF a, b
      <4>2. (a \o b) \o <<s>> = a \o (b \o <<s>>)
        BY <4>1, ConcatAssociative
      <4> QED
        BY <3>2, <4>2 DEF a, b
    <3> QED
      BY <3>1, <3>2
  <2> QED
    BY <1>4, <1>5, <2>1, <2>2
<1>7. /\ left' = left /\ unnoticed' = unnoticed
      /\ "mkdir" \in unnoticed[r] \/ d.exists
      /\ "rm" \notin unnoticed[r] => left[Dir(r)] = <<>> /\ d.xml \in {Nobody, r}
  BY DEF Stored, histories
<1> HIDE DEF d
<1>8. e.exists => e.samples = left[Dir(r)] \o taken'[r]
  BY <1>5, <1>6
<1> QED
  BY <1>2, <1>5, <1>7, <1>8 DEF Stored, d

\* A launch starts with what rm has left in its directory.
LEMMA TakeOverStored ==
  ASSUME Types, NEW r \in Launches, Step(r), NEW d, TakeOver(r, d), d \in Directories,
         taken[r] = <<>>, taken' = taken,
         "rm" \in unnoticed'[r] \/ d = Absent
  PROVE  Stored(r)' /\ owner'[Dir(r)] = r
<1>1. Dir(r)' = Dir(r) /\ line(r)' = line(r) /\ Dir(r) \in Names
  BY SameDir, Lines DEF Types
<1>2. DOMAIN disk = Names /\ DOMAIN owner = Names /\ DOMAIN left = Names /\ DOMAIN pc = Launches
  BY DEF Types
<1>3. /\ disk'[Dir(r)] = d /\ left'[Dir(r)] = d.samples /\ owner'[Dir(r)] = r
      /\ pc'[r] = "removed"
  BY <1>1, <1>2 DEF TakeOver, Goto
<1>4. d.samples \o <<>> = d.samples
  <2>1. d.samples \in Seq(Samples)
    BY DEF Directories
  <2> QED
    BY <2>1, ConcatEmptySeq
<1>5. d = Absent => d.samples = <<>> /\ d.xml = Nobody
  BY DEF Absent
<1> QED
  BY <1>1, <1>3, <1>4, <1>5 DEF Stored

\* What launch r does to its own directory.
LEMMA OwnDirectoryStep ==
  ASSUME Types, NEW r \in Launches, Clock(r), Step(r),
         Owning(r) => owner[Dir(r)] = r, owner[Dir(r)] = r => Stored(r)
  PROVE  /\ Owning(r)' => owner'[Dir(r)] = r
         /\ owner'[Dir(r)] = r => Stored(r)'
<1>1. Dir(r)' = Dir(r) /\ line(r)' = line(r) /\ Dir(r) \in Names
  BY SameDir, Lines DEF Types
<1>2. /\ DOMAIN disk = Names /\ DOMAIN owner = Names /\ DOMAIN left = Names
      /\ DOMAIN pc = Launches /\ DOMAIN unnoticed = Launches /\ DOMAIN taken = Launches
      /\ disk[Dir(r)] \in Directories
  BY <1>1 DEF Types
<1>3. CASE Parse(r) \/ Build(r)
  <2>1. /\ disk' = disk /\ taken' = taken /\ owner' = owner /\ left' = left
        /\ unnoticed' = unnoticed /\ pc[r] \in {"off", "parsed"}
        /\ pc'[r] \in {"parsed", "rejected", "built"}
    BY <1>2, <1>3 DEF Parse, Build, Goto, histories
  <2>2. taken[r] = <<>>
    BY <2>1 DEF Clock
  <2> QED
    BY <1>1, <2>1, <2>2 DEF Stored, Owning
<1>4. CASE Run(r)
  <2>1. /\ disk' = disk /\ taken' = taken /\ owner' = owner /\ left' = left
        /\ unnoticed' = unnoticed /\ pc[r] = "made" /\ pc'[r] = "running"
    BY <1>2, <1>4 DEF Run, Goto, histories
  <2> QED
    BY <1>1, <2>1 DEF Stored, Owning
<1>5. CASE Traffic(r)
  <2>1. UNCHANGED <<disk, taken, owner, left, unnoticed, pc>>
    BY <1>5 DEF Traffic, histories
  <2> QED
    BY <2>1, StoredStays DEF Owning
<1>6. CASE RemoveDirectory(r)
  <2>1. pc[r] = "built" /\ taken' = taken
    BY <1>6 DEF RemoveDirectory
  <2>2. taken[r] = <<>>
    BY <2>1 DEF Clock
  <2>3. CASE TakeOver(r, Absent)
    <3>1. Absent \in Directories
      BY DEF Absent, Directories
    <3> QED
      BY <2>1, <2>2, <2>3, <3>1, TakeOverStored
  <2>4. ASSUME NEW d \in Leftovers(disk[Dir(r)]), TakeOver(r, d), Fails(r, "rm")
        PROVE  Stored(r)' /\ owner'[Dir(r)] = r
    <3>1. "rm" \in unnoticed'[r]
      BY <1>2, <2>4 DEF Fails
    <3>2. d \in Directories
      <4> DEFINE o == disk[Dir(r)]
      <4>1. o \in Directories /\ Absent \in Directories
        BY <1>2 DEF Absent, Directories
      <4>2. d \in {o, [o EXCEPT !.samples = <<>>, !.xml = Nobody], Absent}
        BY <2>4 DEF Leftovers
      <4>3. <<>> \in Seq(Samples)
        OBVIOUS
      <4> HIDE DEF o
      <4> QED
        BY <4>1, <4>2, <4>3 DEF Directories
    <3> QED
      BY <2>1, <2>2, <2>4, <3>1, <3>2, TakeOverStored
  <2>5. CASE Goto(r, "failed") /\ UNCHANGED <<disk, owner, left, unnoticed>>
    <3>1. pc'[r] = "failed"
      BY <1>2, <2>5 DEF Goto
    <3> QED
      BY <1>1, <2>1, <2>2, <2>5, <3>1 DEF Stored, Owning
  <2> QED
    BY <1>6, <2>3, <2>4, <2>5 DEF RemoveDirectory
<1>7. CASE MakeDirectory(r)
  <2>1. /\ pc[r] = "removed" /\ taken' = taken /\ owner' = owner /\ left' = left
    BY <1>7 DEF MakeDirectory
  <2>2. Stored(r) /\ owner[Dir(r)] = r
    BY <2>1 DEF Owning
  <2>3. taken[r] = <<>>
    BY <2>1 DEF Clock
  <2>4. disk[Dir(r)].samples = left[Dir(r)] \o taken[r]
    BY <2>1, <2>2 DEF Stored
  <2>5. CASE /\ Goto(r, "made") /\ disk' = [disk EXCEPT ![Dir(r)].exists = TRUE]
             /\ unnoticed' = unnoticed
    <3> DEFINE o == disk[Dir(r)]
    <3>1. disk'[Dir(r)] = [o EXCEPT !.exists = TRUE]
      BY <1>1, <1>2, <2>5
    <3>2. disk'[Dir(r)].exists /\ disk'[Dir(r)].samples = o.samples /\ disk'[Dir(r)].xml = o.xml
      <4>1. o \in Directories
        BY <1>2
      <4> HIDE DEF o
      <4> QED
        BY <3>1, <4>1 DEF Directories
    <3>3. pc'[r] = "made"
      BY <1>2, <2>5 DEF Goto
    <3> QED
      BY <1>1, <2>1, <2>2, <2>4, <2>5, <3>2, <3>3 DEF Stored
  <2>6. CASE Fails(r, "mkdir") /\ Goto(r, "made") /\ disk' = disk
    <3>1. pc'[r] = "made" /\ unnoticed'[r] = unnoticed[r] \cup {"mkdir"}
      BY <1>2, <2>6 DEF Goto, Fails
    <3> QED
      BY <1>1, <2>1, <2>2, <2>4, <2>6, <3>1 DEF Stored
  <2>7. CASE Goto(r, "failed") /\ UNCHANGED <<disk, unnoticed>>
    <3>1. pc'[r] = "failed"
      BY <1>2, <2>7 DEF Goto
    <3> QED
      BY <1>1, <2>1, <2>2, <2>3, <2>4, <2>7, <3>1 DEF Stored
  <2> QED
    BY <1>7, <2>5, <2>6, <2>7 DEF MakeDirectory
<1>8. CASE NextEvent(r)
  <2> DEFINE e == Head(pending[r])
  <2>1. /\ pc[r] = "running" /\ UNCHANGED histories
        /\ Handled(r, e) \/ Applied(r, e) \/ Stopped(r, e)
    BY <1>8, EventCases
  <2> HIDE DEF e
  <2>2. owner[Dir(r)] = r /\ Stored(r) /\ owner' = owner
    BY <2>1 DEF Owning, histories
  <2>3. CASE Handled(r, e)
    <3>1. PICK s : Write(r, s)
      BY <2>3 DEF Handled, SampleNow
    <3>2. pc' = pc
      BY <2>3 DEF Handled
    <3> QED
      BY <2>1, <2>2, <3>1, <3>2, AppendStored
  <2>4. CASE Applied(r, e)
    <3>1. UNCHANGED <<disk, taken, left, unnoticed, pc>>
      BY <2>1, <2>4 DEF Applied, histories
    <3> QED
      BY <2>2, <3>1, StoredStays
  <2>5. CASE Stopped(r, e)
    <3>1. UNCHANGED <<disk, taken, left, unnoticed>> /\ pc'[r] = "stopped"
      BY <1>2, <2>1, <2>5 DEF Stopped, histories
    <3> QED
      BY <1>1, <2>1, <2>2, <3>1 DEF Stored
  <2> QED
    BY <2>1, <2>3, <2>4, <2>5
<1>9. CASE Report(r)
  <2>1. PICK end \in {"done", "failed"} : pc' = [pc EXCEPT ![r] = end]
    BY <1>9, ReportCases
  <2>2. /\ pc[r] = "stopped" /\ taken' = taken /\ owner' = owner /\ left' = left
        /\ unnoticed' = unnoticed
        /\ (disk' = disk /\ line(r).program \in Wired) \/ XmlWritten(r)
    BY <1>9, ReportCases DEF histories
  <2>3. pc'[r] \in {"done", "failed"}
    BY <1>2, <2>1
  <2>4. owner[Dir(r)] = r /\ Stored(r)
    BY <2>2 DEF Owning
  <2>5. CASE disk' = disk /\ line(r).program \in Wired
    BY <1>1, <2>2, <2>3, <2>4, <2>5 DEF Stored
  <2>6. CASE XmlWritten(r)
    <3> DEFINE d == disk[Dir(r)]
               e == disk'[Dir(r)]
    <3>1. /\ e.exists = d.exists /\ e.samples = d.samples
          /\ e.xml = IF d.exists THEN r ELSE d.xml
      BY <1>1, <1>2, <2>6 DEF XmlWritten
    <3>2. /\ d.exists => d.samples = left[Dir(r)] \o taken[r]
          /\ "mkdir" \in unnoticed[r] \/ d.exists
          /\ "rm" \notin unnoticed[r] => left[Dir(r)] = <<>> /\ d.xml \in {Nobody, r}
      BY <2>2, <2>4 DEF Stored
    <3> HIDE DEF d
    <3>3. /\ e.exists => e.samples = left[Dir(r)] \o taken[r]
          /\ "mkdir" \in unnoticed[r] \/ e.exists
          /\ "rm" \notin unnoticed[r] => left[Dir(r)] = <<>> /\ e.xml \in {Nobody, r}
          /\ e.exists => e.xml = r
      BY <3>1, <3>2
    <3> QED
      BY <1>1, <2>2, <2>3, <2>4, <3>3 DEF Stored
  <2> QED
    BY <2>2, <2>5, <2>6
<1> QED
  BY <1>3, <1>4, <1>5, <1>6, <1>7, <1>8, <1>9 DEF Step, Program

LEMMA DirectoryStep ==
  ASSUME Types, NEW r \in Launches, Clock(r), Step(r),
         \A q \in Launches : Directory(q), NEW x \in Launches
  PROVE  Directory(x)'
<1>1. Dir(x)' = Dir(x) /\ Dir(x) \in Names
  BY SameDir, Lines DEF Types
<1>2. SUFFICES ASSUME Dir(x) \notin overlapped' PROVE Directory(x)'
  BY <1>1 DEF Directory
<1>3. /\ Dir(x) \notin overlapped /\ (Parse(r) \/ Started(r))
      /\ Started(x)' => \A q \in Launches \ {x} : Dir(q) = Dir(x) => ~ Started(q)'
  BY <1>2, AloneStep
<1>4. /\ Owning(x) => owner[Dir(x)] = x
      /\ owner[Dir(x)] = x => Stored(x)
  BY <1>3 DEF Directory
<1>5. SUFFICES /\ Owning(x)' => owner'[Dir(x)] = x
               /\ owner'[Dir(x)] = x => Stored(x)'
  <2>1. \A q \in Launches : Dir(q)' = Dir(q)
    BY SameDir
  <2> QED
    BY <1>1, <1>3, <1>5, <2>1 DEF Directory
<1>6. CASE x = r
  BY <1>4, <1>6, OwnDirectoryStep
<1>7. CASE x # r
  <2>1. pc'[x] = pc[x] /\ taken'[x] = taken[x] /\ unnoticed'[x] = unnoticed[x]
    BY <1>7, OthersStill, OthersKept DEF Still
  <2>2. CASE /\ disk'[Dir(x)] = disk[Dir(x)] /\ left'[Dir(x)] = left[Dir(x)]
             /\ owner'[Dir(x)] = owner[Dir(x)]
    BY <1>4, <2>1, <2>2, StoredStays DEF Owning
  <2>3. CASE Dir(x) # Dir(r)
    BY <1>1, <2>2, <2>3, OthersKept
  <2>4. CASE Dir(x) = Dir(r) /\ (Parse(r) \/ Build(r) \/ Run(r) \/ Traffic(r))
    <3>1. UNCHANGED <<disk, left, owner>>
      BY <2>4 DEF Parse, Build, Run, Traffic, histories
    <3> QED
      BY <2>2, <3>1
  <2>5. CASE Dir(x) = Dir(r) /\ RemoveDirectory(r)
    <3>1. Started(r)
      BY <2>5 DEF RemoveDirectory, Started, Ended
    <3>2. ~ Started(x)
      BY <1>3, <1>7, <2>5, <3>1 DEF Directory
    <3>3. ~ Owning(x)'
      BY <2>1, <3>2 DEF Owning, Started, Ended
    <3>4. CASE UNCHANGED <<disk, left, owner>>
      BY <2>2, <3>4
    <3>5. ASSUME NEW d, TakeOver(r, d) PROVE owner'[Dir(x)] # x
      BY <1>1, <1>7, <2>5, <3>5 DEF TakeOver, Types
    <3> QED
      BY <2>5, <3>3, <3>4, <3>5 DEF RemoveDirectory
  <2>6. CASE Dir(x) = Dir(r) /\ (MakeDirectory(r) \/ NextEvent(r) \/ Report(r))
    <3>1. Owning(r) /\ Started(r) /\ owner' = owner
      BY <2>6 DEF MakeDirectory, NextEvent, Report, Owning, Started, Ended, histories
    <3>2. owner[Dir(x)] = r
      BY <1>3, <2>6, <3>1 DEF Directory
    <3>3. ~ Started(x)
      BY <1>3, <1>7, <2>6, <3>1 DEF Directory
    <3>4. ~ Owning(x)'
      BY <2>1, <3>3 DEF Owning, Started, Ended
    <3> QED
      BY <1>7, <3>1, <3>2, <3>4
  <2> QED
    BY <2>3, <2>4, <2>5, <2>6 DEF Step, Program
<1> QED
  BY <1>6, <1>7

\* The programs start with nothing recorded and nothing sent.
LEMMA InitInv == Init => Inv
<1> SUFFICES ASSUME Init PROVE Inv
  OBVIOUS
<1>1. Types
  <2>1. <<>> \in Seq(Events) /\ <<>> \in Seq(Samples)
    OBVIOUS
  <2>2. Absent \in Directories
    BY <2>1 DEF Absent, Directories
  <2>3. disk \in [Names -> Directories]
    BY <2>2 DEF Init
  <2>4. /\ pending \in [Launches -> Seq(Events)] /\ taken \in [Launches -> Seq(Samples)]
    BY <2>1 DEF Init
  <2>5. /\ on \in [Launches -> SUBSET {"sinks", "clients"}] /\ DOMAIN net = Launches
        /\ flows \in [Launches -> Nat] /\ now \in [Launches -> Nat]
    BY DEF Init
  <2>6. /\ owner \in [Names -> Launches \cup {Nobody}] /\ left \in [Names -> Seq(Samples)]
        /\ unnoticed \in [Launches -> SUBSET {"rm", "mkdir"}]
    BY <2>1 DEF Init
  <2> QED
    BY <2>3, <2>4, <2>5, <2>6 DEF Init, Types
<1>2. Legality
  BY DEF Init, Legality
<1>3. ASSUME NEW r \in Launches
      PROVE  Clock(r) /\ Counts(r) /\ Printed(r) /\ Directory(r) /\ Steady(taken[r])
  <2>1. /\ pc[r] = "off" /\ now[r] = 0 /\ pending[r] = <<>> /\ net[r] = Quiet
        /\ taken[r] = <<>>
    BY DEF Init
  <2>2. Clock(r)
    BY <2>1 DEF Clock, Ordered, Simulating
  <2>3. Counts(r)
    BY <2>1 DEF Counts, Counters, Quiet
  <2>4. Printed(r) /\ Steady(taken[r])
    BY <2>1 DEF Printed, Steady, Simulating
  <2>5. Directory(r)
    <3>1. owner[Dir(r)] # r
      BY <1>1, Lines DEF Init, Types, Nobody, Launches
    <3> QED
      BY <2>1, <3>1 DEF Directory, Owning, Started
  <2> QED
    BY <2>2, <2>3, <2>4, <2>5
<1> QED
  BY <1>1, <1>2, <1>3 DEF Inv, NumbersStay, Steady

\* Each launch in turn makes the steps that keep the invariant.
LEMMA StepInv ==
  ASSUME Inv, NEW r \in Launches, Step(r)
  PROVE  Inv'
<1>1. Types /\ Legality /\ \A q \in Launches : Clock(q) /\ Directory(q)
  BY DEF Inv
<1>2. \A q \in Launches : Counts(q) /\ Printed(q) /\ Steady(taken[q])
  BY DEF Inv, NumbersStay, Steady
<1>3. Types' /\ Legality'
  BY <1>1, TypesStep, LegalityStep
<1>4. \A q \in Launches : Clock(q)' /\ Counts(q)' /\ Printed(q)' /\ Steady(taken'[q])
  <2> SUFFICES ASSUME NEW q \in Launches
               PROVE  Clock(q)' /\ Counts(q)' /\ Printed(q)' /\ Steady(taken'[q])
    OBVIOUS
  <2>1. CASE q = r
    BY <1>1, <1>2, <2>1, ClockStep, CountsStep, NumbersStep
  <2>2. CASE q # r
    <3>1. Still(q)
      BY <1>1, <2>2, OthersStill
    <3>2. Clock(q)' /\ Counts(q)' /\ Printed(q)'
      BY <1>1, <1>2, <3>1, StillKeeps
    <3>3. Steady(taken'[q])
      BY <1>2, <3>1 DEF Still
    <3> QED
      BY <3>2, <3>3
  <2> QED
    BY <2>1, <2>2
<1>5. ASSUME NEW q \in Launches PROVE Directory(q)'
  BY <1>1, DirectoryStep
<1> QED
  BY <1>3, <1>4, <1>5 DEF Inv, NumbersStay, Steady

\* What the programs rely on, at every moment of every session.
THEOREM ExperimentInvariant == Spec => []Inv
<1>1. Init => Inv
  BY InitInv
<1>2. Inv /\ [Next]_vars => Inv'
  <2> SUFFICES ASSUME Inv, [Next]_vars PROVE Inv'
    OBVIOUS
  <2>1. CASE Next
    BY <2>1, StepInv DEF Next, Step
  <2>2. CASE UNCHANGED vars
    <3>1. /\ session' = session /\ pc' = pc /\ flows' = flows /\ now' = now
          /\ pending' = pending /\ on' = on /\ net' = net /\ disk' = disk
          /\ taken' = taken /\ owner' = owner /\ left' = left
          /\ unnoticed' = unnoticed /\ overlapped' = overlapped
      BY <2>2 DEF vars, simulator, histories
    <3>2. Types' /\ Legality' /\ NumbersStay'
      BY <3>1 DEF Inv, Types, Legality, Legal, line, NumbersStay
    <3>3. ASSUME NEW r \in Launches
          PROVE  Clock(r)' /\ Counts(r)' /\ Printed(r)' /\ Directory(r)'
      <4>1. Clock(r)' /\ Counts(r)' /\ Printed(r)'
        BY <3>1, StillKeeps DEF Inv, Still
      <4>2. Directory(r)'
        BY <3>1 DEF Inv, Directory, Started, Owning, Stored, Dir, line
      <4> QED
        BY <4>1, <4>2
    <3> QED
      BY <3>2, <3>3 DEF Inv
  <2> QED
    BY <2>1, <2>2
<1> QED
  BY <1>1, <1>2, PTL DEF Spec

-----------------------------------------------------------------------------
(* The theorems.                                                           *)

\* The state is of its type, and every packet that was sent is in exactly one
\* place.
THEOREM TypeCorrect == Spec => []TypeOK
<1>1. Inv => TypeOK
  <2> SUFFICES ASSUME Inv PROVE TypeOK
    OBVIOUS
  <2>1. Types
    BY DEF Inv
  <2>2. ASSUME NEW r \in Launches, NEW i \in DOMAIN pending[r]
        PROVE  pending[r][i].at \in Nat
    <3>1. pending[r] \in Seq(Events)
      BY <2>1 DEF Types
    <3>2. pending[r][i] \in Events
      BY <3>1
    <3>3. pending[r][i].at \in 0 .. Greatest(SampleTimes)
      BY <3>2 DEF Events
    <3> QED
      BY <3>3
  <2>3. \A r \in Launches :
           /\ net[r].leaf + net[r].core + net[r].rxPackets + net[r].lostPackets
                 = net[r].txPackets
           /\ taken[r] \in Seq(Samples)
    BY DEF Inv, Counts, Clock
  <2>4. \A r \in Launches : on[r] \subseteq {"sinks", "clients"}
    BY <2>1 DEF Types
  <2>5. \A n \in Names : disk[n] \in Directories
    BY <2>1 DEF Types
  <2> QED
    BY <2>1, <2>2, <2>3, <2>4, <2>5 DEF TypeOK, Types
<1> QED
  BY <1>1, ExperimentInvariant, PTL

\* Unless two launches of one name ran at once, the directory is that of the
\* launch that last ran rm there: it has all its samples in the order of time,
\* if mkdir made one, and nothing else, if rm could remove the rest.  Every
\* program takes these steps before it appends to the files, no other comes
\* between, and the scheduler never goes back in time.
THEOREM ResultsAreComplete == Spec => []ResultsComplete
<1>1. Inv => ResultsComplete
  <2> SUFFICES ASSUME Inv, NEW r \in Launches, owner[Dir(r)] = r, Dir(r) \notin overlapped
               PROVE  LET d == disk[Dir(r)]
                      IN  /\ d.exists => d.samples = left[Dir(r)] \o taken[r]
                          /\ Ordered(taken[r])
                          /\ taken[r] # <<>> /\ "mkdir" \notin unnoticed[r] => d.exists
                          /\ "rm" \notin unnoticed[r]
                                => left[Dir(r)] = <<>> /\ d.xml \in {Nobody, r}
                          /\ d.exists /\ pc[r] = "done" /\ line(r).program \notin Wired
                                => d.xml = r
    BY DEF ResultsComplete, Ordered
  <2>1. Stored(r) /\ Ordered(taken[r])
    BY DEF Inv, Directory, Clock
  <2> QED
    BY <2>1 DEF Stored
<1> QED
  BY <1>1, ExperimentInvariant, PTL

\* A value that was printed as a number is never followed by 0/0, and a delay
\* always comes with its ratios: the sums that the ratios are taken of only
\* grow while the simulator runs.
THEOREM NumbersRemain == Spec => []NumbersStay
<1>1. Inv => NumbersStay
  BY DEF Inv
<1> QED
  BY <1>1, ExperimentInvariant, PTL

\* A directory changes only at the hands of a program that is named like it,
\* runs, and was started with options that it takes.
THEOREM RejectedLaunchesLeaveResults == Spec => OnlyLegalLaunchesWrite
<1> DEFINE Owned ==
      \A n \in Names : disk'[n] # disk[n] =>
          \E r \in Launches : Dir(r) = n /\ pc[r] \notin Ended /\ line(r).known
              /\ (line(r).program = "wifi" => line(r).type \in {"RED", "ARED"})
<1>1. Inv /\ [Next]_vars => [Owned]_vars
  <2> SUFFICES ASSUME Inv, Next, NEW n \in Names, disk'[n] # disk[n]
               PROVE  \E r \in Launches :
                         /\ Dir(r) = n /\ pc[r] \notin Ended /\ line(r).known
                         /\ line(r).program = "wifi" => line(r).type \in {"RED", "ARED"}
    OBVIOUS
  <2>1. PICK r \in Launches : Step(r)
    BY DEF Next, Step
  <2>2. Types /\ Clock(r)
    BY DEF Inv
  <2>3. DOMAIN disk = Names
    BY <2>2 DEF Types
  <2>4. /\ pc[r] \in {"built", "removed", "running", "stopped"} /\ Dir(r) = n
    <3>1. CASE Parse(r) \/ Build(r) \/ Run(r) \/ Traffic(r)
      BY <3>1 DEF Parse, Build, Run, Traffic
    <3>2. CASE RemoveDirectory(r)
      BY <2>3, <3>2 DEF RemoveDirectory, TakeOver
    <3>3. CASE MakeDirectory(r)
      BY <2>3, <3>3 DEF MakeDirectory
    <3>4. ASSUME NEW s, Write(r, s) PROVE Dir(r) = n
      BY <2>2, <2>3, <3>4, WriteAppends DEF Appends
    <3>5. CASE NextEvent(r)
      <4> DEFINE e == Head(pending[r])
      <4>1. pc[r] = "running" /\ (Handled(r, e) \/ Applied(r, e) \/ Stopped(r, e))
        BY <2>2, <3>5, EventCases
      <4> HIDE DEF e
      <4>2. CASE Handled(r, e)
        BY <3>4, <4>1, <4>2 DEF Handled, SampleNow
      <4> QED
        BY <4>1, <4>2 DEF Applied, Stopped
    <3>6. CASE Report(r)
      BY <2>2, <2>3, <3>6, ReportCases DEF XmlWritten
    <3> QED
      BY <2>1, <3>1, <3>2, <3>3, <3>5, <3>6 DEF Step, Program
  <2>5. Legal(r)
    BY <2>4 DEF Inv, Legality
  <2>6. line(r) \in CommandLine
    BY <2>2, Lines DEF Types
  <2>7. line(r).type \in {"RED", "ARED", "other"}
    BY <2>6 DEF CommandLine
  <2> QED
    BY <2>4, <2>5, <2>7 DEF Legal, Ended
<1> QED
  BY <1>1, ExperimentInvariant, PTL DEF Spec, OnlyLegalLaunchesWrite
=============================================================================
