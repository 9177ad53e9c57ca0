----------------------------- MODULE VerifyHosts -----------------------------
(***************************************************************************)
(* What holds of the hosts, ports and names that a run of Verify goes      *)
(* through, for every MX answer, every listing and every command line.     *)
(***************************************************************************)
EXTENDS VerifyProofs, FiniteSetTheorems

(* Induction over the numbers up to the length of a list.                    *)

\* A set that has 0, and with each number the next one, has all of them.
LEMMA NatInd ==
  ASSUME NEW S, 0 \in S, \A n \in Nat : n \in S => n + 1 \in S
  PROVE  Nat \subseteq S
  <1> SUFFICES ASSUME NEW top \in Nat, top \notin S PROVE FALSE
    OBVIOUS
  <1> DEFINE family == {0..n : n \in {m \in 0..top : m \notin S}}
  <1>1. IsWellFoundedOn(StrictSubsetOrdering(Nat), FiniteSubsetsOf(Nat))
    BY FS_StrictSubsetOrderingWellFounded
  <1>2. family \subseteq FiniteSubsetsOf(Nat)
    <2> SUFFICES ASSUME NEW n \in 0..top PROVE 0..n \in FiniteSubsetsOf(Nat)
      OBVIOUS
    <2>1. 0..n \subseteq Nat /\ IsFiniteSet(0..n)
      BY FS_Interval
    <2> QED
      BY <2>1 DEF FiniteSubsetsOf
  <1>3. 0..top \in family
    OBVIOUS
  <1>4. PICK s \in family : \A t \in family : ~(<<t, s>> \in StrictSubsetOrdering(Nat))
    <2> HIDE DEF family
    <2> QED
      BY <1>1, <1>2, <1>3, WFMin
  <1>5. PICK n \in 0..top : n \notin S /\ s = 0..n
    BY <1>4
  <1>6. n # 0 /\ n - 1 \in 0..top /\ n - 1 \notin S
    BY <1>5
  <1>7. 0..(n - 1) \in family
    BY <1>6
  <1>8. <<0..(n - 1), 0..n>> \in StrictSubsetOrdering(Nat)
    <2>1. 0..(n - 1) \in SUBSET Nat /\ 0..n \in SUBSET Nat
      OBVIOUS
    <2>2. 0..(n - 1) \subseteq 0..n /\ n \in 0..n /\ n \notin 0..(n - 1)
      BY <1>6
    <2> QED
      BY <2>1, <2>2 DEF StrictSubsetOrdering
  <1> QED
    BY <1>4, <1>5, <1>7, <1>8

-----------------------------------------------------------------------------
(* The hosts of an MX answer.                                                *)

\* What Merged goes through, record by record.
Merging(a, m, n) ==
    m = [i \in 0..n |-> IF i = 0 THEN <<>>
                        ELSE IF a[i].host = 0 THEN m[i - 1] ELSE Merge(m[i - 1], a[i])]

LEMMA MergingExists ==
  ASSUME NEW a, NEW n \in Nat
  PROVE  \E m : Merging(a, m, n)
  <1> DEFINE S == {k \in Nat : \E m : Merging(a, m, k)}
  <1>1. 0 \in S
    <2> DEFINE m == [i \in 0..0 |-> <<>>]
    <2>1. Merging(a, m, 0)
      BY DEF Merging
    <2> QED
      BY <2>1
  <1>2. ASSUME NEW k \in Nat, k \in S PROVE k + 1 \in S
    <2>1. PICK m : Merging(a, m, k)
      BY <1>2
    <2> DEFINE next == IF a[k + 1].host = 0 THEN m[k] ELSE Merge(m[k], a[k + 1])
               l == [i \in 0..(k + 1) |-> IF i <= k THEN m[i] ELSE next]
    <2>2. l[k + 1] = next /\ \A i \in 0..k : l[i] = m[i]
      OBVIOUS
    <2>3. \A i \in 0..k : m[i] = IF i = 0 THEN <<>>
                                 ELSE IF a[i].host = 0 THEN m[i - 1] ELSE Merge(m[i - 1], a[i])
      BY <2>1 DEF Merging
    <2>4. \A i \in 0..(k + 1) : l[i] = IF i = 0 THEN <<>>
                                 ELSE IF a[i].host = 0 THEN l[i - 1] ELSE Merge(l[i - 1], a[i])
      <3> SUFFICES ASSUME NEW i \in 0..(k + 1)
                   PROVE  l[i] = IF i = 0 THEN <<>>
                                 ELSE IF a[i].host = 0 THEN l[i - 1] ELSE Merge(l[i - 1], a[i])
        OBVIOUS
      <3> HIDE DEF l
      <3>1. CASE i = k + 1
        <4>1. i - 1 = k /\ i # 0 /\ k \in 0..k
          BY <3>1
        <4>2. l[i - 1] = m[k]
          BY <2>2, <4>1
        <4> QED
          BY <2>2, <3>1, <4>1, <4>2
      <3>2. CASE i # k + 1 /\ i # 0
        <4>1. i \in 0..k /\ i - 1 \in 0..k
          BY <3>2
        <4>2. l[i] = m[i] /\ l[i - 1] = m[i - 1]
          BY <2>2, <4>1
        <4> QED
          BY <2>3, <3>2, <4>1, <4>2
      <3>3. CASE i = 0
        <4>1. i \in 0..k
          BY <3>3
        <4> QED
          BY <2>2, <2>3, <3>3, <4>1
      <3> QED
        BY <3>1, <3>2, <3>3
    <2>5. l = [i \in 0..(k + 1) |-> l[i]]
      OBVIOUS
    <2>6. Merging(a, l, k + 1)
      <3> HIDE DEF l
      <3> QED
        BY <2>4, <2>5 DEF Merging
    <2> QED
      BY <2>6
  <1>3. Nat \subseteq S
    <2> HIDE DEF S
    <2> QED
      BY <1>1, <1>2, NatInd
  <1> QED
    BY <1>3

LEMMA MergedIsMerging ==
  ASSUME NEW a, Len(a) \in Nat
  PROVE  \E m : Merging(a, m, Len(a)) /\ Merged(a) = m[Len(a)]
  <1> DEFINE merged[i \in 0..Len(a)] ==
                 IF i = 0 THEN <<>>
                 ELSE IF a[i].host = 0 THEN merged[i - 1]
                 ELSE Merge(merged[i - 1], a[i])
  <1>1. \E m : m = [i \in 0..Len(a) |-> IF i = 0 THEN <<>>
                        ELSE IF a[i].host = 0 THEN m[i - 1] ELSE Merge(m[i - 1], a[i])]
    BY MergingExists DEF Merging
  <1>2. Merged(a) = merged[Len(a)]
    BY DEF Merged
  <1>3. Merging(a, merged, Len(a))
    BY <1>1 DEF Merging
  <1> HIDE DEF merged
  <1> QED
    BY <1>2, <1>3

\* What the hosts h of the first n records of an answer are: each host that they have,
\* once, with the lowest preference of any of its records.
Gathered(a, h, n) ==
    /\ h \in Seq(MxRecord)
    /\ \A i \in DOMAIN h : h[i].host # 0
    /\ \A i, j \in DOMAIN h : h[i].host = h[j].host => i = j
    /\ \A i \in DOMAIN h : \E k \in 1..n : a[k].host = h[i].host /\ a[k].preference = h[i].preference
    /\ \A i \in DOMAIN h : \A k \in 1..n : a[k].host = h[i].host => h[i].preference <= a[k].preference
    /\ \A k \in 1..n : a[k].host # 0 => \E i \in DOMAIN h : h[i].host = a[k].host

LEMMA MergeGathers ==
  ASSUME NEW a \in Seq(MxRecord), NEW n \in Nat, n + 1 <= Len(a), NEW h, Gathered(a, h, n),
         a[n + 1].host # 0
  PROVE  Gathered(a, Merge(h, a[n + 1]), n + 1)
  <1> DEFINE r == a[n + 1]
             g == Merge(h, r)
  <1>1. r \in MxRecord /\ \A k \in 1..(n + 1) : a[k] \in MxRecord /\ (k \in 1..n \/ k = n + 1)
    OBVIOUS
  <1>2. h \in Seq(MxRecord) /\ \A i \in DOMAIN h : h[i] \in MxRecord
    BY DEF Gathered
  <1>3. \A s \in MxRecord : s.preference \in Nat
    BY VerifyAssumption DEF MxRecord
  <1>4. ASSUME NEW i \in DOMAIN h, h[i].host = r.host
        PROVE  Gathered(a, g, n + 1)
    <2>1. (CHOOSE j \in DOMAIN h : SameHost(h[j], r)) = i
      BY <1>4 DEF Gathered, SameHost
    <2>2. g = IF r.preference < h[i].preference THEN [h EXCEPT ![i].preference = r.preference] ELSE h
      BY <1>4, <2>1 DEF Merge, SameHost
    <2> DEFINE low == IF r.preference < h[i].preference THEN r.preference ELSE h[i].preference
    <2>3. /\ g \in Seq(MxRecord) /\ DOMAIN g = DOMAIN h
          /\ \A j \in DOMAIN h : g[j].host = h[j].host
          /\ \A j \in DOMAIN h \ {i} : g[j].preference = h[j].preference
          /\ g[i].preference = low
      <3>1. CASE r.preference < h[i].preference
        <4>1. g = [h EXCEPT ![i] = [h[i] EXCEPT !.preference = r.preference]]
          BY <2>2, <3>1
        <4>2. [h[i] EXCEPT !.preference = r.preference] \in MxRecord
          BY <1>1, <1>2 DEF MxRecord
        <4>3. /\ [h[i] EXCEPT !.preference = r.preference].host = h[i].host
              /\ [h[i] EXCEPT !.preference = r.preference].preference = r.preference
          BY <1>2 DEF MxRecord
        <4>4. /\ g \in Seq(MxRecord) /\ DOMAIN g = DOMAIN h
              /\ g[i] = [h[i] EXCEPT !.preference = r.preference]
              /\ \A j \in DOMAIN h \ {i} : g[j] = h[j]
          <5> HIDE DEF g
          <5> QED
            BY <1>2, <4>1, <4>2
        <4> HIDE DEF g
        <4> QED
          BY <3>1, <4>3, <4>4
      <3>2. CASE ~(r.preference < h[i].preference)
        BY <1>2, <2>2, <3>2
      <3> QED
        BY <3>1, <3>2
    <2>4. low \in Nat /\ low <= r.preference /\ low <= h[i].preference
      BY <1>1, <1>2, <1>3
    <2>5. low = r.preference \/ low = h[i].preference
      OBVIOUS
    <2> HIDE DEF g, low
    <2>6. ASSUME NEW j \in DOMAIN g
          PROVE  \E k \in 1..(n + 1) : a[k].host = g[j].host /\ a[k].preference = g[j].preference
      <3>1. CASE j # i \/ low = h[i].preference
        <4>1. g[j].host = h[j].host /\ g[j].preference = h[j].preference /\ j \in DOMAIN h
          BY <2>3, <3>1
        <4>2. PICK k \in 1..n : a[k].host = h[j].host /\ a[k].preference = h[j].preference
          BY <4>1 DEF Gathered
        <4> QED
          BY <4>1, <4>2
      <3>2. CASE j = i /\ low = r.preference
        BY <1>4, <2>3, <3>2
      <3> QED
        BY <2>5, <3>1, <3>2
    <2>7. ASSUME NEW j \in DOMAIN g, NEW k \in 1..(n + 1), a[k].host = g[j].host
          PROVE  g[j].preference <= a[k].preference
      <3>1. j \in DOMAIN h /\ a[k].host = h[j].host
        BY <2>3, <2>7
      <3>2. g[j].preference \in Nat /\ h[j].preference \in Nat /\ a[k].preference \in Nat
        BY <1>1, <1>2, <1>3, <2>3, <3>1
      <3>3. g[j].preference <= h[j].preference
        BY <2>3, <2>4, <3>1, <3>2
      <3>4. CASE k \in 1..n
        <4>1. h[j].preference <= a[k].preference
          BY <3>1, <3>4 DEF Gathered
        <4> QED
          BY <3>2, <3>3, <4>1
      <3>5. CASE k = n + 1
        <4>1. j = i
          BY <1>4, <3>1, <3>5 DEF Gathered
        <4> QED
          BY <2>3, <2>4, <3>5, <4>1
      <3> QED
        BY <1>1, <3>4, <3>5
    <2>8. ASSUME NEW k \in 1..(n + 1), a[k].host # 0
          PROVE  \E j \in DOMAIN g : g[j].host = a[k].host
      <3>1. CASE k \in 1..n
        <4>1. PICK j \in DOMAIN h : h[j].host = a[k].host
          BY <2>8, <3>1 DEF Gathered
        <4> QED
          BY <2>3, <4>1
      <3>2. CASE k = n + 1
        BY <1>1, <1>4, <2>3, <3>2
      <3> QED
        BY <1>1, <3>1, <3>2
    <2>9. (\A j \in DOMAIN g : g[j].host # 0) /\ (\A j, l \in DOMAIN g : g[j].host = g[l].host => j = l)
      BY <2>3 DEF Gathered
    <2> QED
      BY <2>3, <2>6, <2>7, <2>8, <2>9 DEF Gathered
  <1>5. ASSUME \A i \in DOMAIN h : h[i].host # r.host
        PROVE  Gathered(a, g, n + 1)
    <2>1. g = Append(h, r)
      BY <1>5 DEF Merge, SameHost
    <2> DEFINE m == Len(h) + 1
    <2>2. /\ g \in Seq(MxRecord) /\ DOMAIN g = DOMAIN h \union {m} /\ m \notin DOMAIN h
          /\ g[m] = r /\ \A i \in DOMAIN h : g[i] = h[i]
      BY <1>1, <1>2, <2>1
    <2> HIDE DEF g, m
    <2>3. ASSUME NEW j \in DOMAIN g
          PROVE  \E k \in 1..(n + 1) : a[k].host = g[j].host /\ a[k].preference = g[j].preference
      <3>1. CASE j = m
        BY <2>2, <3>1
      <3>2. CASE j \in DOMAIN h
        <4>1. PICK k \in 1..n : a[k].host = h[j].host /\ a[k].preference = h[j].preference
          BY <3>2 DEF Gathered
        <4> QED
          BY <2>2, <3>2, <4>1
      <3> QED
        BY <2>2, <3>1, <3>2
    <2>4. ASSUME NEW j \in DOMAIN g, NEW k \in 1..(n + 1), a[k].host = g[j].host
          PROVE  g[j].preference <= a[k].preference
      <3>1. CASE j = m
        <4>1. k = n + 1
          BY <1>1, <1>5, <2>2, <2>4, <3>1 DEF Gathered
        <4> QED
          BY <1>1, <1>3, <2>2, <3>1, <4>1
      <3>2. CASE j \in DOMAIN h
        <4>1. k \in 1..n
          BY <1>1, <1>5, <2>2, <2>4, <3>2
        <4> QED
          BY <2>2, <2>4, <3>2, <4>1 DEF Gathered
      <3> QED
        BY <2>2, <3>1, <3>2
    <2>5. ASSUME NEW k \in 1..(n + 1), a[k].host # 0
          PROVE  \E j \in DOMAIN g : g[j].host = a[k].host
      <3>1. CASE k \in 1..n
        <4>1. PICK j \in DOMAIN h : h[j].host = a[k].host
          BY <2>5, <3>1 DEF Gathered
        <4> QED
          BY <2>2, <4>1
      <3>2. CASE k = n + 1
        BY <1>1, <2>2, <3>2
      <3> QED
        BY <1>1, <3>1, <3>2
    <2>6. (\A j \in DOMAIN g : g[j].host # 0) /\ (\A j, l \in DOMAIN g : g[j].host = g[l].host => j = l)
      BY <1>5, <2>2 DEF Gathered
    <2> QED
      BY <2>2, <2>3, <2>4, <2>5, <2>6 DEF Gathered
  <1> QED
    BY <1>4, <1>5

\* Merged has each host of the answer once, with its lowest preference.
LEMMA MergedGathers ==
  ASSUME NEW a \in Seq(MxRecord)
  PROVE  Gathered(a, Merged(a), Len(a))
  <1>1. Len(a) \in Nat
    OBVIOUS
  <1>2. PICK m : Merging(a, m, Len(a)) /\ Merged(a) = m[Len(a)]
    BY <1>1, MergedIsMerging
  <1> DEFINE S == {n \in Nat : n <= Len(a) => Gathered(a, m[n], n)}
  <1>3. 0 \in S
    <2>1. m[0] = <<>>
      BY <1>1, <1>2 DEF Merging
    <2>2. <<>> \in Seq(MxRecord) /\ DOMAIN <<>> = {}
      OBVIOUS
    <2>3. Gathered(a, m[0], 0)
      BY <2>1, <2>2 DEF Gathered
    <2> QED
      BY <2>3
  <1>4. ASSUME NEW n \in Nat, n \in S PROVE n + 1 \in S
    <2> SUFFICES ASSUME n + 1 <= Len(a) PROVE Gathered(a, m[n + 1], n + 1)
      OBVIOUS
    <2>1. Gathered(a, m[n], n)
      BY <1>1, <1>4
    <2>2. m[n + 1] = IF a[n + 1].host = 0 THEN m[n] ELSE Merge(m[n], a[n + 1])
      <3>1. n + 1 \in 0..Len(a) /\ n + 1 # 0 /\ (n + 1) - 1 = n
        BY <1>1
      <3> QED
        BY <1>2, <3>1 DEF Merging
    <2>3. CASE a[n + 1].host # 0
      BY <2>1, <2>2, <2>3, MergeGathers
    <2>4. CASE a[n + 1].host = 0
      <3>1. \A k \in 1..(n + 1) : k \in 1..n \/ k = n + 1
        OBVIOUS
      <3>2. m[n + 1] = m[n] /\ \A k \in 1..n : k \in 1..(n + 1)
        BY <2>2, <2>4
      <3> QED
        BY <2>1, <2>4, <3>1, <3>2 DEF Gathered
    <2> QED
      BY <2>3, <2>4
  <1>5. Nat \subseteq S
    <2> HIDE DEF S
    <2> QED
      BY <1>3, <1>4, NatInd
  <1> QED
    BY <1>1, <1>2, <1>5

-----------------------------------------------------------------------------
(* The order of the hosts.                                                   *)

\* Of two hosts, one is before the other, and only one.
LEMMA BeforeOrders ==
  ASSUME NEW r \in MxRecord, NEW s \in MxRecord
  PROVE  /\ r.host # s.host => Before(r, s) \/ Before(s, r)
         /\ ~(Before(r, s) /\ Before(s, r))
         /\ \A t \in MxRecord : Before(r, s) /\ Before(s, t) => Before(r, t)
  <1>1. \A t \in MxRecord : t.preference \in Nat /\ t.host \in Nat
    <2> SUFFICES ASSUME NEW t \in MxRecord PROVE t.preference \in Nat /\ t.host \in Nat
      OBVIOUS
    <2>1. t.preference \in Preferences /\ t.host \in Hosts \union {0}
      BY DEF MxRecord
    <2>2. t.preference \in Nat
      BY <2>1, VerifyAssumption
    <2>3. CASE t.host = 0
      <3>1. 0 \in Nat
        OBVIOUS
      <3> QED
        BY <2>2, <2>3, <3>1
    <2>4. CASE t.host \in Hosts
      <3>1. Hosts \subseteq Nat
        BY VerifyAssumption
      <3> QED
        BY <2>2, <2>4, <3>1
    <2>5. t.host \in Nat
      BY <2>1, <2>3, <2>4
    <2> QED
      BY <2>2, <2>5
  <1> QED
    BY <1>1 DEF Before

\* A sorted list has the hosts of the list, each before those that come later.
LEMMA SortedSorts ==
  ASSUME NEW h \in Seq(MxRecord), \A i, j \in DOMAIN h : h[i].host = h[j].host => i = j
  PROVE  /\ Sorted(h) \in Seq(MxRecord) /\ DOMAIN Sorted(h) = DOMAIN h
         /\ \A k \in DOMAIN h : \E i \in DOMAIN h : Sorted(h)[k] = h[i]
         /\ \A i \in DOMAIN h : \E k \in DOMAIN h : Sorted(h)[k] = h[i]
         /\ \A k, l \in DOMAIN h : k < l => Before(Sorted(h)[k], Sorted(h)[l])
  <1> DEFINE ahead(j, i) == Before(h[j], h[i]) \/ (j < i /\ ~Before(h[i], h[j]))
             below(i) == {j \in DOMAIN h : ahead(j, i)}
             place(i) == 1 + Cardinality(below(i))
             at_place(k) == CHOOSE i \in DOMAIN h : place(i) = k
  <1>1. PICK n \in Nat : n = Len(h) /\ DOMAIN h = 1..n
    OBVIOUS
  <1>2. IsFiniteSet(1..n) /\ Cardinality(1..n) = n
    <2>1. n \in Int /\ 1 \in Int
      BY <1>1
    <2>2. IsFiniteSet(1..n) /\ Cardinality(1..n) = IF 1 > n THEN 0 ELSE n - 1 + 1
      BY <2>1, FS_Interval
    <2> QED
      BY <1>1, <2>2
  <1>3. \A i \in 1..n : h[i] \in MxRecord
    BY <1>1
  <1>4. ASSUME NEW i \in 1..n, NEW j \in 1..n
        PROVE  ahead(j, i) <=> Before(h[j], h[i])
    <2>1. h[i] \in MxRecord /\ h[j] \in MxRecord /\ (h[i].host = h[j].host => i = j)
      BY <1>1, <1>3
    <2>2. i # j => Before(h[i], h[j]) \/ Before(h[j], h[i])
      BY <2>1, BeforeOrders
    <2>3. i = j => ~(j < i)
      BY <1>1
    <2> QED
      BY <2>2, <2>3
  <1>5. ASSUME NEW i \in 1..n
        PROVE  below(i) \subseteq 1..n /\ i \notin below(i) /\ IsFiniteSet(below(i))
               /\ Cardinality(below(i)) \in Nat
    <2>1. below(i) = {j \in 1..n : Before(h[j], h[i])}
      BY <1>1, <1>4
    <2>2. ~Before(h[i], h[i])
      BY <1>3, BeforeOrders
    <2>3. below(i) \subseteq 1..n /\ i \notin below(i)
      BY <2>1, <2>2
    <2>4. IsFiniteSet(below(i))
      BY <1>2, <2>3, FS_Subset
    <2> QED
      BY <2>3, <2>4, FS_CardinalityType
  <1>6. ASSUME NEW i \in 1..n, NEW j \in 1..n, Before(h[i], h[j])
        PROVE  place(i) < place(j)
    <2>1. below(i) \union {i} \subseteq below(j)
      <3>1. \A m \in 1..n : Before(h[m], h[i]) => Before(h[m], h[j])
        BY <1>3, <1>6, BeforeOrders
      <3> QED
        BY <1>1, <1>6, <1>4, <3>1
    <2>2. i \notin below(i) /\ IsFiniteSet(below(i)) /\ IsFiniteSet(below(j))
      BY <1>5
    <2>3. Cardinality(below(i) \union {i}) = Cardinality(below(i)) + 1
      BY <2>2, FS_AddElement
    <2>4. Cardinality(below(i) \union {i}) <= Cardinality(below(j))
      BY <2>1, <2>2, FS_Subset
    <2>5. Cardinality(below(i)) \in Nat /\ Cardinality(below(j)) \in Nat
      BY <1>5
    <2> HIDE DEF below
    <2> QED
      BY <2>3, <2>4, <2>5
  <1>7. ASSUME NEW i \in 1..n
        PROVE  place(i) \in 1..n
    <2>1. below(i) \subseteq (1..n) \ {i}
      BY <1>5
    <2>2. IsFiniteSet((1..n) \ {i}) /\ Cardinality((1..n) \ {i}) = n - 1
      BY <1>2, FS_RemoveElement
    <2>3. Cardinality(below(i)) <= n - 1
      BY <2>1, <2>2, FS_Subset
    <2>4. Cardinality(below(i)) \in Nat
      BY <1>5
    <2> HIDE DEF below
    <2> QED
      BY <2>3, <2>4
  <1>8. \A i, j \in 1..n : place(i) = place(j) => i = j
    <2> SUFFICES ASSUME NEW i \in 1..n, NEW j \in 1..n, i # j PROVE place(i) # place(j)
      OBVIOUS
    <2>1. Before(h[i], h[j]) \/ Before(h[j], h[i])
      BY <1>1, <1>3, BeforeOrders
    <2>2. place(i) < place(j) \/ place(j) < place(i)
      BY <1>6, <2>1
    <2>3. place(i) \in Int /\ place(j) \in Int
      BY <1>7
    <2> HIDE DEF place
    <2> QED
      BY <2>2, <2>3
  <1>9. \A k \in 1..n : \E i \in 1..n : place(i) = k
    <2> DEFINE f == [i \in 1..n |-> place(i)]
    <2>1. f \in Injection(1..n, 1..n)
      <3> HIDE DEF place
      <3> QED
        BY <1>7, <1>8 DEF Injection, IsInjective
    <2>2. f \in Surjection(1..n, 1..n)
      <3> HIDE DEF f
      <3> QED
        BY <1>2, <2>1, FS_Injection
    <2> HIDE DEF place
    <2> QED
      BY <2>2 DEF Surjection
  <1>10. \A k \in 1..n : at_place(k) \in 1..n /\ place(at_place(k)) = k
    <2> HIDE DEF place
    <2> QED
      BY <1>1, <1>9
  <1>11. Sorted(h) = [k \in 1..n |-> h[at_place(k)]]
    BY <1>1 DEF Sorted
  <1>12. ASSUME NEW k \in 1..n, NEW l \in 1..n, k < l
         PROVE  Before(h[at_place(k)], h[at_place(l)])
    <2> DEFINE i == at_place(k)
               j == at_place(l)
    <2>1. i \in 1..n /\ j \in 1..n /\ place(i) = k /\ place(j) = l
      BY <1>10
    <2> HIDE DEF i, j, place
    <2>2. ~Before(h[j], h[i]) /\ i # j
      <3>1. Before(h[j], h[i]) => place(j) < place(i)
        BY <1>6, <2>1 DEF place
      <3> QED
        BY <1>12, <2>1, <3>1
    <2> QED
      BY <1>1, <1>3, <2>1, <2>2, BeforeOrders DEF i, j
  <1> HIDE DEF at_place, place
  <1>13. \A i \in 1..n : \E k \in 1..n : at_place(k) = i
    <2> SUFFICES ASSUME NEW i \in 1..n PROVE at_place(place(i)) = i /\ place(i) \in 1..n
      OBVIOUS
    <2>1. place(i) \in 1..n
      BY <1>7 DEF place
    <2>2. at_place(place(i)) \in 1..n /\ place(at_place(place(i))) = place(i)
      BY <1>10, <2>1
    <2> QED
      BY <1>8, <2>1, <2>2 DEF place
  <1>14. Sorted(h) \in Seq(MxRecord) /\ DOMAIN Sorted(h) = 1..n
    BY <1>3, <1>10, <1>11
  <1> QED
    BY <1>1, <1>10, <1>11, <1>12, <1>13, <1>14

\* What HostsChosen asks of the hosts chosen from an answer.
Chooses(a, chosen) ==
    LET named == {a[i].host : i \in DOMAIN a} \ {0}
        prefers(h) == CHOOSE p \in Preferences :
            /\ \E i \in DOMAIN a : a[i].host = h /\ a[i].preference = p
            /\ \A i \in DOMAIN a : a[i].host = h => p <= a[i].preference
    IN  /\ {chosen[i] : i \in DOMAIN chosen} = named
        /\ \A i, j \in DOMAIN chosen : i < j =>
               \/ prefers(chosen[i]) < prefers(chosen[j])
               \/ prefers(chosen[i]) = prefers(chosen[j]) /\ chosen[i] < chosen[j]

LEMMA NormalizeChooses ==
  ASSUME NEW a \in Seq(MxRecord)
  PROVE  LET s == normalize_mx(a)
             chosen == [i \in DOMAIN s |-> s[i].host]
         IN  chosen \in Seq(Hosts \union {0}) /\ Chooses(a, chosen)
  <1> DEFINE h == Merged(a)
             s == normalize_mx(a)
             chosen == [i \in DOMAIN s |-> s[i].host]
             named == {a[i].host : i \in DOMAIN a} \ {0}
             lowest(x, p) ==
                 /\ \E i \in DOMAIN a : a[i].host = x /\ a[i].preference = p
                 /\ \A i \in DOMAIN a : a[i].host = x => p <= a[i].preference
             prefers(x) == CHOOSE p \in Preferences : lowest(x, p)
  <1>1. Gathered(a, h, Len(a)) /\ DOMAIN a = 1..Len(a)
    BY MergedGathers
  <1> HIDE DEF h
  <1>2. h \in Seq(MxRecord) /\ \A i, j \in DOMAIN h : h[i].host = h[j].host => i = j
    BY <1>1 DEF Gathered
  <1>3. /\ s \in Seq(MxRecord) /\ DOMAIN s = DOMAIN h
        /\ \A k \in DOMAIN h : \E i \in DOMAIN h : s[k] = h[i]
        /\ \A i \in DOMAIN h : \E k \in DOMAIN h : s[k] = h[i]
        /\ \A k, l \in DOMAIN h : k < l => Before(s[k], s[l])
    <2>1. s = Sorted(h)
      BY DEF normalize_mx, h
    <2> HIDE DEF s
    <2> QED
      BY <1>2, <2>1, SortedSorts
  <1> HIDE DEF s
  <1>4. \A k \in DOMAIN s : s[k] \in MxRecord /\ s[k].host \in Hosts \union {0} /\ s[k].preference \in Preferences
    <2>1. \A r \in MxRecord : r.host \in Hosts \union {0} /\ r.preference \in Preferences
      BY DEF MxRecord
    <2>2. s \in Seq(MxRecord)
      BY <1>3
    <2>3. \A k \in DOMAIN s : s[k] \in MxRecord
      BY <2>2
    <2> QED
      BY <2>1, <2>3
  <1>5. chosen \in Seq(Hosts \union {0}) /\ DOMAIN chosen = DOMAIN s
    <2>1. s \in Seq(MxRecord)
      BY <1>3
    <2>2. PICK n \in Nat : DOMAIN s = 1..n
      BY <2>1
    <2>3. \A k \in 1..n : s[k].host \in Hosts \union {0}
      BY <1>4, <2>2
    <2> QED
      BY <2>2, <2>3
  <1>6. {chosen[i] : i \in DOMAIN chosen} = named
    <2>1. ASSUME NEW k \in DOMAIN s PROVE s[k].host \in named
      <3>1. PICK i \in DOMAIN h : s[k] = h[i]
        BY <1>3, <2>1
      <3>2. h[i].host # 0 /\ \E l \in 1..Len(a) : a[l].host = h[i].host
        BY <1>1 DEF Gathered
      <3> QED
        BY <1>1, <3>1, <3>2
    <2>2. ASSUME NEW l \in DOMAIN a, a[l].host # 0 PROVE \E k \in DOMAIN s : s[k].host = a[l].host
      <3>1. PICK i \in DOMAIN h : h[i].host = a[l].host
        BY <1>1, <2>2 DEF Gathered
      <3> QED
        BY <1>3, <3>1
    <2> QED
      BY <2>1, <2>2
  <1>7. ASSUME NEW k \in DOMAIN s PROVE prefers(s[k].host) = s[k].preference
    <2>1. PICK i \in DOMAIN h : s[k] = h[i]
      BY <1>3, <1>7
    <2>2. lowest(s[k].host, s[k].preference)
      <3>1. \E l \in 1..Len(a) : a[l].host = h[i].host /\ a[l].preference = h[i].preference
        BY <1>1 DEF Gathered
      <3>2. \A l \in 1..Len(a) : a[l].host = h[i].host => h[i].preference <= a[l].preference
        BY <1>1 DEF Gathered
      <3> QED
        BY <1>1, <2>1, <3>1, <3>2
    <2>3. ASSUME NEW p \in Preferences, lowest(s[k].host, p) PROVE p = s[k].preference
      <3>1. p <= s[k].preference /\ s[k].preference <= p
        BY <2>2, <2>3
      <3>2. p \in Nat /\ s[k].preference \in Nat
        BY <1>4, <1>7, VerifyAssumption
      <3> QED
        BY <3>1, <3>2
    <2> HIDE DEF lowest
    <2> QED
      BY <1>4, <2>2, <2>3
  <1>8. ASSUME NEW i \in DOMAIN chosen, NEW j \in DOMAIN chosen, i < j
        PROVE  \/ prefers(chosen[i]) < prefers(chosen[j])
               \/ prefers(chosen[i]) = prefers(chosen[j]) /\ chosen[i] < chosen[j]
    <2>1. i \in DOMAIN s /\ j \in DOMAIN s /\ Before(s[i], s[j])
      BY <1>3, <1>5, <1>8
    <2>2. chosen[i] = s[i].host /\ chosen[j] = s[j].host
      BY <2>1
    <2>3. prefers(chosen[i]) = s[i].preference /\ prefers(chosen[j]) = s[j].preference
      BY <1>7, <2>1, <2>2
    <2> HIDE DEF prefers, chosen
    <2> QED
      BY <2>1, <2>2, <2>3 DEF Before
  <1> HIDE DEF chosen
  <1>9. Chooses(a, chosen)
    BY <1>6, <1>8 DEF Chooses
  <1> QED
    BY <1>5, <1>9 DEF chosen, s

-----------------------------------------------------------------------------
(* The names of a listing.                                                   *)

\* What matching and unique_names go through, record by record.
Keeping(zone, named, forports, k, n) ==
    k = [i \in 0..n |-> IF i = 0 THEN <<>>
                        ELSE IF record_matches_filter(zone[i], named, forports) THEN Append(k[i - 1], zone[i])
                        ELSE k[i - 1]]

Naming(list, u, n) == u = [i \in 0..n |-> IF i = 0 THEN <<>> ELSE AddName(u[i - 1], list[i])]

LEMMA KeepingExists ==
  ASSUME NEW zone, NEW named, NEW forports, NEW n \in Nat
  PROVE  \E k : Keeping(zone, named, forports, k, n)
  <1> DEFINE Next_kept(s, i) == IF record_matches_filter(zone[i], named, forports) THEN Append(s, zone[i]) ELSE s
             S == {m \in Nat : \E k : Keeping(zone, named, forports, k, m)}
  <1>1. 0 \in S
    <2> DEFINE k == [i \in 0..0 |-> <<>>]
    <2>1. Keeping(zone, named, forports, k, 0)
      BY DEF Keeping
    <2> QED
      BY <2>1
  <1>2. ASSUME NEW m \in Nat, m \in S PROVE m + 1 \in S
    <2>1. PICK k : Keeping(zone, named, forports, k, m)
      BY <1>2
    <2> DEFINE last == Next_kept(k[m], m + 1)
               l == [i \in 0..(m + 1) |-> IF i <= m THEN k[i] ELSE last]
    <2>2. l[m + 1] = last /\ \A i \in 0..m : l[i] = k[i]
      OBVIOUS
    <2>3. \A i \in 0..m : k[i] = IF i = 0 THEN <<>> ELSE Next_kept(k[i - 1], i)
      BY <2>1 DEF Keeping
    <2> HIDE DEF Next_kept
    <2>4. \A i \in 0..(m + 1) : l[i] = IF i = 0 THEN <<>> ELSE Next_kept(l[i - 1], i)
      <3> SUFFICES ASSUME NEW i \in 0..(m + 1)
                   PROVE  l[i] = IF i = 0 THEN <<>> ELSE Next_kept(l[i - 1], i)
        OBVIOUS
      <3> HIDE DEF l
      <3>1. CASE i = m + 1
        <4>1. i - 1 = m /\ i # 0 /\ m \in 0..m
          BY <3>1
        <4> QED
          BY <2>2, <3>1, <4>1
      <3>2. CASE i # m + 1 /\ i # 0
        <4>1. i \in 0..m /\ i - 1 \in 0..m
          BY <3>2
        <4> QED
          BY <2>2, <2>3, <3>2, <4>1
      <3>3. CASE i = 0
        <4>1. i \in 0..m
          BY <3>3
        <4> QED
          BY <2>2, <2>3, <3>3, <4>1
      <3> QED
        BY <3>1, <3>2, <3>3
    <2>5. l = [i \in 0..(m + 1) |-> l[i]]
      OBVIOUS
    <2>6. Keeping(zone, named, forports, l, m + 1)
      <3> HIDE DEF l
      <3> QED
        BY <2>4, <2>5 DEF Keeping, Next_kept
    <2> QED
      BY <2>6
  <1>3. Nat \subseteq S
    <2> HIDE DEF S
    <2> QED
      BY <1>1, <1>2, NatInd
  <1> QED
    BY <1>3

LEMMA NamingExists ==
  ASSUME NEW list, NEW n \in Nat
  PROVE  \E u : Naming(list, u, n)
  <1> DEFINE S == {m \in Nat : \E u : Naming(list, u, m)}
  <1>1. 0 \in S
    <2> DEFINE u == [i \in 0..0 |-> <<>>]
    <2>1. Naming(list, u, 0)
      BY DEF Naming
    <2> QED
      BY <2>1
  <1>2. ASSUME NEW m \in Nat, m \in S PROVE m + 1 \in S
    <2>1. PICK u : Naming(list, u, m)
      BY <1>2
    <2> DEFINE last == AddName(u[m], list[m + 1])
               l == [i \in 0..(m + 1) |-> IF i <= m THEN u[i] ELSE last]
    <2>2. l[m + 1] = last /\ \A i \in 0..m : l[i] = u[i]
      OBVIOUS
    <2>3. \A i \in 0..m : u[i] = IF i = 0 THEN <<>> ELSE AddName(u[i - 1], list[i])
      BY <2>1 DEF Naming
    <2>4. \A i \in 0..(m + 1) : l[i] = IF i = 0 THEN <<>> ELSE AddName(l[i - 1], list[i])
      <3> SUFFICES ASSUME NEW i \in 0..(m + 1)
                   PROVE  l[i] = IF i = 0 THEN <<>> ELSE AddName(l[i - 1], list[i])
        OBVIOUS
      <3> HIDE DEF l
      <3>1. CASE i = m + 1
        <4>1. i - 1 = m /\ i # 0 /\ m \in 0..m
          BY <3>1
        <4> QED
          BY <2>2, <3>1, <4>1
      <3>2. CASE i # m + 1 /\ i # 0
        <4>1. i \in 0..m /\ i - 1 \in 0..m
          BY <3>2
        <4> QED
          BY <2>2, <2>3, <3>2, <4>1
      <3>3. CASE i = 0
        <4>1. i \in 0..m
          BY <3>3
        <4> QED
          BY <2>2, <2>3, <3>3, <4>1
      <3> QED
        BY <3>1, <3>2, <3>3
    <2>5. l = [i \in 0..(m + 1) |-> l[i]]
      OBVIOUS
    <2>6. Naming(list, l, m + 1)
      <3> HIDE DEF l
      <3> QED
        BY <2>4, <2>5 DEF Naming
    <2> QED
      BY <2>6
  <1>3. Nat \subseteq S
    <2> HIDE DEF S
    <2> QED
      BY <1>1, <1>2, NatInd
  <1> QED
    BY <1>3

\* The records that match are names of the zone.
LEMMA MatchingType ==
  ASSUME NEW zone \in Seq(Name), NEW named, NEW forports
  PROVE  matching(zone, named, forports) \in Seq(Name)
  <1> DEFINE kept[i \in 0..Len(zone)] ==
                 IF i = 0 THEN <<>>
                 ELSE IF record_matches_filter(zone[i], named, forports) THEN Append(kept[i - 1], zone[i])
                 ELSE kept[i - 1]
             S == {n \in Nat : n <= Len(zone) => kept[n] \in Seq(Name)}
  <1>1. Len(zone) \in Nat
    OBVIOUS
  <1>2. matching(zone, named, forports) = kept[Len(zone)]
    BY DEF matching
  <1>3. \E k : k = [i \in 0..Len(zone) |-> IF i = 0 THEN <<>>
                        ELSE IF record_matches_filter(zone[i], named, forports) THEN Append(k[i - 1], zone[i])
                        ELSE k[i - 1]]
    <2>1. \E k : Keeping(zone, named, forports, k, Len(zone))
      BY <1>1, KeepingExists
    <2> QED
      BY <2>1 DEF Keeping
  <1>4. Keeping(zone, named, forports, kept, Len(zone))
    BY <1>3 DEF Keeping
  <1> HIDE DEF kept
  <1>5. 0 \in S
    <2>1. kept[0] = <<>>
      BY <1>1, <1>4 DEF Keeping
    <2>2. kept[0] \in Seq(Name)
      BY <2>1
    <2> QED
      BY <2>2
  <1>6. ASSUME NEW n \in Nat, n \in S PROVE n + 1 \in S
    <2> SUFFICES ASSUME n + 1 <= Len(zone) PROVE kept[n + 1] \in Seq(Name)
      OBVIOUS
    <2>1. kept[n] \in Seq(Name) /\ zone[n + 1] \in Name
      BY <1>1, <1>6
    <2>2. kept[n + 1] = IF record_matches_filter(zone[n + 1], named, forports)
                        THEN Append(kept[n], zone[n + 1]) ELSE kept[n]
      <3>1. n + 1 \in 0..Len(zone) /\ n + 1 # 0 /\ (n + 1) - 1 = n
        BY <1>1
      <3> QED
        BY <1>4, <3>1 DEF Keeping
    <2> QED
      BY <2>1, <2>2
  <1>7. Nat \subseteq S
    <2> HIDE DEF S
    <2> QED
      BY <1>5, <1>6, NatInd
  <1> QED
    BY <1>1, <1>2, <1>7

\* The owner and the port of a name, whatever its spelling; those of the first n of a list.
Key(name) == <<name.owner, name.port>>
Keys(list, n) == {Key(list[i]) : i \in 1..n}

LEMMA AddNameAdds ==
  ASSUME NEW list \in Seq(Name), NEW n \in Nat, n + 1 <= Len(list), NEW out \in Seq(Name),
         Keys(out, Len(out)) = Keys(list, n), IsFiniteSet(Keys(list, n)),
         Cardinality(Keys(list, n)) = Len(out)
  PROVE  LET more == AddName(out, list[n + 1])
         IN  /\ more \in Seq(Name)
             /\ Keys(more, Len(more)) = Keys(list, n + 1) /\ IsFiniteSet(Keys(list, n + 1))
             /\ Cardinality(Keys(list, n + 1)) = Len(more)
  <1> DEFINE name == list[n + 1]
             more == AddName(out, name)
  <1>1. name \in Name
    OBVIOUS
  <1>2. Keys(list, n + 1) = Keys(list, n) \union {Key(name)}
    <2>1. \A i \in 1..(n + 1) : i \in 1..n \/ i = n + 1
      OBVIOUS
    <2> QED
      BY <2>1 DEF Keys
  <1>3. \A i \in DOMAIN out : names_equal(out[i], name) <=> Key(out[i]) = Key(name)
    BY DEF names_equal, Key
  <1>4. CASE \E i \in DOMAIN out : names_equal(out[i], name)
    <2>1. more = out
      BY <1>4 DEF AddName
    <2>2. Key(name) \in Keys(list, n)
      <3>1. PICK i \in 1..Len(out) : Key(out[i]) = Key(name)
        BY <1>3, <1>4
      <3>2. Key(name) \in Keys(out, Len(out))
        BY <3>1 DEF Keys
      <3> QED
        BY <3>2
    <2>3. Keys(list, n + 1) = Keys(list, n)
      BY <1>2, <2>2
    <2> QED
      BY <2>1, <2>3
  <1>5. CASE ~\E i \in DOMAIN out : names_equal(out[i], name)
    <2>1. more = Append(out, name)
      BY <1>5 DEF AddName
    <2>2. /\ more \in Seq(Name) /\ Len(more) = Len(out) + 1 /\ Len(out) \in Nat
          /\ \A i \in 1..Len(out) : more[i] = out[i]
          /\ more[Len(out) + 1] = name
      BY <1>1, <2>1
    <2> HIDE DEF more
    <2>3. Keys(more, Len(more)) = Keys(out, Len(out)) \union {Key(name)}
      <3>1. \A i \in 1..Len(more) : i \in 1..Len(out) \/ i = Len(out) + 1
        BY <2>2
      <3>2. \A i \in 1..Len(out) : i \in 1..Len(more)
        BY <2>2
      <3>3. Len(out) + 1 \in 1..Len(more)
        BY <2>2
      <3> QED
        BY <2>2, <3>1, <3>2, <3>3 DEF Keys
    <2>4. Key(name) \notin Keys(list, n)
      <3>1. \A i \in 1..Len(out) : Key(out[i]) # Key(name)
        BY <1>3, <1>5
      <3>2. Key(name) \notin Keys(out, Len(out))
        BY <3>1 DEF Keys
      <3> QED
        BY <3>2
    <2>5. /\ IsFiniteSet(Keys(list, n) \union {Key(name)})
          /\ Cardinality(Keys(list, n) \union {Key(name)}) = Cardinality(Keys(list, n)) + 1
      BY <2>4, FS_AddElement
    <2> QED
      BY <1>2, <2>2, <2>3, <2>5 DEF more
  <1> QED
    BY <1>4, <1>5

\* Each name once: as many as there are.
LEMMA UniqueNames ==
  ASSUME NEW list \in Seq(Name)
  PROVE  /\ unique_names(list) \in Seq(Name)
         /\ Cardinality(Keys(list, Len(list))) = Len(unique_names(list))
  <1> DEFINE out[i \in 0..Len(list)] == IF i = 0 THEN <<>> ELSE AddName(out[i - 1], list[i])
             Good(n) == /\ out[n] \in Seq(Name)
                        /\ Keys(out[n], Len(out[n])) = Keys(list, n) /\ IsFiniteSet(Keys(list, n))
                        /\ Cardinality(Keys(list, n)) = Len(out[n])
             S == {n \in Nat : n <= Len(list) => Good(n)}
  <1>1. Len(list) \in Nat
    OBVIOUS
  <1>2. unique_names(list) = out[Len(list)]
    BY DEF unique_names
  <1>3. \E u : u = [i \in 0..Len(list) |-> IF i = 0 THEN <<>> ELSE AddName(u[i - 1], list[i])]
    BY <1>1, NamingExists DEF Naming
  <1>4. Naming(list, out, Len(list))
    BY <1>3 DEF Naming
  <1> HIDE DEF out
  <1>5. 0 \in S
    <2>1. out[0] = <<>>
      BY <1>1, <1>4 DEF Naming
    <2>2. Keys(list, 0) = {} /\ Keys(out[0], 0) = {} /\ Len(out[0]) = 0 /\ out[0] \in Seq(Name)
      BY <2>1 DEF Keys
    <2>3. Good(0)
      BY <2>2, FS_EmptySet
    <2> QED
      BY <2>3
  <1>6. ASSUME NEW n \in Nat, n \in S PROVE n + 1 \in S
    <2> SUFFICES ASSUME n + 1 <= Len(list) PROVE Good(n + 1)
      OBVIOUS
    <2>1. Good(n)
      BY <1>1, <1>6
    <2>2. out[n + 1] = AddName(out[n], list[n + 1])
      <3>1. n + 1 \in 0..Len(list) /\ n + 1 # 0 /\ (n + 1) - 1 = n
        BY <1>1
      <3> QED
        BY <1>4, <3>1 DEF Naming
    <2> QED
      BY <2>1, <2>2, AddNameAdds
  <1>7. Nat \subseteq S
    <2> HIDE DEF S
    <2> QED
      BY <1>5, <1>6, NatInd
  <1>8. Good(Len(list))
    BY <1>1, <1>7
  <1> QED
    BY <1>2, <1>8

-----------------------------------------------------------------------------
(* The loop over hosts and ports.                                            *)

\* Stages in which the run is at a host and port.
InPort == {"tlsa", "fetch", "resolve", "connect", "talk", "list", "publish"}

\* How many hosts and ports there are to go through.
Bound == IF run.cmd = "list" THEN Certificates + NPorts ELSE Len(hosts) * NPorts

\* The run is at one of its hosts and ports, or before the first, or past the last;
\* hosts of other zones have been left behind when a publisher is used.
HostsInv ==
    /\ run \in Runs
    /\ hosts \in Seq(Hosts \union {0}) /\ listed \in Seq(Name)
    /\ at \in Nat \ {0} /\ Len(results) = at - 1
    /\ stage \in {"start", "mx", "chosen", "listing"} => at = 1
    /\ stage \in {"mx", "chosen"} => run.mx
    /\ at > 1 => at - 1 <= Bound
    /\ stage \in InPort => at <= Bound
    /\ stage = "done" /\ run.cmd = "list" => at - 1 = Bound
    /\ run.cmd = "list" /\ (at > 1 \/ stage \notin {"start", "aborted"}) => hosts = <<0>>
    /\ run.publisher /\ stage \notin {"start", "mx", "chosen", "aborted"} =>
           \A i \in DOMAIN hosts : in_zone(hosts[i])
    /\ stage \in {"list", "publish"} => run.cmd # "list"
    /\ stage = "publish" => run.publisher
    /\ HostsChosen

\* What a step may do to the loop: nothing, or go on to a host and port, or to the next,
\* or end it; choose the hosts, or the names.
AtPort == stage \in InPort \/ (stage = "next" /\ Left)

Stays == UNCHANGED <<run, hosts, listed, at, results>>

LoopStep ==
    \/ Stays /\ ((stage' = stage /\ stage # "chosen") \/ stage' = "aborted")
    \/ Stays /\ stage = "next" /\ Left /\ stage' \in InPort \ {"list"}
       /\ (stage' = "publish" => run.cmd \in FromFile)
    \/ Stays /\ stage \in InPort /\ stage' \in InPort
       /\ (stage' \in {"list", "publish"} => run.cmd # "list")
       /\ (stage' = "publish" => run.publisher)
    \/ Stays /\ stage = "next" /\ ~Left /\ stage' = "done"
    \/ Stays /\ stage = "listing" /\ stage' = "next"
    \/ Stays /\ stage = "chosen" /\ stage' = "next"
       /\ (run.publisher => \A i \in DOMAIN hosts : in_zone(hosts[i]))
    \/ Stays /\ stage = "start" /\ stage' = "mx" /\ run.mx
    \/ /\ AtPort /\ UNCHANGED <<run, hosts, listed>>
       /\ at' = at + 1 /\ stage' = "next" /\ \E r : results' = Append(results, r)
    \/ /\ stage = "start" /\ stage' \in {"listing", "next"} /\ ~run.mx
       /\ hosts' = <<0>> /\ UNCHANGED <<run, listed, at, results>>
    \/ /\ MxAnswered
    \/ /\ stage = "listing" /\ stage' = "next" /\ UNCHANGED <<run, hosts, at, results>>
       /\ \E zone \in Zones : listed' = matching(zone, run.named, run.ports)

LEMMA ReportIsLoopStep ==
  ASSUME AtPort, NEW exit, NEW facts, Report(exit, facts)
  PROVE  LoopStep
  BY DEF Report, LoopStep

LEMMA FailIsLoopStep ==
  ASSUME AtPort, fail
  PROVE  LoopStep
  BY ReportIsLoopStep DEF fail

LEMMA EndIsLoopStep == Aborts \/ Stops => LoopStep
  BY DEF Aborts, Stops, LoopStep, Stays

LEMMA ToPublisherIsLoopStep ==
  ASSUME stage \in InPort, run.cmd # "list", ToPublisher
  PROVE  LoopStep
  <1>1. CASE run.publisher
    BY <1>1 DEF ToPublisher, LoopStep, Stays, keep, InPort
  <1>2. CASE ~run.publisher
    BY <1>2, ReportIsLoopStep DEF ToPublisher, AtPort
  <1> QED
    BY <1>1, <1>2

LEMMA EveryStepIsLoopStep ==
  ASSUME HostsInv, Next
  PROVE  LoopStep
  <1> USE DEF InPort
  <1>1. CASE Time \/ Talk \/ (stage = "talk" /\ Read_times_out /\ UNCHANGED <<stage, keep>>)
    BY <1>1 DEF Time, Talk, Blocked, keep, LoopStep, Stays
  <1>2. CASE Start
    BY <1>2 DEF Start, keep, LoopStep, Stays
  <1>3. CASE Chosen
    BY <1>3, EndIsLoopStep DEF Chosen, Publishable, LoopStep, Stays
  <1>4. CASE MxFails \/ ListingFails \/ NoCertificate \/ PublisherFails
    BY <1>4, EndIsLoopStep DEF MxFails, ListingFails, NoCertificate, PublisherFails
  <1>5. CASE Next_port
    <2>1. CASE fail
      BY <1>5, <2>1, FailIsLoopStep DEF Next_port, AtPort
    <2>2. CASE ~fail
      BY <1>5, <2>2 DEF Next_port, keep, LoopStep, Stays
    <2> QED
      BY <2>1, <2>2
  <1>6. CASE Finish
    BY <1>6 DEF Finish, LoopStep, Stays
  <1>7. CASE Fetch
    <2>1. CASE fail
      BY <1>7, <2>1, FailIsLoopStep DEF Fetch, AtPort
    <2>2. CASE ~fail
      BY <1>7, <2>2 DEF Fetch, keep, LoopStep, Stays
    <2> QED
      BY <2>1, <2>2
  <1>8. CASE TalkFailed \/ TlsaFails \/ ResolveFails \/ ConnectTimesOut
    BY <1>8, FailIsLoopStep DEF TalkFailed, TlsaFails, ResolveFails, ConnectTimesOut, AtPort
  <1>9. CASE Judge \/ TlsaListed \/ Kept \/ Published \/ NotManaged
    <2>1. AtPort /\ \E exit, facts : Report(exit, facts)
      BY <1>9 DEF Judge, TlsaListed, Kept, Published, NotManaged, AtPort
    <2> QED
      BY <2>1, ReportIsLoopStep
  <1>10. CASE Fetched
    <2>1. CASE ToPublisher
      BY <1>10, <2>1, ToPublisherIsLoopStep DEF Fetched
    <2>2. CASE ~ToPublisher
      BY <1>10, <2>2 DEF Fetched, keep, LoopStep, Stays
    <2> QED
      BY <2>1, <2>2
  <1>11. CASE Listed
    BY <1>11, ToPublisherIsLoopStep DEF Listed, HostsInv
  <1>12. CASE MxAnswered
    BY <1>12 DEF LoopStep
  <1>13. CASE TlsaAnswered
    BY <1>13 DEF TlsaAnswered, LoopStep, Stays
  <1>14. CASE Resolved
    <2>1. CASE fail
      BY <1>14, <2>1, FailIsLoopStep DEF Resolved, AtPort
    <2>2. CASE ~fail
      BY <1>14, <2>2 DEF Resolved, LoopStep, Stays
    <2> QED
      BY <2>1, <2>2
  <1>15. CASE Connects
    <2>1. CASE fail
      BY <1>15, <2>1, FailIsLoopStep DEF Connects, AtPort
    <2>2. CASE ~fail
      BY <1>15, <2>2 DEF Connects, keep, LoopStep, Stays
    <2> QED
      BY <2>1, <2>2
  <1>16. CASE Refused
    <2>1. CASE fail
      BY <1>16, <2>1, FailIsLoopStep DEF Refused, AtPort
    <2>2. CASE ~fail
      BY <1>16, <2>2 DEF Refused, LoopStep, Stays
    <2> QED
      BY <2>1, <2>2
  <1>17. CASE Unreadable
    BY <1>17, FailIsLoopStep, EndIsLoopStep DEF Unreadable, AtPort
  <1>18. CASE ListingRead
    BY <1>18 DEF ListingRead, LoopStep
  <1>19. CASE NoTransfer
    BY <1>19 DEF NoTransfer, keep, LoopStep, Stays
  <1> QED
    BY <1>1, <1>2, <1>3, <1>4, <1>5, <1>6, <1>7, <1>8, <1>9, <1>10, <1>11, <1>12, <1>13, <1>14,
       <1>15, <1>16, <1>17, <1>18, <1>19 DEF Next, Proceeds, TimesOut

LEMMA NPortsType ==
  ASSUME run \in Runs, listed \in Seq(Name)
  PROVE  /\ names \in Seq(Name) /\ ports \in Seq(Nat) /\ NPorts \in Nat
         /\ run.cmd = "list" => NPorts = Len(names)
         /\ run.cmd # "list" => ports = run.ports
         /\ run.publisher \in BOOLEAN /\ run.mx \in BOOLEAN
         /\ run.mx => run.cmd # "list"
  <1>1. run \in Commands /\ run.ports \in Seq(Nat) /\ run.named \in BOOLEAN
    BY VerifyAssumption DEF Commands
  <1>2. names \in Seq(Name)
    <2>1. CASE run.ports = <<>>
      BY <2>1, UniqueNames DEF names, dns_names
    <2>2. CASE run.ports # <<>>
      <3> DEFINE asked(i) == [owner |-> own(run.named), port |-> run.ports[i], upper |-> FALSE]
      <3>1. \A i \in 1..Len(run.ports) : asked(i) \in Name
        <4>1. own(run.named) \in Owners
          BY DEF own, Owners
        <4>2. \A i \in 1..Len(run.ports) : run.ports[i] \in Nat
          BY <1>1
        <4> QED
          BY <4>1, <4>2 DEF Name
      <3>2. names = [i \in 1..Len(run.ports) |-> asked(i)]
        BY <1>1, <2>2 DEF names, dns_names
      <3>3. Len(run.ports) \in Nat
        BY <1>1
      <3> HIDE DEF asked, names
      <3> QED
        BY <3>1, <3>2, <3>3
    <2> QED
      BY <2>1, <2>2
  <1>3. CASE run.cmd = "list"
    <2>1. ports = [i \in 1..Len(names) |-> names[i].port]
      BY <1>2, <1>3 DEF ports
    <2>2. \A i \in 1..Len(names) : names[i].port \in Nat
      <3>1. \A i \in 1..Len(names) : names[i] \in Name
        <4> HIDE DEF names
        <4> QED
          BY <1>2
      <3>2. \A name \in Name : name.port \in Nat
        BY DEF Name
      <3> QED
        BY <3>1, <3>2
    <2>3. ports \in Seq(Nat) /\ Len(ports) = Len(names)
      <3> HIDE DEF ports, names
      <3> QED
        BY <1>2, <2>1, <2>2
    <2>4. run.publisher \in BOOLEAN /\ run.mx \in BOOLEAN /\ ~run.mx
      BY <1>1, <1>3, VerifyAssumption DEF Commands
    <2>5. Len(ports) \in Nat
      <3> HIDE DEF ports
      <3> QED
        BY <2>3
    <2> QED
      BY <1>2, <1>3, <2>3, <2>4, <2>5 DEF NPorts
  <1>4. CASE run.cmd # "list"
    <2>1. ports = run.ports
      BY <1>4 DEF ports
    <2> QED
      BY <1>1, <1>2, <1>4, <2>1 DEF NPorts, Commands
  <1> QED
    BY <1>3, <1>4

LEMMA BoundType ==
  ASSUME HostsInv
  PROVE  NPorts \in Nat /\ Certificates \in Nat /\ Len(hosts) \in Nat /\ Bound \in Nat
  <1>1. NPorts \in Nat /\ Len(hosts) \in Nat
    BY NPortsType DEF HostsInv
  <1>2. Len(hosts) * NPorts \in Nat
    BY <1>1
  <1> QED
    BY <1>1, <1>2 DEF Certificates, Bound

\* The number of hosts and ports is as it was.
LEMMA BoundStays ==
  ASSUME UNCHANGED <<run, hosts, listed>>
  PROVE  Bound' = Bound /\ NPorts' = NPorts /\ Certificates' = Certificates
  BY DEF Bound, Certificates, NPorts, ports, names

LEMMA HostsStep ==
  ASSUME HostsInv, results \in Seq(Result), LoopStep
  PROVE  HostsInv'
  <1> USE DEF HostsInv, InPort
  <1>0. Bound \in Nat /\ (UNCHANGED <<run, hosts, listed>> => Bound' = Bound)
    BY BoundType, BoundStays
  <1>1. Left => at <= Bound /\ (run.cmd \in FromFile => run.publisher)
    BY DEF Left, Bound
  <1>2. run.mx => run.cmd # "list"
    BY NPortsType
  <1> HIDE DEF InPort
  <1>3. CASE Stays /\ stage' \in {stage, "aborted"} /\ stage' # "chosen"
    BY <1>0, <1>3 DEF Stays, HostsChosen, InPort
  <1>4. CASE Stays /\ stage = "next" /\ Left /\ stage' \in InPort \ {"list"}
             /\ (stage' = "publish" => run.cmd \in FromFile)
    <2>1. Bound' = Bound /\ at <= Bound
      BY <1>0, <1>1, <1>4 DEF Stays
    <2>2. stage' \in InPort /\ stage' # "list" /\ (stage' = "publish" => run.publisher /\ run.cmd # "list")
      BY <1>1, <1>4 DEF FromFile
    <2> QED
      BY <1>4, <2>1, <2>2 DEF Stays, HostsChosen, InPort
  <1>5. CASE Stays /\ stage \in InPort /\ stage' \in InPort
             /\ (stage' \in {"list", "publish"} => run.cmd # "list")
             /\ (stage' = "publish" => run.publisher)
    BY <1>0, <1>5 DEF Stays, HostsChosen, InPort
  <1>6. CASE Stays /\ stage = "next" /\ ~Left /\ stage' = "done"
    <2>1. ASSUME run.cmd = "list" PROVE at > Bound
      <3>1. Left <=> at <= Bound
        BY <2>1 DEF Left, Bound, FromFile
      <3> QED
        BY <1>0, <1>6, <3>1
    <2> QED
      BY <1>0, <1>6, <2>1 DEF Stays, HostsChosen, InPort
  <1>7. CASE Stays /\ stage = "listing" /\ stage' = "next"
    BY <1>0, <1>7 DEF Stays, HostsChosen, InPort
  <1>8. CASE Stays /\ stage = "chosen" /\ stage' = "next"
             /\ (run.publisher => \A i \in DOMAIN hosts : in_zone(hosts[i]))
    BY <1>0, <1>2, <1>8 DEF Stays, HostsChosen, InPort
  <1>9. CASE Stays /\ stage = "start" /\ stage' = "mx" /\ run.mx
    BY <1>0, <1>2, <1>9 DEF Stays, HostsChosen, InPort
  <1>10. CASE /\ AtPort /\ UNCHANGED <<run, hosts, listed>>
              /\ at' = at + 1 /\ stage' = "next" /\ \E r : results' = Append(results, r)
    <2>1. Bound' = Bound /\ at <= Bound
      BY <1>0, <1>1, <1>10 DEF AtPort
    <2>2. Len(results') = at' - 1
      BY <1>10
    <2> QED
      BY <1>10, <2>1, <2>2 DEF AtPort, HostsChosen, InPort
  <1>11. CASE /\ stage = "start" /\ stage' \in {"listing", "next"} /\ ~run.mx
              /\ hosts' = <<0>> /\ UNCHANGED <<run, listed, at, results>>
    <2>1. hosts' \in Seq(Hosts \union {0}) /\ \A i \in DOMAIN hosts' : in_zone(hosts'[i])
      BY <1>11 DEF in_zone
    <2> QED
      BY <1>11, <2>1 DEF HostsChosen, InPort
  <1>12. CASE MxAnswered
    <2>1. PICK a \in MxAnswers :
              /\ answer' = a
              /\ hosts' = [i \in DOMAIN normalize_mx(a) |-> normalize_mx(a)[i].host]
      BY <1>12 DEF MxAnswered
    <2>2. a \in Seq(MxRecord)
      BY VerifyAssumption DEF MxAnswers
    <2>3. hosts' \in Seq(Hosts \union {0}) /\ Chooses(a, hosts')
      BY <2>1, <2>2, NormalizeChooses
    <2>4. HostsChosen'
      <3>1. Chooses(answer', hosts')
        BY <2>1, <2>3
      <3> QED
        BY <3>1, Zenon DEF HostsChosen, Chooses
    <2>5. stage = "mx" /\ stage' = "chosen" /\ UNCHANGED <<run, listed, at, results>>
      BY <1>12 DEF MxAnswered
    <2> QED
      BY <1>2, <2>3, <2>4, <2>5 DEF InPort
  <1>13. CASE /\ stage = "listing" /\ stage' = "next" /\ UNCHANGED <<run, hosts, at, results>>
              /\ \E zone \in Zones : listed' = matching(zone, run.named, run.ports)
    <2>1. listed' \in Seq(Name)
      BY <1>13, MatchingType, VerifyAssumption
    <2> QED
      BY <1>13, <2>1 DEF HostsChosen, InPort
  <1> QED
    BY <1>3, <1>4, <1>5, <1>6, <1>7, <1>8, <1>9, <1>10, <1>11, <1>12, <1>13 DEF LoopStep

LEMMA HostsInit == Init => HostsInv
  BY DEF Init, HostsInv, InPort, HostsChosen

LEMMA HostsNext ==
  ASSUME ExitInv, HostsInv, [Next]_vars
  PROVE  HostsInv'
  <1>1. CASE UNCHANGED vars
    <2>1. UNCHANGED <<run, stage, answer, hosts, listed, at, results>>
      BY <1>1 DEF vars
    <2>2. HostsChosen' <=> HostsChosen
      BY <2>1 DEF HostsChosen
    <2>3. Bound' = Bound
      BY <2>1, BoundStays
    <2> QED
      BY <2>1, <2>2, <2>3 DEF HostsInv
  <1>2. CASE Next
    BY <1>2, EveryStepIsLoopStep, HostsStep DEF ExitInv
  <1> QED
    BY <1>1, <1>2

\* The loop stays within the hosts and ports of the run, and hosts and names are what
\* the answer and the listing make them, for answers and listings of any length.
THEOREM HostsInvariance == Spec => [](ExitInv /\ HostsInv)
  <1>1. Init => ExitInv /\ HostsInv
    BY ExitInit, HostsInit
  <1>2. ExitInv /\ HostsInv /\ [Next]_vars => (ExitInv /\ HostsInv)'
    BY ExitNext, HostsNext
  <1> QED
    BY <1>1, <1>2, PTL DEF Spec

\* --mx goes through each host of the MX answer once, in whatever spellings and however
\* often it is there, by the lowest preference of its records (normalize_mx).
THEOREM HostsChosenHolds == Spec => []HostsChosen
  <1>1. HostsInv => HostsChosen
    BY DEF HostsInv
  <1> QED
    BY <1>1, HostsInvariance, PTL

\* The host that the run is at is one of its hosts.
LEMMA HostIsOne ==
  ASSUME HostsInv, stage \in InPort, run.cmd # "list"
  PROVE  ((at - 1) \div NPorts) + 1 \in DOMAIN hosts
  <1>1. NPorts \in Nat /\ Len(hosts) \in Nat /\ at \in Nat \ {0} /\ at <= Len(hosts) * NPorts
    BY BoundType DEF HostsInv, Bound
  <1> DEFINE n == NPorts
             l == Len(hosts)
  <1>2. DOMAIN hosts = 1..l
    BY DEF HostsInv
  <1> HIDE DEF n, l
  <1>3. n \in Nat /\ l \in Nat /\ at \in Nat \ {0} /\ at <= l * n
    BY <1>1 DEF n, l
  <1>4. n > 0
    BY <1>3
  <1>5. (at - 1) \div n \in 0..(l - 1)
    BY <1>3, <1>4
  <1>6. ((at - 1) \div n) + 1 \in 1..l
    BY <1>3, <1>5
  <1> QED
    BY <1>2, <1>6 DEF n

\* With a publisher no exchange outside the zone is written for, wherever it is among
\* the hosts (require_targets_in_zone_for_publish).
THEOREM WritesInZoneHolds == Spec => []WritesInZone
  <1>1. HostsInv => WritesInZone
    <2> SUFFICES ASSUME HostsInv, stage = "publish" PROVE in_zone(host)
      BY DEF WritesInZone
    <2>1. run.publisher /\ run.cmd # "list" /\ \A i \in DOMAIN hosts : in_zone(hosts[i])
      BY DEF HostsInv
    <2>2. ((at - 1) \div NPorts) + 1 \in DOMAIN hosts
      BY <2>1, HostIsOne DEF InPort
    <2> QED
      BY <2>1, <2>2 DEF host
  <1> QED
    BY <1>1, HostsInvariance, PTL

\* A list looks up each name of the listing once, in whatever spellings it is there
\* (unique_names), and leaves none out for what becomes of the others.
THEOREM NamesLookedUpHolds == Spec => []NamesLookedUp
  <1>1. HostsInv => NamesLookedUp
    <2> SUFFICES ASSUME HostsInv, stage = "done", run.cmd = "list", run.ports = <<>>
                 PROVE  Cardinality({<<listed[i].owner, listed[i].port>> : i \in DOMAIN listed})
                            = Len(results) - Certificates
      BY DEF NamesLookedUp
    <2>1. listed \in Seq(Name) /\ at \in Nat \ {0} /\ Len(results) = at - 1
          /\ at - 1 = Certificates + NPorts
      BY DEF HostsInv, Bound
    <2>2. NPorts = Len(unique_names(listed)) /\ Certificates \in Nat /\ NPorts \in Nat
      <3>1. names = unique_names(listed)
        BY DEF names, dns_names
      <3> QED
        BY <3>1, NPortsType, BoundType DEF HostsInv
    <2>3. {<<listed[i].owner, listed[i].port>> : i \in DOMAIN listed} = Keys(listed, Len(listed))
      BY <2>1 DEF Keys, Key
    <2>4. Cardinality(Keys(listed, Len(listed))) = NPorts
      BY <2>1, <2>2, UniqueNames
    <2>5. NPorts = Len(results) - Certificates
      BY <2>1, <2>2
    <2> QED
      BY <2>3, <2>4, <2>5, Zenon
  <1> QED
    BY <1>1, HostsInvariance, PTL

-----------------------------------------------------------------------------
(* Types.                                                                    *)

Stages == {"start", "mx", "chosen", "next", "tlsa", "fetch", "resolve", "connect",
           "talk", "list", "publish", "listing", "done", "aborted"}

\* The types of what the dialogue, the exit code and the loop say nothing of; while a
\* connection is tried there is an address to try.
TypesInv ==
    /\ stage \in Stages
    /\ mx \in Verdicts /\ dnssec \in Verdicts /\ dns \in SUBSET Matches
    /\ addrs \in 0..MaxAddrs /\ code \in Exits
    /\ ~Blocked => wait = 0
    /\ stage = "connect" => addrs # 0

\* worst_dnssec returns one of the proofs.
LEMMA WorstProof ==
  ASSUME NEW proofs \in SUBSET DnssecStatus
  PROVE  worst_dnssec(proofs) \in Verdicts
  <1>1. CASE proofs = {}
    BY <1>1 DEF worst_dnssec, Verdicts
  <1>2. CASE proofs # {}
    <2> DEFINE Worst(p) == \A q \in proofs : severity(q) <= severity(p)
    <2>1. /\ severity("secure") = 0 /\ severity("insecure") = 1
          /\ severity("indeterminate") = 2 /\ severity("bogus") = 3
      BY DEF severity
    <2>2. \A p \in proofs : p = "secure" \/ p = "insecure" \/ p = "indeterminate" \/ p = "bogus"
      BY DEF DnssecStatus
    <2>3. \E p \in proofs : Worst(p)
      <3> HIDE DEF Worst
      <3>1. CASE "bogus" \in proofs
        BY <2>1, <2>2, <3>1 DEF Worst
      <3>2. CASE "bogus" \notin proofs /\ "indeterminate" \in proofs
        BY <2>1, <2>2, <3>2 DEF Worst
      <3>3. CASE "bogus" \notin proofs /\ "indeterminate" \notin proofs /\ "insecure" \in proofs
        BY <2>1, <2>2, <3>3 DEF Worst
      <3>4. CASE "bogus" \notin proofs /\ "indeterminate" \notin proofs /\ "insecure" \notin proofs
        BY <1>2, <2>1, <2>2, <3>4 DEF Worst
      <3> QED
        BY <3>1, <3>2, <3>3, <3>4
    <2>4. worst_dnssec(proofs) \in proofs
      BY <1>2, <2>3 DEF worst_dnssec
    <2> QED
      BY <2>4 DEF Verdicts
  <1> QED
    BY <1>1, <1>2

LEMMA ReportTypes ==
  ASSUME TypesInv, NEW exit \in Exits, NEW facts, Report(exit, facts)
  PROVE  TypesInv'
  <1>1. code' \in Exits
    BY DEF Report, code_after, TypesInv
  <1>2. mx' \in Verdicts /\ dnssec' \in Verdicts /\ dns' \in SUBSET Matches /\ addrs' \in 0..MaxAddrs
    BY VerifyAssumption DEF Report, TypesInv, Verdicts
  <1>3. stage' \in Stages /\ stage' # "connect" /\ wait' = 0
    BY DEF Report, Stages
  <1> QED
    BY <1>1, <1>2, <1>3 DEF TypesInv

LEMMA FailTypes ==
  ASSUME TypesInv, fail
  PROVE  TypesInv'
  <1>1. apply_dnssec(verify_outcome(FALSE, {}), mx) = 3
    BY DEF apply_dnssec, verify_outcome
  <1>2. 0 \in Exits /\ 1 \in Exits /\ 3 \in Exits
    BY DEF Exits
  <1>3. Report(3, 3) \/ Report(0, 0) \/ Report(1, 1)
    BY <1>1 DEF fail
  <1> QED
    BY <1>2, <1>3, ReportTypes

LEMMA EndTypes ==
  ASSUME TypesInv, Aborts \/ Stops
  PROVE  TypesInv'
  BY DEF TypesInv, Aborts, Stops, Stages, Exits

\* Nothing of it changes but the stage, and a call is under way or none is.
LEMMA GoesOnTypes ==
  ASSUME TypesInv, UNCHANGED <<mx, dnssec, dns, addrs, code>>, stage' \in Stages,
         ~Blocked' => wait' = 0, stage' = "connect" => stage = "connect"
  PROVE  TypesInv'
  BY DEF TypesInv

LEMMA ToPublisherTypes ==
  ASSUME TypesInv, ToPublisher
  PROVE  TypesInv'
  <1>1. CASE run.publisher
    <2>1. UNCHANGED <<mx, dnssec, dns, addrs, code>> /\ stage' = "publish" /\ wait' = 0
      BY <1>1 DEF ToPublisher, keep
    <2> QED
      BY <2>1, GoesOnTypes DEF Stages
  <1>2. CASE ~run.publisher
    <2>1. Report(0, 0) /\ 0 \in Exits
      BY <1>2 DEF ToPublisher, Exits
    <2> QED
      BY <2>1, ReportTypes
  <1> QED
    BY <1>1, <1>2

\* A step of the connection ends the wait if it ends the dialogue.
LEMMA ConnectionTypes ==
  ASSUME TypesInv, WireInv, stage = "talk", Connection, UNCHANGED <<stage, keep>>
  PROVE  TypesInv'
  <1> SUFFICES Reading' \/ wait' = 0
    BY GoesOnTypes DEF keep, Blocked, TypesInv
  <1>1. CASE Read
    <2> DEFINE next == negotiate(Head(wire))
    <2>1. talk \in Talks_of(proto) /\ proto \in Protocols /\ lines \in 0..MaxLines
          /\ wire \in Seq(Replies(proto)) /\ (proto = "imap" => lines < MaxLines)
      BY <1>1 DEF Read, Reading, WireInv, DialogueInv, ConnTypeOK
    <2>2. Head(wire) \in Replies(proto)
      BY <1>1, <2>1, HeadType DEF Read
    <2>3. next.talk \in Talks_of(proto) \union {Tls, Failed}
      BY <2>1, <2>2, NegotiateType
    <2>4. Closed \notin Talks_of(proto) \union {Tls} /\ Up \notin Talks_of(proto) \union {Tls}
      BY <2>1 DEF Talks_of, Waits_of, Elements, Protocols, Closed, Up, Tls
    <2>5. CASE talk' = Failed
      BY <1>1, <2>5 DEF Read
    <2>6. CASE talk' # Failed
      <3>1. talk' = next.talk
        BY <1>1, <2>6 DEF Read
      <3> QED
        BY <2>3, <2>4, <2>6, <3>1 DEF Reading
    <2> QED
      BY <2>5, <2>6
  <1>2. CASE ReadPart
    BY <1>2 DEF ReadPart, Reading
  <1>3. CASE Handshake \/ Handshake_fails \/ Cut \/ Read_times_out
    BY <1>3 DEF Handshake, Handshake_fails, Cut, Read_times_out, Gives_up
  <1>4. CASE HonestServer \/ OtherServer
    BY <1>4 DEF HonestServer, OtherServer, Reading
  <1> QED
    BY <1>1, <1>2, <1>3, <1>4 DEF Connection

LEMMA TimeTypes ==
  ASSUME TypesInv, Time
  PROVE  TypesInv'
  <1>1. CASE Blocked /\ Waits /\ UNCHANGED <<conn, stage, keep>>
    <2>1. Blocked' = Blocked
      BY <1>1 DEF Blocked, Reading, conn
    <2> QED
      BY <1>1, <2>1, GoesOnTypes DEF keep, TypesInv
  <1>2. CASE stage \in {"publish", "listing"} /\ Lingers /\ UNCHANGED <<conn, stage, keep>>
    <2>1. ~Blocked
      BY <1>2 DEF Blocked
    <2> QED
      BY <1>2, <2>1, GoesOnTypes DEF keep, TypesInv, Lingers
  <1> QED
    BY <1>1, <1>2 DEF Time

LEMMA EveryStepTypes ==
  ASSUME TypesInv, BudgetInv, WireInv, ExitInv, Next
  PROVE  TypesInv'
  <1>1. CASE Time
    BY <1>1, TimeTypes
  <1>2. CASE stage = "talk" /\ Connection /\ UNCHANGED <<stage, keep>>
    BY <1>2, ConnectionTypes
  <1>3. CASE MxFails \/ ListingFails \/ NoCertificate \/ PublisherFails
    BY <1>3, EndTypes DEF MxFails, ListingFails, NoCertificate, PublisherFails
  <1>4. CASE TalkFailed \/ TlsaFails \/ ResolveFails \/ ConnectTimesOut \/ Unreadable
    BY <1>4, FailTypes, EndTypes DEF TalkFailed, TlsaFails, ResolveFails, ConnectTimesOut, Unreadable
  <1>5. CASE TlsaListed \/ Kept \/ Published \/ NotManaged
    <2>1. Report(0, 0) \/ Report(1, 1)
      BY <1>5 DEF TlsaListed, Kept, Published, NotManaged
    <2> QED
      BY <2>1, ReportTypes DEF Exits
  <1>6. CASE Judge
    <2>1. PICK days \in Days, early \in BOOLEAN :
              Report(FactsExit(days, early), FactsExit(days, early))
      <3>1. Days \subseteq Int
        BY VerdictAssumption DEF Days
      <3> QED
        BY <1>6, <3>1, VerdictByFacts DEF Judge
    <2>2. FactsExit(days, early) \in Exits
      BY VerdictAssumption, FactsAreExits DEF Days
    <2> QED
      BY <2>1, <2>2, ReportTypes
  <1>7. CASE Start \/ ListingRead \/ NoTransfer
    <2>1. UNCHANGED <<mx, dnssec, dns, addrs, code>> /\ stage' \in {"mx", "listing", "next"}
      BY <1>7 DEF Start, ListingRead, NoTransfer, keep
    <2>2. stage' # "mx" => wait' = wait /\ wait = 0
      BY <1>7 DEF Start, ListingRead, NoTransfer, BudgetInv, Unarmed
    <2> QED
      BY <2>1, <2>2, GoesOnTypes DEF Stages, Blocked
  <1>8. CASE Chosen
    <2>1. CASE Stops
      BY <2>1, EndTypes
    <2>2. CASE ~Stops
      <3>1. UNCHANGED <<mx, dnssec, dns, addrs, code>> /\ stage' = "next" /\ wait' = 0
        BY <1>8, <2>2 DEF Chosen, BudgetInv, Unarmed
      <3> QED
        BY <3>1, GoesOnTypes DEF Stages
    <2> QED
      BY <2>1, <2>2
  <1>9. CASE Next_port \/ Fetch
    <2>1. CASE fail
      BY <2>1, FailTypes
    <2>2. CASE ~fail
      <3>1. UNCHANGED <<mx, dnssec, dns, addrs, code>>
        BY <1>9, <2>2 DEF Next_port, Fetch, keep
      <3>2. stage' \in {"fetch", "publish", "tlsa", "resolve"}
        BY <1>9, <2>2 DEF Next_port, Fetch
      <3>3. stage' \in {"fetch", "publish"} => wait' = wait /\ wait = 0
        BY <1>9, <2>2 DEF Next_port, Fetch, BudgetInv, Unarmed
      <3> QED
        BY <3>1, <3>2, <3>3, GoesOnTypes DEF Stages, Blocked
    <2> QED
      BY <2>1, <2>2
  <1>10. CASE Finish
    <2>1. code' \in Exits
      <3>1. {results[i].exit : i \in DOMAIN results} \in SUBSET Exits
        <4>1. \A i \in DOMAIN results : results[i] \in Result
          BY DEF ExitInv
        <4> QED
          BY <4>1 DEF Result
      <3>2. worst_verify_exit({results[i].exit : i \in DOMAIN results}) \in {0, 1, 2, 3}
        BY <3>1, WorstExit
      <3> QED
        BY <1>10, <3>2 DEF Finish, TypesInv, Exits
    <2>2. UNCHANGED <<mx, dnssec, dns, addrs>> /\ stage' = "done" /\ wait' = 0
      BY <1>10 DEF Finish, BudgetInv, Unarmed
    <2> QED
      BY <2>1, <2>2 DEF TypesInv, Stages
  <1>11. CASE Fetched \/ Listed
    <2>1. CASE ToPublisher
      BY <2>1, ToPublisherTypes
    <2>2. CASE ~ToPublisher
      <3>1. UNCHANGED <<mx, dnssec, dns, addrs, code>> /\ stage' = "list"
        BY <1>11, <2>2 DEF Fetched, Listed, keep
      <3> QED
        BY <3>1, GoesOnTypes DEF Stages, Blocked
    <2> QED
      BY <2>1, <2>2
  <1>12. CASE MxAnswered
    <2>1. PICK a \in MxAnswers : mx' = IF run.cmd # "verify" \/ run.dnssec THEN mx_verdict(a) ELSE "none"
      BY <1>12 DEF MxAnswered
    <2>2. {a[i].proof : i \in DOMAIN a} \in SUBSET DnssecStatus
      <3>1. \A i \in DOMAIN a : a[i] \in MxRecord
        BY <2>1 DEF MxAnswers
      <3> QED
        BY <3>1, VerifyAssumption DEF MxRecord
    <2>3. mx' \in Verdicts
      BY <2>1, <2>2, WorstProof DEF mx_verdict, Verdicts
    <2>4. UNCHANGED <<dnssec, dns, addrs, code>> /\ stage' = "chosen" /\ wait' = 0
      BY <1>12 DEF MxAnswered
    <2> QED
      BY <2>3, <2>4 DEF TypesInv, Stages
  <1>13. CASE TlsaAnswered
    <2>1. dns' \in SUBSET Matches /\ dnssec' \in Verdicts
      BY <1>13, VerifyAssumption DEF TlsaAnswered, Verdicts
    <2>2. UNCHANGED <<mx, addrs, code>> /\ stage' = "fetch" /\ wait' = 0
      BY <1>13 DEF TlsaAnswered
    <2> QED
      BY <2>1, <2>2 DEF TypesInv, Stages
  <1>14. CASE Resolved \/ Refused
    <2>1. CASE fail
      BY <2>1, FailTypes
    <2>2. CASE ~fail
      <3>1. addrs' \in 1..MaxAddrs
        <4>1. CASE Resolved
          BY <2>2, <4>1 DEF Resolved
        <4>2. CASE Refused
          BY <2>2, <4>2, VerifyAssumption DEF Refused, TypesInv
        <4> QED
          BY <1>14, <4>1, <4>2
      <3>2. UNCHANGED <<mx, dnssec, dns, code>> /\ stage' = "connect"
        BY <1>14, <2>2 DEF Resolved, Refused
      <3> QED
        BY <3>1, <3>2 DEF TypesInv, Stages, Blocked
    <2> QED
      BY <2>1, <2>2
  <1>15. CASE Connects
    <2>1. CASE fail
      BY <2>1, FailTypes
    <2>2. CASE ~fail
      <3>1. UNCHANGED <<mx, dnssec, dns, addrs, code>> /\ stage' = "talk" /\ Connected(resolve(port))
        BY <1>15, <2>2 DEF Connects, keep
      <3>2. resolve(port) \in Protocols
        BY VerifyAssumption DEF WireInv, resolve, for_port, Protocols, Commands
      <3>3. Opening(resolve(port)) \notin {Closed, Up, Failed}
        BY <3>2 DEF Opening, Protocols, Closed, Up, Failed, Tls
      <3> QED
        BY <3>1, <3>3, GoesOnTypes DEF Connected, Reading, Stages, Blocked
    <2> QED
      BY <2>1, <2>2
  <1> QED
    BY <1>1, <1>2, <1>3, <1>4, <1>5, <1>6, <1>7, <1>8, <1>9, <1>10, <1>11, <1>12, <1>13, <1>14,
       <1>15 DEF Next, Proceeds, TimesOut, Talk, Connection

\* All that the parts of a run are known to be.
RunInv == BudgetInv /\ WireInv /\ ExitInv /\ HostsInv /\ TypesInv

LEMMA TypesInit == Init => TypesInv
  BY VerifyAssumption DEF Init, TypesInv, Stages, Verdicts, Exits

LEMMA TypesNext ==
  ASSUME BudgetInv, WireInv, ExitInv, TypesInv, [Next]_vars
  PROVE  TypesInv'
  <1>1. CASE UNCHANGED vars
    <2>1. UNCHANGED <<mx, dnssec, dns, addrs, code, stage, wait, talk>>
      BY <1>1 DEF vars, conn
    <2>2. Blocked' = Blocked
      BY <2>1 DEF Blocked, Reading
    <2> QED
      BY <2>1, <2>2 DEF TypesInv
  <1> QED
    BY <1>1, EveryStepTypes

\* A list goes through the ports twice at most, and has one host.
LEMMA AtType ==
  ASSUME HostsInv
  PROVE  at \in 1..(2 * Len(hosts) * NPorts + 1)
  <1>1. NPorts \in Nat /\ Certificates \in Nat /\ Len(hosts) \in Nat /\ at \in Nat \ {0}
    BY BoundType DEF HostsInv
  <1> DEFINE all == 2 * Len(hosts) * NPorts
  <1>2. all \in Nat
    BY <1>1
  <1>3. ASSUME at > 1 PROVE at - 1 <= all
    <2>1. at - 1 <= Bound
      BY <1>3 DEF HostsInv
    <2>2. CASE run.cmd = "list"
      <3>1. Len(hosts) = 1 /\ Bound = Certificates + NPorts
        BY <1>3, <2>2 DEF HostsInv, Bound
      <3>2. all = 2 * NPorts
        BY <1>1, <3>1
      <3>3. Certificates <= NPorts
        BY <1>1 DEF Certificates
      <3> HIDE DEF all
      <3> QED
        BY <1>1, <2>1, <3>1, <3>2, <3>3
    <2>3. CASE run.cmd # "list"
      <3> DEFINE one == Len(hosts) * NPorts
      <3>1. Bound = one
        BY <2>3 DEF Bound
      <3>2. one \in Nat
        BY <1>1
      <3>3. all = 2 * one
        BY <1>1
      <3> HIDE DEF all, one
      <3> QED
        BY <1>1, <2>1, <3>1, <3>2, <3>3
    <2> QED
      BY <2>2, <2>3
  <1> HIDE DEF all
  <1>4. at \in 1..(all + 1)
    BY <1>1, <1>2, <1>3
  <1> QED
    BY <1>4 DEF all

\* All of it has the type it should have.
THEOREM VerifyTypesHold == Spec => []TypeOK
  <1>1. Init => RunInv
    BY BudgetInit, WireInit, ExitInit, HostsInit, TypesInit DEF RunInv
  <1>2. RunInv /\ [Next]_vars => RunInv'
    BY BudgetNext, WireNext, ExitNext, HostsNext, TypesNext DEF RunInv
  <1>3. RunInv => TypeOK
    <2> SUFFICES ASSUME RunInv PROVE TypeOK
      OBVIOUS
    <2>1. ConnTypeOK /\ (talk = Closed) = (stage # "talk") /\ run \in Runs
      BY DEF RunInv, WireInv, ArmedInv, DialogueInv
    <2>2. elapsed \in 0..Limit /\ wait \in 0..Limit
      BY TimeoutAssumption DEF RunInv, BudgetInv, WithinBudget
    <2>3. hosts \in Seq(Hosts \union {0}) /\ listed \in Seq(Name) /\ Len(results) = at - 1
      BY DEF RunInv, HostsInv
    <2>4. at \in 1..(2 * Len(hosts) * NPorts + 1)
      BY AtType DEF RunInv
    <2>5. \A i \in DOMAIN results : results[i] \in Result
      BY DEF RunInv, ExitInv
    <2>6. /\ stage \in Stages /\ mx \in Verdicts /\ dnssec \in Verdicts /\ dns \subseteq Matches
          /\ addrs \in 0..MaxAddrs /\ code \in Exits /\ (~Blocked => wait = 0)
      BY DEF RunInv, TypesInv
    <2> QED
      BY <2>1, <2>2, <2>3, <2>4, <2>5, <2>6 DEF TypeOK, Stages
  <1> QED
    BY <1>1, <1>2, <1>3, PTL DEF Spec
=============================================================================
