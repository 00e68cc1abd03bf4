--------------------------- MODULE SequenceFacts ---------------------------
(***************************************************************************)
(* Facts about numbers and sequences that the proofs of several components *)
(* rest on.                                                                *)
(***************************************************************************)
EXTENDS Integers, Sequences, SequencesExt, FiniteSetTheorems, SequenceTheorems,
        WellFoundedInduction, TLAPS

\* A non-empty set of numbers has a least element: what the inductions below use.
LEMMA LeastNumber ==
  ASSUME NEW S \in SUBSET Nat, S # {}
  PROVE  \E m \in S : \A k \in S : m <= k
<1>1. PICK m \in S : \A k \in S : ~(<<k, m>> \in OpToRel(<, Nat))
  BY NatLessThanWellFounded, WFMin
<1>2. \A k \in S : ~(k < m)
  BY <1>1 DEF OpToRel
<1> QED
  BY <1>2

\* A non-empty set of numbers up to n has a greatest element.
LEMMA GreatestNumber ==
  ASSUME NEW n \in Nat, NEW S \in SUBSET (0..n), S # {}
  PROVE  \E m \in S : \A k \in S : k <= m
<1> DEFINE D == {n - i : i \in S}
<1>1. D \in SUBSET Nat /\ D # {}
  <2>1. \A i \in S : n - i \in Nat
    OBVIOUS
  <2>2. D \in SUBSET Nat
    BY <2>1
  <2>3. PICK i : i \in S
    OBVIOUS
  <2>4. n - i \in D
    BY <2>3
  <2> QED
    BY <2>2, <2>4
<1>2. PICK d \in D : \A k \in D : d <= k
  <2> HIDE DEF D
  <2> QED
    BY <1>1, LeastNumber
<1>3. PICK m \in S : d = n - m
  OBVIOUS
<1>4. ASSUME NEW k \in S PROVE k <= m
  <2>1. n - m <= n - k
    BY <1>2, <1>3
  <2> QED
    BY <2>1
<1> QED
  BY <1>4

\* Counting up: a set with 0 that has i with i - 1 has every number up to n.
LEMMA CountUp ==
  ASSUME NEW n \in Nat, NEW G, 0 \in G, \A i \in 1..n : i - 1 \in G => i \in G
  PROVE  \A i \in 0..n : i \in G
<1> DEFINE S == {i \in 0..n : i \notin G}
<1> SUFFICES ASSUME S # {} PROVE FALSE
  OBVIOUS
<1>1. S \in SUBSET Nat
  OBVIOUS
<1>2. PICK m \in S : \A k \in S : m <= k
  <2> HIDE DEF S
  <2> QED
    BY <1>1, LeastNumber
<1>3. m \in 1..n
  OBVIOUS
<1>4. m - 1 \in G
  BY <1>2, <1>3
<1> QED
  BY <1>3, <1>4

\* A finite set of numbers, if it is not empty, has a greatest one.
LEMMA GreatestOfFinite ==
  ASSUME NEW S \in SUBSET Nat, IsFiniteSet(S), S # {}
  PROVE  \E m \in S : \A k \in S : k <= m
<1>1. PICK s \in Seq(S) : \A x \in S : \E i \in 1..Len(s) : s[i] = x
  BY DEF IsFiniteSet
<1> DEFINE n == Len(s)
           G == {k \in 0..n : \E m \in Nat : \A i \in 1..k : s[i] <= m}
<1>2. n \in Nat /\ \A i \in 1..n : s[i] \in S
  BY LenProperties, ElementOfSeq
<1> HIDE DEF n
<1>3. 0 \in G
  BY <1>2
<1>4. \A k \in 1..n : k - 1 \in G => k \in G
  <2> SUFFICES ASSUME NEW k \in 1..n, k - 1 \in G PROVE k \in G
    OBVIOUS
  <2>1. PICK m \in Nat : \A i \in 1..(k - 1) : s[i] <= m
    BY DEF G
  <2> DEFINE b == IF s[k] > m THEN s[k] ELSE m
  <2>2. k \in 1..k /\ \A i \in 1..k : s[i] \in Nat
    <3>1. k \in 1..k /\ \A i \in 1..k : i \in 1..n
      BY <1>2
    <3>2. \A x \in S : x \in Nat
      OBVIOUS
    <3> QED
      BY <1>2, <3>1, <3>2
  <2>3. b \in Nat /\ m <= b /\ s[k] <= b
    BY <2>2
  <2>4. \A i \in 1..k : i = k \/ i \in 1..(k - 1)
    BY <1>2
  <2> HIDE DEF b
  <2>5. \A i \in 1..k : s[i] <= b
    BY <2>1, <2>2, <2>3, <2>4
  <2> QED
    BY <1>2, <2>3, <2>5
<1> HIDE DEF G
<1>5. \A k \in 0..n : k \in G
  BY <1>2, <1>3, <1>4, CountUp
<1>6. PICK m \in Nat : \A i \in 1..n : s[i] <= m
  <2>1. n \in G
    BY <1>2, <1>5
  <2> QED
    BY <2>1 DEF G
<1>7. S \in SUBSET (0..m)
  <2>1. \A x \in S : x \in Nat /\ \E i \in 1..n : s[i] = x
    BY <1>1 DEF n
  <2>2. \A x \in S : x \in Nat /\ x <= m
    BY <1>6, <2>1
  <2> QED
    BY <2>2
<1> QED
  BY <1>7, GreatestNumber

\* g[i] is the i-th step on T, and f the run of the steps from x.
IsSteps(g, n, T) == g \in [1..n -> [T -> T]]
IsRun(f, g, x, n, T) == f \in [0..n -> T] /\ f[0] = x /\ \A i \in 1..n : f[i] = g[i][f[i - 1]]

\* Steps have a run.
LEMMA RunExists ==
  ASSUME NEW n \in Nat, NEW T, NEW x, NEW g, x \in T, IsSteps(g, n, T)
  PROVE  \E f : IsRun(f, g, x, n, T)
<1> DEFINE G == {k \in 0..n : \E f : IsRun(f, g, x, k, T)}
<1>1. 0 \in G
  <2>1. IsRun([i \in 0..0 |-> x], g, x, 0, T)
    BY DEF IsRun
  <2> QED
    BY <2>1
<1>2. ASSUME NEW k \in 1..n, k - 1 \in G PROVE k \in G
  <2>1. PICK f : IsRun(f, g, x, k - 1, T)
    BY <1>2
  <2> DEFINE h == [i \in 0..k |-> IF i = k THEN g[k][f[k - 1]] ELSE f[i]]
  <2>2. h \in [0..k -> T]
    <3>1. \A i \in 0..k : (IF i = k THEN g[k][f[k - 1]] ELSE f[i]) \in T
      BY <2>1 DEF IsRun, IsSteps
    <3> QED
      BY <3>1
  <2>3. h[0] = x
    BY <2>1 DEF IsRun
  <2>4. ASSUME NEW i \in 1..k PROVE h[i] = g[i][h[i - 1]]
    <3>1. h[i - 1] = f[i - 1]
      OBVIOUS
    <3> QED
      BY <2>1, <3>1 DEF IsRun
  <2>5. IsRun(h, g, x, k, T)
    BY <2>2, <2>3, <2>4 DEF IsRun
  <2> HIDE DEF h
  <2> QED
    BY <2>5
<1> HIDE DEF G
<1>3. \A k \in 0..n : k \in G
  BY <1>1, <1>2, CountUp
<1>4. n \in G
  BY <1>3
<1> QED
  BY <1>4 DEF G

\* FlattenSeq: the lists one after the other.
LEMMA FlattenTyped ==
  ASSUME NEW S, NEW seqs \in Seq(Seq(S))
  PROVE  FlattenSeq(seqs) \in Seq(S)
<1> DEFINE n == Len(seqs)
           F(f, i) == IF i = 1 THEN seqs[i] ELSE f[i - 1] \o seqs[i]
           flatten == CHOOSE f : f = [i \in 1..n |-> F(f, i)]
           g == [i \in 1..n |-> [s \in Seq(S) |-> s \o seqs[i]]]
<1>1. n \in Nat /\ \A i \in 1..n : seqs[i] \in Seq(S)
  BY LenProperties, ElementOfSeq
<1>2. FlattenSeq(seqs) = IF n = 0 THEN seqs ELSE flatten[n]
  BY DEF FlattenSeq
<1>3. CASE n = 0
  <2>1. seqs = <<>>
    BY <1>3, EmptySeq
  <2> QED
    BY <1>2, <1>3, <2>1, EmptySeq
<1>4. CASE n # 0
  <2> HIDE DEF n
  <2>1. PICK r : IsRun(r, g, <<>>, n, Seq(S))
    <3>1. IsSteps(g, n, Seq(S))
      <4>1. \A i \in 1..n : \A s \in Seq(S) : s \o seqs[i] \in Seq(S)
        BY <1>1, ConcatProperties
      <4> QED
        BY <4>1, Zenon DEF IsSteps
    <3>2. <<>> \in Seq(S)
      BY EmptySeq
    <3> HIDE DEF g
    <3> QED
      BY <1>1, <3>1, <3>2, RunExists
  <2> DEFINE f == [i \in 1..n |-> r[i]]
  <2>2. ASSUME NEW i \in 1..n PROVE f[i] = F(f, i)
    <3>1. r[i - 1] \in Seq(S) /\ r[i] = g[i][r[i - 1]]
      <4>1. i - 1 \in 0..n
        BY <1>1
      <4> HIDE DEF g
      <4> QED
        BY <2>1, <4>1 DEF IsRun
    <3>2. r[i] = r[i - 1] \o seqs[i]
      BY <3>1
    <3>3. CASE i = 1
      <4>1. r[i - 1] = <<>> /\ seqs[i] \in Seq(S)
        BY <1>1, <2>1, <3>3 DEF IsRun
      <4> QED
        BY <3>2, <3>3, <4>1, ConcatEmptySeq
    <3>4. CASE i # 1
      <4>1. f[i - 1] = r[i - 1]
        BY <1>1, <3>4
      <4> QED
        BY <3>2, <3>4, <4>1
    <3> QED
      BY <3>3, <3>4
  <2>3. f = [i \in 1..n |-> F(f, i)]
    <3>1. f = [i \in 1..n |-> f[i]]
      OBVIOUS
    <3> HIDE DEF F, f
    <3> QED
      BY <2>2, <3>1
  <2>4. flatten = [i \in 1..n |-> F(flatten, i)]
    <3> HIDE DEF F, f
    <3> QED
      BY <2>3
  <2> HIDE DEF flatten
  <2>5. \A i \in 1..n : flatten[i] = F(flatten, i)
    <3> HIDE DEF F
    <3> QED
      BY <2>4
  <2> DEFINE G == {0} \cup {i \in 1..n : flatten[i] \in Seq(S)}
  <2>6. ASSUME NEW i \in 1..n, i - 1 \in G PROVE i \in G
    <3>1. CASE i = 1
      BY <1>1, <2>5, <3>1
    <3>2. CASE i # 1
      <4>1. flatten[i - 1] \in Seq(S) /\ seqs[i] \in Seq(S)
        BY <1>1, <2>6, <3>2
      <4>2. flatten[i] = flatten[i - 1] \o seqs[i]
        BY <2>5, <3>2
      <4>3. flatten[i - 1] \o seqs[i] \in Seq(S)
        BY <4>1, ConcatProperties
      <4>4. flatten[i] \in Seq(S)
        BY <4>2, <4>3
      <4> QED
        BY <4>4
    <3> QED
      BY <3>1, <3>2
  <2>7. 0 \in G
    OBVIOUS
  <2> HIDE DEF G
  <2>8. \A i \in 0..n : i \in G
    BY <1>1, <2>6, <2>7, CountUp
  <2> QED
    BY <1>1, <1>2, <1>4, <2>8 DEF G
<1> QED
  BY <1>3, <1>4

NoRepeats(s) == \A i, j \in 1..Len(s) : s[i] = s[j] => i = j

\* The first occurrence of an element has a place.
LEMMA FirstPlace ==
  ASSUME NEW S, NEW s \in Seq(S), NEW b, \E i \in 1..Len(s) : s[i] = b
  PROVE  /\ SelectInSeq(s, LAMBDA v : v = b) \in 1..Len(s)
         /\ s[SelectInSeq(s, LAMBDA v : v = b)] = b
<1> DEFINE I == {i \in 1..Len(s) : s[i] = b}
<1>1. I \in SUBSET Nat /\ I # {}
  BY LenProperties
<1>2. SelectInSeq(s, LAMBDA v : v = b) = Min(I)
  BY <1>1 DEF SelectInSeq
<1>3. Min(I) \in I
  <2> HIDE DEF I
  <2>1. PICK m \in I : \A k \in I : m <= k
    BY <1>1, LeastNumber
  <2> QED
    BY <2>1 DEF Min
<1> QED
  BY <1>2, <1>3

\* SubSeq: the elements it takes.
LEMMA SubSeqIs ==
  ASSUME NEW S, NEW s, NEW m \in Nat, NEW n \in Nat
  PROVE  /\ (\A i \in 1..n : s[i] \in S) =>
              /\ SubSeq(s, 1, n) \in Seq(S) /\ Len(SubSeq(s, 1, n)) = n
              /\ \A i \in 1..n : SubSeq(s, 1, n)[i] = s[i]
         /\ m <= n /\ (\A i \in (m + 1)..n : s[i] \in S) =>
              /\ SubSeq(s, m + 1, n) \in Seq(S) /\ Len(SubSeq(s, m + 1, n)) = n - m
              /\ \A i \in 1..(n - m) : SubSeq(s, m + 1, n)[i] = s[m + i]
<1>1. ASSUME NEW p \in Int, \A i \in p..n : s[i] \in S
      PROVE  /\ SubSeq(s, p, n) \in Seq(S)
             /\ Len(SubSeq(s, p, n)) = IF p <= n THEN n - p + 1 ELSE 0
             /\ \A i \in 1..(n - p + 1) : SubSeq(s, p, n)[i] = s[p + i - 1]
  <2>1. n \in Int
    OBVIOUS
  <2> QED
    BY <1>1, <2>1, SubSeqProperties
<1>2. n - 1 + 1 = n /\ n - (m + 1) + 1 = n - m
  OBVIOUS
<1>3. \A i \in 1..n : 1 + i - 1 = i
  OBVIOUS
<1>4. \A i \in 1..(n - m) : (m + 1) + i - 1 = m + i
  OBVIOUS
<1>5. 1 \in Int /\ m + 1 \in Int
  OBVIOUS
<1>6. ASSUME \A i \in 1..n : s[i] \in S
      PROVE  /\ SubSeq(s, 1, n) \in Seq(S) /\ Len(SubSeq(s, 1, n)) = n
             /\ \A i \in 1..n : SubSeq(s, 1, n)[i] = s[i]
  BY <1>1, <1>2, <1>3, <1>5, <1>6
<1>7. ASSUME m <= n, \A i \in (m + 1)..n : s[i] \in S
      PROVE  /\ SubSeq(s, m + 1, n) \in Seq(S) /\ Len(SubSeq(s, m + 1, n)) = n - m
             /\ \A i \in 1..(n - m) : SubSeq(s, m + 1, n)[i] = s[m + i]
  BY <1>1, <1>2, <1>4, <1>5, <1>7
<1> QED
  BY <1>6, <1>7

\* RemoveAt: what it leaves, in the order it was.
LEMMA RemoveAtFacts ==
  ASSUME NEW S, NEW s \in Seq(S), NEW k \in 1..Len(s)
  PROVE  /\ RemoveAt(s, k) \in Seq(S) /\ Len(RemoveAt(s, k)) = Len(s) - 1 /\ Len(s) \in Nat
         /\ \A i \in 1..(Len(s) - 1) : RemoveAt(s, k)[i] = IF i < k THEN s[i] ELSE s[i + 1]
<1> DEFINE r == RemoveAt(s, k)
           low == SubSeq(s, 1, k - 1)
           up == SubSeq(s, k + 1, Len(s))
<1>0. Len(s) \in Nat /\ DOMAIN s = 1..Len(s) /\ \A i \in 1..Len(s) : s[i] \in S
  BY LenProperties, ElementOfSeq
<1>1. r = low \o up
  BY DEF RemoveAt
<1> HIDE DEF r
<1>3. /\ low \in Seq(S) /\ Len(low) = k - 1
      /\ \A i \in 1..(k - 1) : low[i] = s[i]
  <2>1. \A i \in 1..(k - 1) : s[i] \in S
    BY <1>0
  <2>2. k - 1 \in Nat
    BY <1>0
  <2> QED
    BY <2>1, <2>2, SubSeqIs
<1>4. /\ up \in Seq(S) /\ Len(up) = Len(s) - k
      /\ \A i \in 1..(Len(s) - k) : up[i] = s[k + i]
  <2>1. \A i \in (k + 1)..Len(s) : s[i] \in S
    BY <1>0
  <2>2. k \in Nat /\ Len(s) \in Nat /\ k <= Len(s)
    BY <1>0
  <2> QED
    BY <2>1, <2>2, SubSeqIs
<1> HIDE DEF low, up
<1>5. /\ r \in Seq(S) /\ Len(r) = Len(s) - 1
      /\ \A i \in 1..(Len(s) - 1) : r[i] = IF i < k THEN s[i] ELSE s[i + 1]
  <2>1. /\ r \in Seq(S) /\ Len(r) = Len(low) + Len(up)
        /\ \A i \in 1..(Len(low) + Len(up)) : r[i] = IF i <= Len(low) THEN low[i] ELSE up[i - Len(low)]
    BY <1>1, <1>3, <1>4, ConcatProperties
  <2>2. Len(low) + Len(up) = Len(s) - 1
    BY <1>0, <1>3, <1>4
  <2>3. ASSUME NEW i \in 1..(Len(s) - 1) PROVE r[i] = IF i < k THEN s[i] ELSE s[i + 1]
    <3>1. r[i] = IF i <= k - 1 THEN low[i] ELSE up[i - (k - 1)]
      BY <1>3, <2>1, <2>2
    <3>2. CASE i < k
      BY <1>0, <1>3, <3>1, <3>2
    <3>3. CASE ~(i < k)
      <4>1. i - (k - 1) \in 1..(Len(s) - k) /\ k + (i - (k - 1)) = i + 1
        BY <1>0, <3>3
      <4>2. r[i] = up[i - (k - 1)]
        BY <1>0, <3>1, <3>3
      <4> QED
        BY <1>4, <3>3, <4>1, <4>2
    <3> QED
      BY <3>2, <3>3
  <2> QED
    BY <2>1, <2>2, <2>3
<1> QED
  BY <1>0, <1>5 DEF r

\* RemoveFirst: what it leaves, in the order it was.
LEMMA RemoveFirstFacts ==
  ASSUME NEW S, NEW s \in Seq(S), NEW b
  PROVE  /\ RemoveFirst(s, b) \in Seq(S)
         /\ NoRepeats(s) => /\ NoRepeats(RemoveFirst(s, b))
                            /\ ToSet(RemoveFirst(s, b)) = ToSet(s) \ {b}
<1> DEFINE r == RemoveFirst(s, b)
<1>0. Len(s) \in Nat /\ DOMAIN s = 1..Len(s) /\ \A i \in 1..Len(s) : s[i] \in S
  BY LenProperties, ElementOfSeq
<1>1. CASE ~\E i \in 1..Len(s) : s[i] = b
  BY <1>0, <1>1 DEF RemoveFirst, ToSet
<1>2. CASE \E i \in 1..Len(s) : s[i] = b
  <2> DEFINE k == SelectInSeq(s, LAMBDA v : v = b)
  <2>1. k \in 1..Len(s) /\ s[k] = b
    BY <1>2, FirstPlace
  <2>2. r = RemoveAt(s, k)
    BY <1>2 DEF RemoveFirst
  <2> HIDE DEF k, r
  <2>5. /\ r \in Seq(S) /\ Len(r) = Len(s) - 1
        /\ \A i \in 1..(Len(s) - 1) : r[i] = IF i < k THEN s[i] ELSE s[i + 1]
    BY <2>1, <2>2, RemoveAtFacts
  <2>6. ASSUME NoRepeats(s) PROVE NoRepeats(r)
    <3> SUFFICES ASSUME NEW i \in 1..(Len(s) - 1), NEW j \in 1..(Len(s) - 1), r[i] = r[j] PROVE i = j
      BY <2>5 DEF NoRepeats
    <3> DEFINE at(x) == IF x < k THEN x ELSE x + 1
    <3>1. at(i) \in 1..Len(s) /\ at(j) \in 1..Len(s) /\ (at(i) = at(j) => i = j)
      BY <1>0, <2>1
    <3>2. r[i] = s[at(i)] /\ r[j] = s[at(j)]
      BY <2>5
    <3> HIDE DEF at
    <3> QED
      BY <2>6, <3>1, <3>2 DEF NoRepeats
  <2>7. ASSUME NoRepeats(s) PROVE ToSet(r) = ToSet(s) \ {b}
    <3>1. DOMAIN r = 1..(Len(s) - 1)
      BY <2>5, LenProperties
    <3>2. ASSUME NEW i \in 1..(Len(s) - 1) PROVE r[i] \in ToSet(s) \ {b}
      <4>1. PICK j \in 1..Len(s) : j # k /\ r[i] = s[j]
        BY <1>0, <2>1, <2>5
      <4> QED
        BY <1>0, <2>1, <2>7, <4>1 DEF NoRepeats, ToSet
    <3>3. ASSUME NEW j \in 1..Len(s), s[j] # b PROVE s[j] \in ToSet(r)
      <4>1. \E i \in 1..(Len(s) - 1) : r[i] = s[j]
        <5>1. CASE j < k
          <6>1. j \in 1..(Len(s) - 1) /\ r[j] = s[j]
            BY <1>0, <2>1, <2>5, <5>1
          <6> QED
            BY <6>1
        <5>2. CASE j > k
          <6>1. j - 1 \in 1..(Len(s) - 1) /\ r[j - 1] = s[j]
            BY <1>0, <2>1, <2>5, <5>2
          <6> QED
            BY <6>1
        <5> QED
          BY <1>0, <2>1, <3>3, <5>1, <5>2
      <4> QED
        BY <3>1, <4>1 DEF ToSet
    <3> QED
      BY <1>0, <3>1, <3>2, <3>3 DEF ToSet
  <2> QED
    BY <2>5, <2>6, <2>7 DEF r
<1> QED
  BY <1>1, <1>2

\* A list without repetition is no longer than there are elements.
LEMMA NoRepeatsShort ==
  ASSUME NEW S, IsFiniteSet(S), NEW s \in Seq(S), NoRepeats(s)
  PROVE  Len(s) <= Cardinality(S)
<1>1. Len(s) \in Nat /\ s \in [1..Len(s) -> S]
  BY LenProperties
<1>2. s \in Injection(1..Len(s), S)
  BY <1>1 DEF NoRepeats, Injection, IsInjective
<1>4. Cardinality(1..Len(s)) <= Cardinality(S)
  BY <1>2, FS_Injection
<1>5. Cardinality(1..Len(s)) = Len(s)
  <2>1. 1 \in Int /\ Len(s) \in Int
    BY <1>1
  <2> QED
    BY <1>1, <2>1, FS_Interval
<1> QED
  BY <1>4, <1>5
============================================================================
