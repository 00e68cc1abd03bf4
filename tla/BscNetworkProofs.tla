--------------------------- MODULE BscNetworkProofs --------------------------
(***************************************************************************)
(* Proofs about the network side of the node, for any peers, blocks, cache *)
(* capacity and bounds: what the body cache serves, which request an       *)
(* answer ends up with, and which sender the registry holds.               *)
(***************************************************************************)
EXTENDS BscNetwork, SequenceFacts

----------------------------------------------------------------------------
(* The body cache. *)

\* A cache as its operations leave it.
IsCache(s) == s \in Seq(Blocks) /\ NoRepeats(s) /\ Len(s) <= BODY_CACHE_CAPACITY

\* What is in a sequence.
LEMMA InSequence ==
  ASSUME NEW S, NEW s \in Seq(S)
  PROVE  /\ ToSet(s) \subseteq S /\ Len(s) \in Nat
         /\ \A x : x \in ToSet(s) <=> \E i \in 1..Len(s) : s[i] = x
<1>1. Len(s) \in Nat /\ DOMAIN s = 1..Len(s) /\ \A i \in 1..Len(s) : s[i] \in S
  BY LenProperties, ElementOfSeq
<1> QED
  BY <1>1 DEF ToSet

\* Without repetitions a sequence is no longer than it has elements, so the sequence
\* without one of them is shorter.
LEMMA RemovedShorter ==
  ASSUME NEW S, NEW s \in Seq(S), NEW e, e \in ToSet(s)
  PROVE  Len(RemoveFirst(s, e)) = Len(s) - 1
<1>1. \E i \in 1..Len(s) : s[i] = e
  <2>1. \A x : x \in ToSet(s) <=> \E i \in 1..Len(s) : s[i] = x
    BY InSequence
  <2> QED
    BY <2>1
<1> DEFINE k == SelectInSeq(s, LAMBDA v : v = e)
<1>2. k \in 1..Len(s) /\ s[k] = e
  BY <1>1, FirstPlace
<1>3. Len(s) \in Nat
  BY LenProperties
<1>4. RemoveFirst(s, e) = RemoveAt(s, k)
  BY <1>1, <1>2, <1>3 DEF RemoveFirst
<1> HIDE DEF k
<1> QED
  BY <1>2, <1>4, RemoveAtFacts

\* LruMap::insert and get: the entry used is there, and one that was there before pushes
\* nothing out.
LEMMA TouchFacts ==
  ASSUME NEW s, IsCache(s), NEW e \in Blocks
  PROVE  /\ IsCache(LruTouch(s, e)) /\ e \in ToSet(LruTouch(s, e))
         /\ ToSet(LruTouch(s, e)) \subseteq ToSet(s) \cup {e}
         /\ e \in ToSet(s) => ToSet(LruTouch(s, e)) = ToSet(s)
<1> DEFINE r == RemoveFirst(s, e)
           c == Append(r, e)
           N == BODY_CACHE_CAPACITY
           L == Len(r)
<1>1. s \in Seq(Blocks) /\ NoRepeats(s) /\ Len(s) <= N /\ N \in Nat \ {0} /\ Len(s) \in Nat
  BY NetworkConstants, LenProperties DEF IsCache
<1>2. r \in Seq(Blocks) /\ NoRepeats(r) /\ ToSet(r) = ToSet(s) \ {e}
  BY <1>1, RemoveFirstFacts
<1>3. e \in ToSet(s) => L = Len(s) - 1
  BY <1>1, RemovedShorter
<1>4. e \notin ToSet(s) => r = s
  <2>1. \A x : x \in ToSet(s) <=> \E i \in 1..Len(s) : s[i] = x
    BY <1>1, InSequence
  <2> QED
    BY <2>1 DEF RemoveFirst
<1>5. LruTouch(s, e) = IF Len(c) > N THEN Tail(c) ELSE c
  BY DEF LruTouch
<1> HIDE DEF r
<1>6. L \in Nat /\ L <= N
  <2>1. L \in Nat
    BY <1>2, LenProperties
  <2> HIDE DEF L, N
  <2>2. CASE e \in ToSet(s)
    BY <1>1, <1>3, <2>1, <2>2
  <2>3. CASE e \notin ToSet(s)
    BY <1>1, <1>4, <2>1, <2>3 DEF L
  <2> QED
    BY <2>2, <2>3
<1>7. /\ c \in Seq(Blocks) /\ Len(c) = L + 1 /\ c[L + 1] = e /\ c # <<>>
      /\ \A i \in 1..L : c[i] = r[i]
  BY <1>2, AppendProperties
<1>8. /\ \A x : x \in ToSet(r) <=> \E i \in 1..L : r[i] = x
      /\ \A x : x \in ToSet(c) <=> \E i \in 1..(L + 1) : c[i] = x
  <2>1. \A x : x \in ToSet(r) <=> \E i \in 1..Len(r) : r[i] = x
    BY <1>2, InSequence
  <2>2. \A x : x \in ToSet(c) <=> \E i \in 1..Len(c) : c[i] = x
    BY <1>7, InSequence
  <2> HIDE DEF c
  <2> QED
    BY <1>7, <2>1, <2>2
<1> HIDE DEF c, N
<1>9. \A i \in 1..(L + 1) : i \in 1..L \/ i = L + 1
  BY <1>6
<1>10. L + 1 \in 1..(L + 1) /\ \A i \in 1..L : i \in 1..(L + 1) /\ i # L + 1
  BY <1>6
<1>11. ToSet(c) = ToSet(r) \cup {e}
  <2>1. \A x : x \in ToSet(c) <=> x \in ToSet(r) \/ x = e
    BY <1>7, <1>8, <1>9, <1>10
  <2> QED
    BY <2>1
<1>12. NoRepeats(c)
  <2>1. \A i \in 1..L : r[i] # e
    BY <1>2, <1>8
  <2>2. \A i, k \in 1..L : r[i] = r[k] => i = k
    BY <1>2 DEF NoRepeats
  <2>3. \A i, k \in 1..(L + 1) : c[i] = c[k] => i = k
    BY <1>7, <1>9, <2>1, <2>2
  <2> QED
    BY <1>7, <2>3 DEF NoRepeats
<1>13. CASE ~(Len(c) > N)
  <2>1. LruTouch(s, e) = c /\ Len(c) <= N
    BY <1>1, <1>5, <1>6, <1>7, <1>13
  <2>2. IsCache(c)
    BY <1>7, <1>12, <2>1 DEF IsCache, N
  <2> QED
    BY <1>2, <1>11, <2>1, <2>2
<1>14. CASE Len(c) > N
  <2> DEFINE t == Tail(c)
  <2>1. LruTouch(s, e) = t /\ L = N /\ L > 0
    BY <1>1, <1>5, <1>6, <1>7, <1>14
  <2>2. t \in Seq(Blocks) /\ Len(t) = L /\ \A i \in 1..L : t[i] = c[i + 1]
    <3>1. t \in Seq(Blocks) /\ Len(t) = Len(c) - 1 /\ \A i \in 1..Len(t) : t[i] = c[i + 1]
      BY <1>7, HeadTailProperties
    <3> QED
      BY <1>6, <1>7, <3>1
  <2> HIDE DEF t
  <2>3. \A x : x \in ToSet(t) <=> \E i \in 1..L : t[i] = x
    BY <2>2, InSequence
  <2>4. \A i \in 1..L : i + 1 \in 1..(L + 1) /\ t[i] = c[i + 1]
    BY <1>6, <2>2
  <2>5. ToSet(t) \subseteq ToSet(c)
    BY <1>8, <2>3, <2>4
  <2>6. e \in ToSet(t)
    <3>1. L \in 1..L /\ t[L] = e
      BY <1>6, <1>7, <2>1, <2>4
    <3> QED
      BY <2>3, <3>1
  <2>7. NoRepeats(t)
    <3>1. \A i, k \in 1..L : i + 1 = k + 1 => i = k
      BY <1>6
    <3>2. \A i, k \in 1..(L + 1) : c[i] = c[k] => i = k
      BY <1>7, <1>12 DEF NoRepeats
    <3>3. \A i, k \in 1..L : t[i] = t[k] => i = k
      BY <2>4, <3>1, <3>2
    <3> QED
      BY <2>2, <3>3 DEF NoRepeats
  <2>8. IsCache(t)
    <3>1. Len(t) <= N
      BY <1>6, <2>2
    <3> QED
      BY <2>2, <2>7, <3>1 DEF IsCache, N
  <2>9. e \notin ToSet(s)
    BY <1>1, <1>3, <1>6, <2>1
  <2> QED
    BY <1>2, <1>11, <2>1, <2>5, <2>6, <2>8, <2>9
<1> QED
  BY <1>13, <1>14

\* Every block of a range that is cached is used in turn: nothing leaves the cache.
LEMMA UsedFacts ==
  ASSUME NEW s, IsCache(s), NEW range \in Seq(Blocks), ToSet(range) \subseteq ToSet(s)
  PROVE  IsCache(Used(s, range)) /\ ToSet(Used(s, range)) = ToSet(s)
<1> DEFINE n == Len(range)
           T == {c \in Seq(Blocks) : IsCache(c) /\ ToSet(c) = ToSet(s)}
           F(f, i) == IF i = 0 THEN s ELSE LruTouch(f[i - 1], range[i])
           use == CHOOSE f : f = [i \in 0..n |-> F(f, i)]
           g == [i \in 1..n |-> [c \in T |-> LruTouch(c, range[i])]]
<1>1. n \in Nat /\ \A i \in 1..n : range[i] \in Blocks /\ range[i] \in ToSet(s)
  <2>1. \A x : x \in ToSet(range) <=> \E i \in 1..Len(range) : range[i] = x
    BY InSequence
  <2> QED
    BY <2>1, LenProperties, ElementOfSeq
<1>2. Used(s, range) = use[n]
  BY DEF Used
<1> HIDE DEF n
<1>3. \A c \in T : \A i \in 1..n : LruTouch(c, range[i]) \in T
  <2> SUFFICES ASSUME NEW c \in T, NEW i \in 1..n PROVE LruTouch(c, range[i]) \in T
    OBVIOUS
  <2>1. IsCache(LruTouch(c, range[i])) /\ ToSet(LruTouch(c, range[i])) = ToSet(s)
    BY <1>1, TouchFacts
  <2> QED
    BY <2>1 DEF IsCache
<1>4. s \in T
  BY DEF IsCache
<1> HIDE DEF T
<1>5. PICK f : IsRun(f, g, s, n, T)
  <2>1. IsSteps(g, n, T)
    BY <1>3 DEF IsSteps
  <2> HIDE DEF g
  <2> QED
    BY <1>1, <1>4, <2>1, RunExists
<1>6. f = [i \in 0..n |-> F(f, i)]
  <2>1. ASSUME NEW i \in 0..n PROVE f[i] = F(f, i)
    <3>1. CASE i = 0
      BY <1>5, <3>1 DEF IsRun
    <3>2. CASE i # 0
      <4>1. i \in 1..n /\ f[i - 1] \in T
        BY <1>1, <1>5, <3>2 DEF IsRun
      <4>2. g[i][f[i - 1]] = LruTouch(f[i - 1], range[i])
        BY <4>1
      <4> QED
        BY <1>5, <3>2, <4>1, <4>2 DEF IsRun
    <3> QED
      BY <3>1, <3>2
  <2> HIDE DEF F
  <2> QED
    BY <1>5, <2>1 DEF IsRun
<1>7. use = [i \in 0..n |-> F(use, i)]
  <2> HIDE DEF F
  <2> QED
    BY <1>6
<1> HIDE DEF use
<1>8. \A i \in 0..n : use[i] = F(use, i)
  <2> HIDE DEF F
  <2> QED
    BY <1>7
<1>9. \A i \in 0..n : use[i] \in T
  <2> DEFINE G == {i \in 0..n : use[i] \in T}
  <2>1. 0 \in G
    BY <1>1, <1>4, <1>8
  <2>2. ASSUME NEW i \in 1..n, i - 1 \in G PROVE i \in G
    <3>1. use[i] = LruTouch(use[i - 1], range[i]) /\ use[i - 1] \in T
      BY <1>1, <1>8, <2>2
    <3> QED
      BY <1>1, <1>3, <3>1
  <2> HIDE DEF G
  <2>3. \A i \in 0..n : i \in G
    BY <1>1, <2>1, <2>2, CountUp
  <2> QED
    BY <2>3 DEF G
<1>10. use[n] \in T
  BY <1>1, <1>9
<1> QED
  BY <1>2, <1>10 DEF T

\* A path of cached blocks: each the parent of the one before it.
IsPath(w) ==
  /\ w \in Seq(Blocks) /\ ToSet(w) \subseteq ToSet(by_hash)
  /\ \A k \in 2..Len(w) : w[k] = ParentOf[w[k - 1]]

\* The block that comes after the path w from first.
After(first, w) == IF w = <<>> THEN first ELSE ParentOf[w[Len(w)]]

\* build_blocks_by_range_response, for every start and every count: a path from the
\* start that ends early only at a block that is not cached.
LEMMA RangeFacts ==
  ASSUME IsCache(by_hash), NEW first, NEW count \in Nat
  PROVE  /\ IsPath(RangeFrom(first, count)) /\ Len(RangeFrom(first, count)) <= count
         /\ RangeFrom(first, count) # <<>> => RangeFrom(first, count)[1] = first
         /\ Len(RangeFrom(first, count)) < count => After(first, RangeFrom(first, count)) \notin ToSet(by_hash)
<1> DEFINE n == count
           next(w, i) == IF i = 1 THEN first ELSE ParentOf[w[i - 1]]
           step(w, i) == IF Len(w) < i - 1 \/ next(w, i) \notin ToSet(by_hash) THEN w
                         ELSE Append(w, next(w, i))
           F(f, i) == IF i = 0 THEN <<>> ELSE step(f[i - 1], i)
           walk == CHOOSE f : f = [i \in 0..n |-> F(f, i)]
           T == Seq(Blocks)
           g == [i \in 1..n |-> [w \in T |-> step(w, i)]]
<1>1. RangeFrom(first, count) = walk[n]
  BY DEF RangeFrom
<1>2. ToSet(by_hash) \subseteq Blocks
  BY InSequence DEF IsCache
<1>3. \A w \in T : \A i \in 1..n : step(w, i) \in T
  <2> SUFFICES ASSUME NEW w \in T, NEW i \in 1..n PROVE step(w, i) \in T
    OBVIOUS
  <2> DEFINE b == next(w, i)
  <2> HIDE DEF b
  <2>1. step(w, i) = IF Len(w) < i - 1 \/ b \notin ToSet(by_hash) THEN w ELSE Append(w, b)
    BY DEF b
  <2>2. b \in Blocks => Append(w, b) \in T
    BY AppendProperties
  <2> QED
    BY <1>2, <2>1, <2>2
<1>4. <<>> \in T
  BY EmptySeq
<1> HIDE DEF T, step
<1>5. PICK f : IsRun(f, g, <<>>, n, T)
  <2>1. IsSteps(g, n, T)
    BY <1>3 DEF IsSteps
  <2> HIDE DEF g
  <2> QED
    BY <1>4, <2>1, RunExists
<1>6. f = [i \in 0..n |-> F(f, i)]
  <2>1. ASSUME NEW i \in 0..n PROVE f[i] = F(f, i)
    <3>1. CASE i = 0
      BY <1>5, <3>1 DEF IsRun
    <3>2. CASE i # 0
      <4>1. i \in 1..n /\ f[i - 1] \in T
        BY <1>5, <3>2 DEF IsRun
      <4>2. g[i][f[i - 1]] = step(f[i - 1], i)
        BY <4>1
      <4> QED
        BY <1>5, <3>2, <4>1, <4>2 DEF IsRun
    <3> QED
      BY <3>1, <3>2
  <2> HIDE DEF F
  <2> QED
    BY <1>5, <2>1 DEF IsRun
<1>7. walk = [i \in 0..n |-> F(walk, i)]
  <2> HIDE DEF F
  <2>1. \E h : h = [i \in 0..n |-> F(h, i)]
    BY <1>6
  <2> QED
    BY <2>1 DEF F, step
<1> HIDE DEF walk
<1>8. \A i \in 0..n : walk[i] = F(walk, i)
  <2> HIDE DEF F
  <2> QED
    BY <1>7
<1>9. walk[0] = <<>> /\ \A i \in 1..n : walk[i] = step(walk[i - 1], i)
  BY <1>8
<1> DEFINE last(w) == IF Len(w) = 0 THEN first ELSE ParentOf[w[Len(w)]]
           Good(w, i) == /\ IsPath(w) /\ Len(w) <= i /\ Len(w) \in Nat
                         /\ Len(w) > 0 => w[1] = first
                         /\ Len(w) < i => last(w) \notin ToSet(by_hash)
<1>10. Good(<<>>, 0)
  <2>1. <<>> \in Seq(Blocks) /\ Len(<<>>) = 0
    BY EmptySeq
  <2>2. ToSet(<<>>) = {}
    BY DEF ToSet
  <2> QED
    BY <2>1, <2>2 DEF IsPath
<1>11. ASSUME NEW w, NEW i \in 1..n, Good(w, i - 1) PROVE Good(step(w, i), i)
  <2> DEFINE b == next(w, i)
             v == Append(w, b)
  <2>1. step(w, i) = IF Len(w) < i - 1 \/ b \notin ToSet(by_hash) THEN w ELSE v
    BY DEF step
  <2>2. IsPath(w) /\ w \in Seq(Blocks) /\ Len(w) \in Nat /\ Len(w) <= i - 1
    BY <1>11 DEF IsPath
  <2>3. CASE Len(w) < i - 1 \/ b \notin ToSet(by_hash)
    <3>1. step(w, i) = w /\ Len(w) <= i
      BY <2>1, <2>2, <2>3
    <3>2. last(w) \notin ToSet(by_hash)
      <4>1. CASE Len(w) < i - 1
        BY <1>11, <4>1
      <4>2. CASE ~(Len(w) < i - 1)
        <5>1. Len(w) = i - 1 /\ b \notin ToSet(by_hash)
          BY <2>2, <2>3, <4>2
        <5>2. last(w) = b
          BY <5>1
        <5> QED
          BY <5>1, <5>2
      <4> QED
        BY <4>1, <4>2
    <3> HIDE DEF last
    <3> QED
      BY <1>11, <2>2, <3>1, <3>2
  <2>4. CASE ~(Len(w) < i - 1) /\ b \in ToSet(by_hash)
    <3>1. step(w, i) = v /\ Len(w) = i - 1 /\ b \in Blocks
      BY <1>2, <2>1, <2>2, <2>4
    <3>2. i # 1 => b = ParentOf[w[i - 1]]
      OBVIOUS
    <3>2a. i = 1 => b = first
      OBVIOUS
    <3> HIDE DEF b
    <3>3. v \in Seq(Blocks) /\ Len(v) = i /\ v[i] = b /\ \A k \in 1..(i - 1) : v[k] = w[k]
      <4>1. v \in Seq(Blocks) /\ Len(v) = Len(w) + 1 /\ v[Len(w) + 1] = b /\ \A k \in 1..Len(w) : v[k] = w[k]
        BY <2>2, <3>1, AppendProperties
      <4> QED
        BY <3>1, <4>1
    <3> HIDE DEF v
    <3>4. ToSet(v) \subseteq ToSet(by_hash)
      <4>1. \A x : x \in ToSet(w) <=> \E k \in 1..Len(w) : w[k] = x
        BY <2>2, InSequence
      <4>2. \A x : x \in ToSet(v) <=> \E k \in 1..Len(v) : v[k] = x
        BY <3>3, InSequence
      <4>3. \A k \in 1..i : k \in 1..(i - 1) \/ k = i
        OBVIOUS
      <4>4. \A k \in 1..i : v[k] \in ToSet(by_hash)
        BY <2>2, <2>4, <3>1, <3>3, <4>1, <4>3 DEF IsPath
      <4> QED
        BY <3>3, <4>2, <4>4
    <3>5. \A k \in 2..i : v[k] = ParentOf[v[k - 1]]
      <4> SUFFICES ASSUME NEW k \in 2..i PROVE v[k] = ParentOf[v[k - 1]]
        OBVIOUS
      <4>1. k - 1 \in 1..(i - 1)
        OBVIOUS
      <4>2. CASE k = i
        <5>1. i # 1
          BY <4>2
        <5> QED
          BY <3>2, <3>3, <4>1, <4>2, <5>1
      <4>3. CASE k # i
        <5>1. k \in 1..(i - 1) /\ k \in 2..Len(w)
          BY <3>1, <4>3
        <5>2. w[k] = ParentOf[w[k - 1]]
          BY <2>2, <5>1 DEF IsPath
        <5> QED
          BY <3>3, <4>1, <5>1, <5>2
      <4> QED
        BY <4>2, <4>3
    <3>6. v[1] = first
      <4>1. CASE i = 1
        BY <3>2a, <3>3, <4>1
      <4>2. CASE i # 1
        <5>1. 1 \in 1..(i - 1) /\ i - 1 > 0
          BY <4>2
        <5>2. w[1] = first
          BY <1>11, <3>1, <5>1
        <5> QED
          BY <3>3, <5>1, <5>2
      <4> QED
        BY <4>1, <4>2
    <3> HIDE DEF last
    <3> QED
      BY <3>1, <3>3, <3>4, <3>5, <3>6 DEF IsPath
  <2> QED
    BY <2>3, <2>4
<1>12. \A i \in 0..n : Good(walk[i], i)
  <2> DEFINE G == {i \in 0..n : Good(walk[i], i)}
  <2> HIDE DEF Good
  <2>1. 0 \in G
    BY <1>9, <1>10
  <2>2. ASSUME NEW i \in 1..n, i - 1 \in G PROVE i \in G
    <3>1. Good(walk[i - 1], i - 1) /\ walk[i] = step(walk[i - 1], i)
      BY <1>9, <2>2
    <3>2. Good(walk[i], i)
      BY <1>11, <3>1
    <3> QED
      BY <3>2
  <2> HIDE DEF G
  <2>3. \A i \in 0..n : i \in G
    BY <2>1, <2>2, CountUp
  <2> QED
    BY <2>3 DEF G
<1>13. Good(walk[n], n)
  <2> HIDE DEF Good
  <2> QED
    BY <1>12
<1>14. walk[n] = <<>> <=> Len(walk[n]) = 0
  BY <1>13, EmptySeq DEF IsPath
<1>15. last(walk[n]) = After(first, walk[n])
  BY <1>14 DEF After
<1> HIDE DEF last
<1> QED
  BY <1>1, <1>13, <1>14, <1>15

----------------------------------------------------------------------------
(* The connections, the registry and the requests. *)

Commands == [type : {"range"}, id : Nat, task : Nat] \cup [type : {"votes"}]

ConnRecords ==
  [peer : Peers, version : {1, 2}, open : BOOLEAN, capability_sent : BOOLEAN,
   handshake_completed : BOOLEAN, commands : Seq(Commands),
   pending_range_reqs : SUBSET [id : Nat, task : Nat], asked_no_txs : BOOLEAN]

RequestRecords ==
  [peer : Peers, start : Blocks, id : Nat, on : Nat, blocks : Seq(Blocks),
   at : {"spawned", "failed", "waiting", "answered", "done", "timed_out", "canceled"}]

BroadcastRecords ==
  [at : {"send", "cleanup", "done"}, snapshot : [Peers -> Nat], to_remove : SUBSET Peers]

\* A broadcast b: its copy of the registry holds connections that were made, each under
\* its peer, and those whose peers it is to remove it found closed.
BroadcastFits(cs, b) ==
  \A p \in Peers :
    /\ b.snapshot[p] # 0 => b.snapshot[p] \in 1..Len(cs) /\ cs[b.snapshot[p]].peer = p
    /\ b.at # "send" /\ p \in b.to_remove => b.snapshot[p] # 0 /\ ~cs[b.snapshot[p]].open

\* A peer is registered with its newest connection, or one of its connections has ended.
NewestHeld(cs, reg) ==
  \A c \in 1..Len(cs) : (\A d \in 1..Len(cs) : cs[d].peer = cs[c].peer => d <= c) =>
    \/ reg[cs[c].peer] = c
    \/ reg[cs[c].peer] = 0 /\ \E d \in 1..Len(cs) : cs[d].peer = cs[c].peer /\ ~cs[d].open

\* What broadcast b removed does not come back.
RemovedGone(b, reg) == \A p \in b.to_remove : b.at = "done" => reg[p] # b.snapshot[p]

\* The registry and every copy of it.
RegistryInv ==
  /\ conns \in Seq(ConnRecords) /\ registry \in [Peers -> Nat]
  /\ \A p \in Peers : registry[p] # 0 =>
       registry[p] \in 1..Len(conns) /\ conns[registry[p]].peer = p
  /\ broadcasts \in Seq(BroadcastRecords)
  /\ \A k \in 1..Len(broadcasts) :
       BroadcastFits(conns, broadcasts[k]) /\ RemovedGone(broadcasts[k], registry)
  /\ NewestHeld(conns, registry)

\* A request that was sent: over which connection, and under which id, which is its own.
RequestInv ==
  /\ requests \in Seq(RequestRecords) /\ req_counter \in Nat
  /\ \A r \in 1..Len(requests) :
       /\ requests[r].on # 0 =>
            /\ requests[r].on \in 1..Len(conns) /\ conns[requests[r].on].peer = requests[r].peer
            /\ requests[r].id < req_counter
       /\ requests[r].at = "spawned" => requests[r].on = 0
       /\ requests[r].at \in {"waiting", "answered", "done"} => requests[r].on # 0
       /\ requests[r].at \in {"answered", "done"} => requests[r].blocks \in Answers(r)
  /\ \A r, s \in 1..Len(requests) :
       requests[r].on # 0 /\ requests[s].on # 0 /\ requests[r].id = requests[s].id => r = s

\* Of the requests reqs, that of number r was sent over c under that id.
SentOver(reqs, c, id, r) == r \in 1..Len(reqs) /\ reqs[r].on = c /\ reqs[r].id = id

\* What connection c, which is m, holds to be sent or to be answered was asked over c.
Linked(reqs, c, m) ==
  /\ \A e \in m.pending_range_reqs : SentOver(reqs, c, e.id, e.task)
  /\ \A i \in 1..Len(m.commands) :
       m.commands[i].type = "range" => SentOver(reqs, c, m.commands[i].id, m.commands[i].task)

LinkInv == \A c \in 1..Len(conns) : Linked(requests, c, conns[c])

\* What was announced is cached or evicted, what is cached was built or executed here.
CacheInv ==
  /\ IsCache(by_hash) /\ announced \subseteq ToSet(by_hash) \cup evicted
  /\ ToSet(by_hash) \subseteq processed \cup Mined
  /\ ~Idle => reporting \in ToSet(by_hash) \cup evicted

NetInv == RegistryInv /\ RequestInv /\ LinkInv /\ CacheInv

\* Connections keep their peers and are never opened again.
ConnsKept ==
  /\ conns' \in Seq(ConnRecords) /\ Len(conns') >= Len(conns)
  /\ \A c \in 1..Len(conns) : conns'[c].peer = conns[c].peer /\ (conns'[c].open => conns[c].open)

\* A request that was sent keeps its connection and its id.
RequestsKept ==
  /\ Len(requests') >= Len(requests)
  /\ \A r \in 1..Len(requests) : requests[r].on # 0 =>
       requests'[r].on = requests[r].on /\ requests'[r].id = requests[r].id

\* All that m holds was held by old.
Derived(m, old) ==
  /\ \A e \in m.pending_range_reqs :
       \/ e \in old.pending_range_reqs
       \/ \E i \in 1..Len(old.commands) : /\ old.commands[i].type = "range"
                                          /\ old.commands[i].id = e.id /\ old.commands[i].task = e.task
  /\ \A i \in 1..Len(m.commands) : m.commands[i].type = "range" =>
       \E k \in 1..Len(old.commands) : m.commands[i] = old.commands[k]

\* The numbers that bound the sequences.
LEMMA Lengths ==
  ASSUME RegistryInv, RequestInv
  PROVE  /\ Len(conns) \in Nat /\ DOMAIN conns = 1..Len(conns)
         /\ \A c \in 1..Len(conns) : conns[c] \in ConnRecords /\ c # 0
         /\ Len(requests) \in Nat /\ DOMAIN requests = 1..Len(requests)
         /\ \A r \in 1..Len(requests) : requests[r] \in RequestRecords
         /\ Len(broadcasts) \in Nat /\ DOMAIN broadcasts = 1..Len(broadcasts)
         /\ \A k \in 1..Len(broadcasts) : broadcasts[k] \in BroadcastRecords
<1>1. conns \in Seq(ConnRecords) /\ requests \in Seq(RequestRecords) /\ broadcasts \in Seq(BroadcastRecords)
  BY DEF RegistryInv, RequestInv
<1>2. Len(conns) \in Nat /\ DOMAIN conns = 1..Len(conns) /\ \A c \in 1..Len(conns) : conns[c] \in ConnRecords
  BY <1>1, LenProperties, ElementOfSeq
<1>3. Len(requests) \in Nat /\ DOMAIN requests = 1..Len(requests) /\ \A r \in 1..Len(requests) : requests[r] \in RequestRecords
  BY <1>1, LenProperties, ElementOfSeq
<1>4. Len(broadcasts) \in Nat /\ DOMAIN broadcasts = 1..Len(broadcasts) /\ \A k \in 1..Len(broadcasts) : broadcasts[k] \in BroadcastRecords
  BY <1>1, LenProperties, ElementOfSeq
<1>5. \A c \in 1..Len(conns) : c # 0
  BY <1>2
<1> QED
  BY <1>2, <1>3, <1>4, <1>5

\* One connection goes on as m.
LEMMA ConnAdvances ==
  ASSUME RegistryInv, RequestInv, NEW c \in 1..Len(conns), NEW m \in ConnRecords,
         conns' = [conns EXCEPT ![c] = m], m.peer = conns[c].peer, m.open => conns[c].open
  PROVE  /\ ConnsKept /\ Len(conns') = Len(conns) /\ conns'[c] = m
         /\ \A d \in 1..Len(conns) : d # c => conns'[d] = conns[d]
<1>1. Len(conns) \in Nat /\ DOMAIN conns = 1..Len(conns) /\ conns \in Seq(ConnRecords)
  BY Lengths DEF RegistryInv
<1>2. conns' \in Seq(ConnRecords) /\ Len(conns') = Len(conns)
  BY <1>1, ExceptSeq
<1>3. conns'[c] = m /\ \A d \in 1..Len(conns) : d # c => conns'[d] = conns[d]
  BY <1>1
<1> QED
  BY <1>1, <1>2, <1>3 DEF ConnsKept

\* Connections that end disturb neither the registry nor a broadcast.
LEMMA ConnsEnd ==
  ASSUME RegistryInv, RequestInv, ConnsKept, Len(conns') = Len(conns)
  PROVE  /\ NewestHeld(conns', registry)
         /\ \A b \in BroadcastRecords : BroadcastFits(conns, b) => BroadcastFits(conns', b)
         /\ \A p \in Peers : registry[p] # 0 => registry[p] \in 1..Len(conns) /\ conns'[registry[p]].peer = p
<1>1. /\ Len(conns) \in Nat /\ \A c \in 1..Len(conns) : conns'[c].peer = conns[c].peer
      /\ \A c \in 1..Len(conns) : ~conns[c].open => ~conns'[c].open
  BY Lengths DEF ConnsKept
<1>2. NewestHeld(conns', registry)
  <2> SUFFICES ASSUME NEW c \in 1..Len(conns), \A d \in 1..Len(conns) : conns'[d].peer = conns'[c].peer => d <= c
               PROVE  \/ registry[conns'[c].peer] = c
                      \/ /\ registry[conns'[c].peer] = 0
                         /\ \E d \in 1..Len(conns) : conns'[d].peer = conns'[c].peer /\ ~conns'[d].open
    BY DEF NewestHeld
  <2>1. \A d \in 1..Len(conns) : conns[d].peer = conns[c].peer => d <= c
    BY <1>1
  <2>2. \/ registry[conns[c].peer] = c
        \/ registry[conns[c].peer] = 0 /\ \E d \in 1..Len(conns) : conns[d].peer = conns[c].peer /\ ~conns[d].open
    BY <2>1 DEF RegistryInv, NewestHeld
  <2> QED
    BY <1>1, <2>2
<1>3. ASSUME NEW b \in BroadcastRecords, BroadcastFits(conns, b) PROVE BroadcastFits(conns', b)
  BY <1>1, <1>3 DEF BroadcastFits
<1>4. \A p \in Peers : registry[p] # 0 => registry[p] \in 1..Len(conns) /\ conns'[registry[p]].peer = p
  BY <1>1 DEF RegistryInv
<1> QED
  BY <1>2, <1>3, <1>4

\* The registry, when no connection is made and no broadcast runs.
LEMMA RegistryCalm ==
  ASSUME RegistryInv, RequestInv, ConnsKept, Len(conns') = Len(conns),
         UNCHANGED <<registry, broadcasts>>
  PROVE  RegistryInv'
<1>1. /\ NewestHeld(conns', registry)
      /\ \A b \in BroadcastRecords : BroadcastFits(conns, b) => BroadcastFits(conns', b)
      /\ \A p \in Peers : registry[p] # 0 => registry[p] \in 1..Len(conns) /\ conns'[registry[p]].peer = p
  BY ConnsEnd
<1>2. \A k \in 1..Len(broadcasts) : broadcasts[k] \in BroadcastRecords
  BY Lengths
<1>3. \A k \in 1..Len(broadcasts) : BroadcastFits(conns', broadcasts[k]) /\ RemovedGone(broadcasts[k], registry)
  BY <1>1, <1>2 DEF RegistryInv
<1>4. conns' \in Seq(ConnRecords)
  BY DEF ConnsKept
<1> QED
  BY <1>1, <1>3, <1>4 DEF RegistryInv

\* The requests, when none changes.
LEMMA RequestCalm ==
  ASSUME RegistryInv, RequestInv, ConnsKept, UNCHANGED <<requests, req_counter>>
  PROVE  RequestInv' /\ RequestsKept
<1>1. Len(conns) \in Nat /\ Len(conns') \in Nat /\ Len(requests) \in Nat
  BY Lengths, LenProperties DEF ConnsKept
<1>2. \A r \in 1..Len(requests) : requests[r].on # 0 =>
        requests[r].on \in 1..Len(conns') /\ conns'[requests[r].on].peer = requests[r].peer
  <2>1. \A c \in 1..Len(conns) : c \in 1..Len(conns') /\ conns'[c].peer = conns[c].peer
    BY <1>1 DEF ConnsKept
  <2>2. \A r \in 1..Len(requests) : requests[r].on # 0 =>
          requests[r].on \in 1..Len(conns) /\ conns[requests[r].on].peer = requests[r].peer
    BY DEF RequestInv
  <2> QED
    BY <2>1, <2>2
<1>3. RequestsKept
  BY <1>1 DEF RequestsKept
<1> QED
  BY <1>2, <1>3 DEF RequestInv, Answers

\* What the connections hold, when nothing is added.
LEMMA LinkCalm ==
  ASSUME RegistryInv, RequestInv, LinkInv, RequestsKept, Len(conns') = Len(conns),
         Len(requests') \in Nat, \A c \in 1..Len(conns) : Derived(conns'[c], conns[c])
  PROVE  LinkInv'
<1>0. Len(requests) \in Nat /\ \A c \in 1..Len(conns) : c # 0
  BY Lengths
<1> SUFFICES ASSUME NEW c \in 1..Len(conns) PROVE Linked(requests', c, conns'[c])
  BY DEF LinkInv
<1>1. \A id, r : SentOver(requests, c, id, r) => SentOver(requests', c, id, r)
  BY <1>0 DEF SentOver, RequestsKept
<1>2. Linked(requests, c, conns[c]) /\ Derived(conns'[c], conns[c])
  BY DEF LinkInv
<1> DEFINE m == conns'[c]
           old == conns[c]
<1>3. Linked(requests, c, old) /\ Derived(m, old)
  BY <1>2
<1> HIDE DEF m, old
<1>4. Linked(requests', c, m)
  <2>1. \A e \in m.pending_range_reqs : SentOver(requests', c, e.id, e.task)
    BY <1>1, <1>3 DEF Linked, Derived
  <2>2. ASSUME NEW i \in 1..Len(m.commands), m.commands[i].type = "range"
        PROVE  SentOver(requests', c, m.commands[i].id, m.commands[i].task)
    <3>1. PICK k \in 1..Len(old.commands) : m.commands[i] = old.commands[k]
      BY <1>3, <2>2 DEF Derived
    <3> QED
      BY <1>1, <1>3, <2>2, <3>1 DEF Linked
  <2> QED
    BY <2>1, <2>2 DEF Linked
<1> QED
  BY <1>4 DEF m

\* A connection that stays the same holds what it held.
LEMMA DerivedSame == \A m : Derived(m, m)
  BY DEF Derived

ProtoInv == RegistryInv /\ RequestInv /\ LinkInv

\* One connection goes on as m, and holds nothing that it did not hold.
LEMMA OneConnection ==
  ASSUME ProtoInv, NEW c \in 1..Len(conns), NEW m \in ConnRecords,
         conns' = [conns EXCEPT ![c] = m], m.peer = conns[c].peer, m.open => conns[c].open,
         Derived(m, conns[c]), UNCHANGED <<registry, req_counter, requests, broadcasts>>
  PROVE  ProtoInv'
<1>0. RegistryInv /\ RequestInv /\ LinkInv
  BY DEF ProtoInv
<1>1. /\ ConnsKept /\ Len(conns') = Len(conns) /\ conns'[c] = m
      /\ \A d \in 1..Len(conns) : d # c => conns'[d] = conns[d]
  BY <1>0, ConnAdvances
<1>2. RegistryInv'
  BY <1>0, <1>1, RegistryCalm
<1>3. RequestInv' /\ RequestsKept
  BY <1>0, <1>1, RequestCalm
<1>4. \A d \in 1..Len(conns) : Derived(conns'[d], conns[d])
  <2> SUFFICES ASSUME NEW d \in 1..Len(conns) PROVE Derived(conns'[d], conns[d])
    OBVIOUS
  <2>1. CASE d = c
    BY <1>1, <2>1
  <2>2. CASE d # c
    <3>1. conns'[d] = conns[d]
      BY <1>1, <2>2
    <3> QED
      BY <3>1, DerivedSame
  <2> QED
    BY <2>1, <2>2
<1>5. Len(requests') \in Nat
  BY <1>0, Lengths
<1> QED
  BY <1>0, <1>1, <1>2, <1>3, <1>4, <1>5, LinkCalm DEF ProtoInv

\* A connection as it is, with the commands and the waiters it holds.
LEMMA ConnTyped ==
  ASSUME ProtoInv, NEW c \in DOMAIN conns
  PROVE  /\ c \in 1..Len(conns) /\ c # 0 /\ conns[c] \in ConnRecords /\ conns[c].open \in BOOLEAN
         /\ conns[c].commands \in Seq(Commands) /\ conns[c].pending_range_reqs \in SUBSET [id : Nat, task : Nat]
         /\ \A due \in BOOLEAN : Pruned(c, due) \subseteq conns[c].pending_range_reqs
<1>1. c \in 1..Len(conns) /\ c # 0 /\ conns[c] \in ConnRecords
  BY Lengths DEF ProtoInv
<1>2. \A due \in BOOLEAN : Pruned(c, due) \subseteq conns[c].pending_range_reqs
  BY DEF Pruned
<1>3. /\ conns[c].commands \in Seq(Commands) /\ conns[c].pending_range_reqs \in SUBSET [id : Nat, task : Nat]
      /\ conns[c].open \in BOOLEAN
  <2> HIDE DEF Commands
  <2> QED
    BY <1>1 DEF ConnRecords
<1> QED
  BY <1>1, <1>2, <1>3

\* The stream ends.
LEMMA DroppedStep ==
  ASSUME ProtoInv, NEW c \in DOMAIN conns, conns' = Dropped(c),
         UNCHANGED <<registry, req_counter, requests, broadcasts>>
  PROVE  ProtoInv'
<1> DEFINE old == conns[c]
           m == [old EXCEPT !.open = FALSE, !.commands = <<>>, !.pending_range_reqs = {}]
<1>1. c \in 1..Len(conns) /\ old \in ConnRecords
  BY ConnTyped
<1>2. conns' = [conns EXCEPT ![c] = m]
  BY DEF Dropped
<1> HIDE DEF old
<1>3. /\ m \in ConnRecords /\ m.peer = old.peer /\ m.open = FALSE
      /\ m.commands = <<>> /\ m.pending_range_reqs = {}
  <2>1. <<>> \in Seq(Commands) /\ {} \in SUBSET [id : Nat, task : Nat]
    BY EmptySeq
  <2> QED
    BY <1>1, <2>1 DEF ConnRecords
<1> HIDE DEF m
<1>4. Derived(m, old)
  <2>1. Len(m.commands) = 0
    BY <1>3, EmptySeq
  <2> QED
    BY <1>3, <2>1 DEF Derived
<1>5. m.peer = conns[c].peer /\ (m.open => conns[c].open) /\ Derived(m, conns[c])
  BY <1>3, <1>4 DEF old
<1> QED
  BY <1>1, <1>2, <1>3, <1>5, OneConnection

\* Waiters are dropped or kept, commands are left alone.
LEMMA WaitersKept ==
  ASSUME NEW m, NEW old, m.commands = old.commands, m.pending_range_reqs \subseteq old.pending_range_reqs
  PROVE  Derived(m, old)
  BY DEF Derived

\* send_capability.
LEMMA CapabilityStep ==
  ASSUME ProtoInv, NEW c \in DOMAIN conns, send_capability(c)
  PROVE  ProtoInv'
<1> DEFINE old == conns[c]
           m == [old EXCEPT !.capability_sent = TRUE]
<1>1. c \in 1..Len(conns) /\ old \in ConnRecords /\ old.pending_range_reqs \in SUBSET [id : Nat, task : Nat]
      /\ old.commands \in Seq(Commands)
  BY ConnTyped
<1>2. conns' = [conns EXCEPT ![c] = m] /\ UNCHANGED <<registry, req_counter, requests, broadcasts>>
  BY DEF send_capability
<1> HIDE DEF old
<1>3. /\ m \in ConnRecords /\ m.peer = old.peer /\ m.open = old.open
      /\ m.commands = old.commands /\ m.pending_range_reqs = old.pending_range_reqs
  BY <1>1 DEF ConnRecords
<1> HIDE DEF m
<1>4. Derived(m, old)
  BY <1>3, WaitersKept
<1>5. m.peer = conns[c].peer /\ (m.open => conns[c].open) /\ Derived(m, conns[c])
  BY <1>3, <1>4 DEF old
<1> QED
  BY <1>1, <1>2, <1>3, <1>5, OneConnection

\* A message that only prunes; also part of serve_range.
LEMMA OtherStep ==
  ASSUME ProtoInv, NEW c \in DOMAIN conns, NEW due \in BOOLEAN, other_message(c, due)
  PROVE  ProtoInv'
<1> DEFINE old == conns[c]
           q == Pruned(c, due)
           m == [old EXCEPT !.pending_range_reqs = q]
<1>1. /\ c \in 1..Len(conns) /\ old \in ConnRecords /\ q \subseteq old.pending_range_reqs
      /\ old.pending_range_reqs \in SUBSET [id : Nat, task : Nat] /\ old.commands \in Seq(Commands)
  BY ConnTyped
<1>2. conns' = [conns EXCEPT ![c] = m] /\ UNCHANGED <<registry, req_counter, requests, broadcasts>>
  BY DEF other_message
<1> HIDE DEF old, q
<1>3. /\ m \in ConnRecords /\ m.peer = old.peer /\ m.open = old.open
      /\ m.commands = old.commands /\ m.pending_range_reqs = q
  <2>1. q \in SUBSET [id : Nat, task : Nat]
    BY <1>1
  <2> HIDE DEF Commands
  <2> QED
    BY <1>1, <2>1 DEF ConnRecords
<1> HIDE DEF m
<1>4. Derived(m, old)
  BY <1>1, <1>3, WaitersKept
<1>5. m.peer = conns[c].peer /\ (m.open => conns[c].open) /\ Derived(m, conns[c])
  BY <1>3, <1>4 DEF old
<1> QED
  BY <1>1, <1>2, <1>3, <1>5, OneConnection

\* handle_handshake_frame.
LEMMA HandshakeStep ==
  ASSUME ProtoInv, NEW c \in DOMAIN conns, NEW due \in BOOLEAN, NEW f, NEW inTime,
         handle_handshake_frame(c, f, inTime, due)
  PROVE  ProtoInv'
<1> DEFINE old == conns[c]
           q == Pruned(c, due)
           m == [old EXCEPT !.handshake_completed = TRUE, !.pending_range_reqs = q]
<1>1. /\ c \in 1..Len(conns) /\ old \in ConnRecords /\ q \subseteq old.pending_range_reqs
      /\ old.pending_range_reqs \in SUBSET [id : Nat, task : Nat] /\ old.commands \in Seq(Commands)
  BY ConnTyped
<1>2. /\ conns' = [conns EXCEPT ![c] = m] \/ conns' = Dropped(c)
      /\ UNCHANGED <<registry, req_counter, requests, broadcasts>>
  BY DEF handle_handshake_frame
<1>2a. CASE conns' = Dropped(c)
  BY <1>2, <1>2a, DroppedStep
<1>2b. CASE conns' = [conns EXCEPT ![c] = m]
  <2> HIDE DEF old, q
  <2>3. /\ m \in ConnRecords /\ m.peer = old.peer /\ m.open = old.open
        /\ m.commands = old.commands /\ m.pending_range_reqs = q
    <3>1. q \in SUBSET [id : Nat, task : Nat]
      BY <1>1
    <3> HIDE DEF Commands
    <3> QED
      BY <1>1, <3>1 DEF ConnRecords
  <2> HIDE DEF m
  <2>4. Derived(m, old)
    BY <1>1, <2>3, WaitersKept
  <2>5. m.peer = conns[c].peer /\ (m.open => conns[c].open) /\ Derived(m, conns[c])
    BY <2>3, <2>4 DEF old
  <2> QED
    BY <1>1, <1>2, <1>2b, <2>3, <2>5, OneConnection
<1> QED
  BY <1>2, <1>2a, <1>2b

\* poll_outgoing_commands: a request that is sent is waited for where it was queued.
LEMMA CommandStep ==
  ASSUME ProtoInv, NEW c \in DOMAIN conns, NEW due \in BOOLEAN, poll_outgoing_commands(c, due)
  PROVE  ProtoInv'
<1> DEFINE old == conns[c]
           kept == Pruned(c, due)
           cmds == old.commands
           cmd == Head(cmds)
           rest == Tail(cmds)
           e == [id |-> cmd.id, task |-> cmd.task]
           q == IF cmd.type = "range" THEN {x \in kept : x.id # cmd.id} \cup {e} ELSE kept
           m == [old EXCEPT !.commands = rest, !.pending_range_reqs = q]
<1>1. /\ c \in 1..Len(conns) /\ old \in ConnRecords /\ kept \subseteq old.pending_range_reqs
      /\ old.pending_range_reqs \in SUBSET [id : Nat, task : Nat] /\ old.commands \in Seq(Commands)
  BY ConnTyped
<1>2. /\ conns' = [conns EXCEPT ![c] = m] /\ cmds # <<>>
      /\ UNCHANGED <<registry, req_counter, requests, broadcasts>>
  BY DEF poll_outgoing_commands
<1> HIDE DEF old, kept
<1>3. cmds \in Seq(Commands) /\ cmds # <<>>
  BY <1>1, <1>2
<1>4. old.commands = cmds
  OBVIOUS
<1> HIDE DEF cmds
<1>5. /\ Len(cmds) \in Nat /\ Len(cmds) >= 1 /\ cmd = cmds[1] /\ cmd \in Commands
      /\ rest \in Seq(Commands) /\ Len(rest) = Len(cmds) - 1 /\ \A i \in 1..Len(rest) : rest[i] = cmds[i + 1]
  <2>1. Len(cmds) \in Nat /\ Len(cmds) # 0
    BY <1>3, EmptySeq, LenProperties
  <2>2. cmd = cmds[1] /\ cmd \in Commands /\ rest \in Seq(Commands) /\ Len(rest) = Len(cmds) - 1
    BY <1>3, HeadTailProperties
  <2>3. \A i \in 1..Len(rest) : rest[i] = cmds[i + 1]
    BY <1>3, HeadTailProperties
  <2> QED
    BY <2>1, <2>2, <2>3
<1> HIDE DEF cmd, rest
<1>6. cmd.type = "range" => e \in [id : Nat, task : Nat] /\ e.id = cmd.id /\ e.task = cmd.task
  BY <1>5 DEF Commands
<1> HIDE DEF e
<1>7. q \in SUBSET [id : Nat, task : Nat]
  BY <1>1, <1>6
<1>8. \A x \in q : x \in old.pending_range_reqs \/ (cmd.type = "range" /\ x = e)
  BY <1>1
<1> HIDE DEF q
<1>9. m \in ConnRecords /\ m.peer = old.peer /\ m.open = old.open /\ m.commands = rest /\ m.pending_range_reqs = q
  <2> HIDE DEF Commands
  <2> QED
    BY <1>1, <1>5, <1>7 DEF ConnRecords
<1> HIDE DEF m
<1>10. Derived(m, old)
  <2>1. \A x \in m.pending_range_reqs :
          \/ x \in old.pending_range_reqs
          \/ \E i \in 1..Len(old.commands) : /\ old.commands[i].type = "range"
                                             /\ old.commands[i].id = x.id /\ old.commands[i].task = x.task
    <3> SUFFICES ASSUME NEW x \in q, x \notin old.pending_range_reqs
                 PROVE  \E i \in 1..Len(cmds) : /\ cmds[i].type = "range"
                                                /\ cmds[i].id = x.id /\ cmds[i].task = x.task
      BY <1>4, <1>9
    <3>1. 1 \in 1..Len(cmds) /\ cmds[1] = cmd
      BY <1>5
    <3>2. cmd.type = "range" /\ cmd.id = x.id /\ cmd.task = x.task
      BY <1>6, <1>8
    <3> QED
      BY <3>1, <3>2
  <2>2. \A i \in 1..Len(m.commands) : \E k \in 1..Len(old.commands) : m.commands[i] = old.commands[k]
    <3> SUFFICES ASSUME NEW i \in 1..Len(rest) PROVE \E k \in 1..Len(cmds) : rest[i] = cmds[k]
      BY <1>4, <1>9
    <3>1. i + 1 \in 1..Len(cmds) /\ rest[i] = cmds[i + 1]
      BY <1>5
    <3> QED
      BY <3>1
  <2> QED
    BY <2>1, <2>2 DEF Derived
<1>11. m.peer = conns[c].peer /\ (m.open => conns[c].open) /\ Derived(m, conns[c])
  BY <1>9, <1>10 DEF old
<1> QED
  BY <1>1, <1>2, <1>9, <1>11, OneConnection

\* A peer's answer: the waiters under its id are those of the request that has that id.
LEMMA AnswerStep ==
  ASSUME ProtoInv, NEW c \in DOMAIN conns, NEW due \in BOOLEAN, NEW r \in DOMAIN requests,
         NEW blocks \in Answers(r), requests[r].on = c, BlocksByRange(c, requests[r].id, blocks, due)
  PROVE  ProtoInv'
<1> DEFINE old == conns[c]
           id == requests[r].id
           kept == Pruned(c, due)
           waiters == {e \in kept : e.id = id}
           q == kept \ waiters
           m == [old EXCEPT !.pending_range_reqs = q]
<1>0. RegistryInv /\ RequestInv /\ LinkInv
  BY DEF ProtoInv
<1>1. /\ c \in 1..Len(conns) /\ c # 0 /\ old \in ConnRecords /\ kept \subseteq old.pending_range_reqs
      /\ old.pending_range_reqs \in SUBSET [id : Nat, task : Nat] /\ old.commands \in Seq(Commands)
  BY ConnTyped
<1>2. /\ conns' = [conns EXCEPT ![c] = m]
      /\ requests' = [s \in DOMAIN requests |->
           IF Waiting(s) /\ \E e \in waiters : e.task = s
             THEN [requests[s] EXCEPT !.at = "answered", !.blocks = blocks]
             ELSE requests[s]]
      /\ UNCHANGED <<registry, req_counter, broadcasts>>
  BY DEF BlocksByRange
<1>3. /\ Len(requests) \in Nat /\ DOMAIN requests = 1..Len(requests)
      /\ \A s \in 1..Len(requests) : requests[s] \in RequestRecords
  BY <1>0, Lengths
<1>4. \A e \in waiters : e.task = r
  <2> SUFFICES ASSUME NEW e \in kept, e.id = id PROVE e.task = r
    OBVIOUS
  <2>1. SentOver(requests, c, id, e.task)
    BY <1>0, <1>1 DEF LinkInv, Linked
  <2>2. e.task \in 1..Len(requests) /\ requests[e.task].on # 0 /\ requests[e.task].id = id
    BY <1>1, <2>1 DEF SentOver
  <2>3. requests[r].on # 0
    BY <1>1
  <2> QED
    BY <1>0, <1>3, <2>2, <2>3 DEF RequestInv
<1>5. \A s \in 1..Len(requests) :
        \/ requests'[s] = requests[s]
        \/ s = r /\ requests'[s] = [requests[s] EXCEPT !.at = "answered", !.blocks = blocks]
  <2> SUFFICES ASSUME NEW s \in 1..Len(requests), s # r PROVE requests'[s] = requests[s]
    <3> HIDE DEF waiters
    <3> QED
      BY <1>2, <1>3
  <2>1. ~\E e \in waiters : e.task = s
    BY <1>4
  <2> HIDE DEF waiters
  <2> QED
    BY <1>2, <1>3, <2>1
<1>6. q \subseteq old.pending_range_reqs /\ q \in SUBSET [id : Nat, task : Nat]
  BY <1>1
<1>7. DOMAIN requests' = 1..Len(requests) /\ requests' = [s \in 1..Len(requests) |-> requests'[s]]
  BY <1>2, <1>3
<1> HIDE DEF old, q, kept, waiters
<1>8. m \in ConnRecords /\ m.peer = old.peer /\ m.open = old.open /\ m.commands = old.commands /\ m.pending_range_reqs = q
  <2> HIDE DEF Commands
  <2> QED
    BY <1>1, <1>6 DEF ConnRecords
<1> HIDE DEF m
<1>9. m.peer = conns[c].peer /\ (m.open => conns[c].open) /\ Derived(m, conns[c])
  BY <1>6, <1>8, WaitersKept DEF old
<1>10. /\ ConnsKept /\ Len(conns') = Len(conns) /\ conns'[c] = m
       /\ \A d \in 1..Len(conns) : d # c => conns'[d] = conns[d]
  BY <1>0, <1>1, <1>2, <1>8, <1>9, ConnAdvances
<1>11. RegistryInv'
  BY <1>0, <1>2, <1>10, RegistryCalm
<1>12. blocks \in Seq(Blocks) /\ blocks \in {<<>>, <<requests[r].start>>}
  <2>1. blocks \in {<<>>, <<requests[r].start>>} /\ requests[r].start \in Blocks
    BY <1>3 DEF Answers, RequestRecords
  <2>2. <<>> \in Seq(Blocks) /\ \A b \in Blocks : <<b>> \in Seq(Blocks)
    OBVIOUS
  <2> QED
    BY <2>1, <2>2
<1>13. \A s \in 1..Len(requests) :
         /\ requests'[s] \in RequestRecords /\ requests'[s].on = requests[s].on /\ requests'[s].id = requests[s].id
         /\ requests'[s].peer = requests[s].peer /\ requests'[s].start = requests[s].start
         /\ requests'[s].at = "spawned" => requests[s].at = "spawned"
         /\ \/ requests'[s].at = requests[s].at /\ requests'[s].blocks = requests[s].blocks
            \/ s = r /\ requests'[s].at = "answered" /\ requests'[s].blocks = blocks
  <2> SUFFICES ASSUME NEW s \in 1..Len(requests)
               PROVE /\ requests'[s] \in RequestRecords /\ requests'[s].on = requests[s].on /\ requests'[s].id = requests[s].id
                     /\ requests'[s].peer = requests[s].peer /\ requests'[s].start = requests[s].start
                     /\ requests'[s].at = "spawned" => requests[s].at = "spawned"
                     /\ \/ requests'[s].at = requests[s].at /\ requests'[s].blocks = requests[s].blocks
                        \/ s = r /\ requests'[s].at = "answered" /\ requests'[s].blocks = blocks
    OBVIOUS
  <2>1. CASE requests'[s] = requests[s]
    BY <1>3, <2>1
  <2>2. CASE s = r /\ requests'[s] = [requests[s] EXCEPT !.at = "answered", !.blocks = blocks]
    BY <1>3, <1>12, <2>2 DEF RequestRecords
  <2> QED
    BY <1>5, <2>1, <2>2
<1>14. requests' \in Seq(RequestRecords) /\ Len(requests') = Len(requests)
  <2>1. requests' \in [1..Len(requests) -> RequestRecords]
    BY <1>7, <1>13
  <2> QED
    BY <1>3, <2>1, SeqDef, LenProperties
<1>15. RequestsKept
  BY <1>3, <1>13, <1>14 DEF RequestsKept
<1>16. RequestInv'
  <2>1. \A s \in 1..Len(requests) : requests'[s].on # 0 =>
          /\ requests'[s].on \in 1..Len(conns') /\ conns'[requests'[s].on].peer = requests'[s].peer
          /\ requests'[s].id < req_counter'
    <3>1. \A s \in 1..Len(requests) : requests[s].on # 0 =>
            /\ requests[s].on \in 1..Len(conns) /\ conns[requests[s].on].peer = requests[s].peer
            /\ requests[s].id < req_counter
      BY <1>0 DEF RequestInv
    <3>2. \A d \in 1..Len(conns) : conns'[d].peer = conns[d].peer
      BY <1>10 DEF ConnsKept
    <3> SUFFICES ASSUME NEW s \in 1..Len(requests), requests'[s].on # 0
                 PROVE  /\ requests'[s].on \in 1..Len(conns') /\ conns'[requests'[s].on].peer = requests'[s].peer
                        /\ requests'[s].id < req_counter'
      OBVIOUS
    <3>3. requests'[s].on = requests[s].on /\ requests'[s].peer = requests[s].peer /\ requests'[s].id = requests[s].id
      BY <1>13
    <3>4. /\ requests[s].on \in 1..Len(conns) /\ conns[requests[s].on].peer = requests[s].peer
          /\ requests[s].id < req_counter
      BY <3>1, <3>3
    <3> QED
      BY <1>2, <1>10, <3>2, <3>3, <3>4
  <2>2. \A s \in 1..Len(requests) :
          /\ requests'[s].at = "spawned" => requests'[s].on = 0
          /\ requests'[s].at \in {"waiting", "answered", "done"} => requests'[s].on # 0
    BY <1>0, <1>1, <1>13 DEF RequestInv
  <2>3. \A s \in 1..Len(requests) : requests'[s].at \in {"answered", "done"} =>
          requests'[s].on # 0 /\ requests'[s].blocks \in {<<>>, <<requests'[s].start>>}
    <3>1. \A s \in 1..Len(requests) : requests[s].at \in {"answered", "done"} =>
            requests[s].on # 0 /\ requests[s].blocks \in {<<>>, <<requests[s].start>>}
      BY <1>0 DEF RequestInv, Answers
    <3> QED
      BY <1>12, <1>13, <2>2, <3>1
  <2>4. \A s, t \in 1..Len(requests) :
          requests'[s].on # 0 /\ requests'[t].on # 0 /\ requests'[s].id = requests'[t].id => s = t
    BY <1>0, <1>13 DEF RequestInv
  <2> QED
    <3>1. \A s \in 1..Len(requests') : requests'[s].at \in {"answered", "done"} => requests'[s].blocks \in Answers(s)'
      BY <1>14, <2>3 DEF Answers
    <3>2. req_counter' \in Nat
      BY <1>0, <1>2 DEF RequestInv
    <3> QED
      BY <1>14, <2>1, <2>2, <2>4, <3>1, <3>2 DEF RequestInv
<1>17. \A d \in 1..Len(conns) : Derived(conns'[d], conns[d])
  <2> SUFFICES ASSUME NEW d \in 1..Len(conns) PROVE Derived(conns'[d], conns[d])
    OBVIOUS
  <2>1. CASE d = c
    BY <1>9, <1>10, <2>1
  <2>2. CASE d # c
    <3>1. conns'[d] = conns[d]
      BY <1>10, <2>2
    <3> QED
      BY <3>1, DerivedSame
  <2> QED
    BY <2>1, <2>2
<1> QED
  BY <1>0, <1>3, <1>10, <1>11, <1>14, <1>15, <1>16, <1>17, LinkCalm DEF ProtoInv

\* The connections and the registry, when neither changes.
LEMMA ConnsSame ==
  ASSUME ProtoInv, UNCHANGED <<conns, registry, broadcasts>>
  PROVE  /\ RegistryInv' /\ ConnsKept /\ Len(conns') = Len(conns)
         /\ \A c \in 1..Len(conns) : Derived(conns'[c], conns[c])
<1>0. RegistryInv /\ RequestInv
  BY DEF ProtoInv
<1>1. ConnsKept /\ Len(conns') = Len(conns)
  <2>1. Len(conns) \in Nat /\ conns \in Seq(ConnRecords)
    BY <1>0, Lengths DEF RegistryInv
  <2> QED
    BY <2>1 DEF ConnsKept
<1>2. \A c \in 1..Len(conns) : Derived(conns'[c], conns[c])
  BY DerivedSame
<1> QED
  BY <1>0, <1>1, <1>2, RegistryCalm

\* A request ends, in one way or another.
LEMMA RequestMoves ==
  ASSUME ProtoInv, NEW r \in DOMAIN requests, NEW x \in {"failed", "timed_out", "canceled", "done"},
         x = "done" => requests[r].at = "answered",
         requests' = [requests EXCEPT ![r].at = x], req_counter' \in Nat, req_counter' >= req_counter,
         UNCHANGED <<conns, registry, broadcasts>>
  PROVE  ProtoInv'
<1>0. RegistryInv /\ RequestInv /\ LinkInv
  BY DEF ProtoInv
<1>1. /\ Len(requests) \in Nat /\ DOMAIN requests = 1..Len(requests)
      /\ \A s \in 1..Len(requests) : requests[s] \in RequestRecords
  BY <1>0, Lengths
<1>2. /\ RegistryInv' /\ ConnsKept /\ Len(conns') = Len(conns)
      /\ \A c \in 1..Len(conns) : Derived(conns'[c], conns[c])
  BY ConnsSame
<1>3. DOMAIN requests' = 1..Len(requests) /\ requests' = [s \in 1..Len(requests) |-> requests'[s]]
  BY <1>1
<1>4. \A s \in 1..Len(requests) :
        /\ requests'[s] \in RequestRecords /\ requests'[s].on = requests[s].on /\ requests'[s].id = requests[s].id
        /\ requests'[s].peer = requests[s].peer /\ requests'[s].start = requests[s].start
        /\ requests'[s].blocks = requests[s].blocks
        /\ requests'[s].at = requests[s].at \/ (s = r /\ requests'[s].at = x)
  <2> SUFFICES ASSUME NEW s \in 1..Len(requests)
               PROVE /\ requests'[s] \in RequestRecords /\ requests'[s].on = requests[s].on /\ requests'[s].id = requests[s].id
                     /\ requests'[s].peer = requests[s].peer /\ requests'[s].start = requests[s].start
                     /\ requests'[s].blocks = requests[s].blocks
                     /\ requests'[s].at = requests[s].at \/ (s = r /\ requests'[s].at = x)
    OBVIOUS
  <2>1. CASE s # r
    <3>1. requests'[s] = requests[s]
      BY <1>1, <2>1
    <3> QED
      BY <1>1, <3>1
  <2>2. CASE s = r
    <3>1. requests'[s] = [requests[s] EXCEPT !.at = x]
      BY <1>1, <2>2
    <3> QED
      BY <1>1, <2>2, <3>1 DEF RequestRecords
  <2> QED
    BY <2>1, <2>2
<1>5. requests' \in Seq(RequestRecords) /\ Len(requests') = Len(requests)
  <2>1. requests' \in [1..Len(requests) -> RequestRecords]
    BY <1>3, <1>4
  <2> QED
    BY <1>1, <2>1, SeqDef, LenProperties
<1>6. RequestsKept
  BY <1>1, <1>4, <1>5 DEF RequestsKept
<1>7. RequestInv'
  <2>1. ASSUME NEW s \in 1..Len(requests)
        PROVE  /\ requests'[s].on # 0 =>
                    /\ requests'[s].on \in 1..Len(conns') /\ conns'[requests'[s].on].peer = requests'[s].peer
                    /\ requests'[s].id < req_counter'
               /\ requests'[s].at = "spawned" => requests'[s].on = 0
               /\ requests'[s].at \in {"waiting", "answered", "done"} => requests'[s].on # 0
               /\ requests'[s].at \in {"answered", "done"} => requests'[s].blocks \in Answers(s)'
    <3>1. /\ requests[s].on # 0 =>
               /\ requests[s].on \in 1..Len(conns) /\ conns[requests[s].on].peer = requests[s].peer
               /\ requests[s].id < req_counter
          /\ requests[s].at = "spawned" => requests[s].on = 0
          /\ requests[s].at \in {"waiting", "answered", "done"} => requests[s].on # 0
          /\ requests[s].at \in {"answered", "done"} => requests[s].blocks \in Answers(s)
      BY <1>0 DEF RequestInv
    <3>2. Answers(s)' = Answers(s)
      BY <1>4 DEF Answers
    <3>3. requests[s].id \in Nat /\ req_counter \in Nat
      BY <1>0, <1>1 DEF RequestRecords, RequestInv
    <3>4. requests'[s].at \in {"waiting", "answered", "done"} => requests[s].at \in {"waiting", "answered", "done"}
      BY <1>4
    <3>5. requests'[s].at \in {"answered", "done"} => requests[s].at \in {"answered", "done"}
      BY <1>4
    <3>6. requests'[s].at = "spawned" => requests[s].at = "spawned"
      BY <1>4
    <3> QED
      BY <1>4, <3>1, <3>2, <3>3, <3>4, <3>5, <3>6
  <2>2. \A s, t \in 1..Len(requests) :
          requests'[s].on # 0 /\ requests'[t].on # 0 /\ requests'[s].id = requests'[t].id => s = t
    BY <1>0, <1>4 DEF RequestInv
  <2> QED
    BY <1>5, <2>1, <2>2 DEF RequestInv
<1> QED
  BY <1>0, <1>2, <1>5, <1>6, <1>7, LinkCalm DEF ProtoInv

\* A block is asked for: the task is spawned, nothing is sent yet.
LEMMA RequestSpawned ==
  ASSUME ProtoInv, NEW p \in Peers, NEW b \in Blocks,
         requests' = Append(requests, [peer |-> p, start |-> b, at |-> "spawned",
                                       id |-> 0, on |-> 0, blocks |-> <<>>]),
         UNCHANGED <<conns, registry, req_counter, broadcasts>>
  PROVE  ProtoInv'
<1> DEFINE new == [peer |-> p, start |-> b, at |-> "spawned", id |-> 0, on |-> 0, blocks |-> <<>>]
           L == Len(requests)
<1>0. RegistryInv /\ RequestInv /\ LinkInv
  BY DEF ProtoInv
<1>1. L \in Nat /\ requests \in Seq(RequestRecords)
  BY <1>0, Lengths DEF RequestInv
<1>2. /\ RegistryInv' /\ ConnsKept /\ Len(conns') = Len(conns)
      /\ \A c \in 1..Len(conns) : Derived(conns'[c], conns[c])
  BY ConnsSame
<1>3. new \in RequestRecords /\ new.on = 0 /\ new.at = "spawned"
  <2>1. <<>> \in Seq(Blocks)
    BY EmptySeq
  <2> QED
    BY <2>1 DEF RequestRecords
<1>3a. requests' = Append(requests, new)
  OBVIOUS
<1> HIDE DEF new
<1>4. /\ requests' \in Seq(RequestRecords) /\ Len(requests') = L + 1 /\ requests'[L + 1] = new
      /\ \A s \in 1..L : requests'[s] = requests[s]
  BY <1>1, <1>3, <1>3a, AppendProperties
<1> HIDE DEF L
<1>5. RequestsKept
  BY <1>1, <1>4 DEF RequestsKept, L
<1>6. RequestInv'
  <2>0. \A s \in 1..(L + 1) : s \in 1..L \/ s = L + 1
    BY <1>1
  <2>1. ASSUME NEW s \in 1..(L + 1)
        PROVE  /\ requests'[s].on # 0 =>
                    /\ requests'[s].on \in 1..Len(conns') /\ conns'[requests'[s].on].peer = requests'[s].peer
                    /\ requests'[s].id < req_counter'
               /\ requests'[s].at = "spawned" => requests'[s].on = 0
               /\ requests'[s].at \in {"waiting", "answered", "done"} => requests'[s].on # 0
               /\ requests'[s].at \in {"answered", "done"} => requests'[s].blocks \in Answers(s)'
    <3>1. CASE s \in 1..L
      <4>1. requests'[s] = requests[s] /\ Answers(s)' = Answers(s)
        BY <1>4, <3>1 DEF Answers
      <4> QED
        BY <1>0, <3>1, <4>1 DEF RequestInv, L
    <3>2. CASE s = L + 1
      BY <1>3, <1>4, <3>2
    <3> QED
      BY <2>0, <3>1, <3>2
  <2>2. \A s, t \in 1..(L + 1) :
          requests'[s].on # 0 /\ requests'[t].on # 0 /\ requests'[s].id = requests'[t].id => s = t
    <3> SUFFICES ASSUME NEW s \in 1..(L + 1), NEW t \in 1..(L + 1), requests'[s].on # 0, requests'[t].on # 0,
                        requests'[s].id = requests'[t].id
                 PROVE  s = t
      OBVIOUS
    <3>1. s \in 1..L /\ t \in 1..L
      BY <1>3, <1>4, <2>0
    <3> QED
      BY <1>0, <1>4, <3>1 DEF RequestInv, L
  <2>3. req_counter' \in Nat
    BY <1>0 DEF RequestInv
  <2> QED
    BY <1>4, <2>1, <2>2, <2>3 DEF RequestInv
<1>7. Len(requests') \in Nat
  BY <1>1, <1>4
<1> QED
  BY <1>0, <1>2, <1>5, <1>6, <1>7, LinkCalm DEF ProtoInv

\* The command goes to the sender the registry holds, under an id that no request had.
LEMMA RequestSent ==
  ASSUME ProtoInv, NEW r \in DOMAIN requests, NEW c, c = registry[requests[r].peer], c # 0, Open(c),
         requests[r].at = "spawned", req_counter' = req_counter + 1,
         conns' = [conns EXCEPT ![c].commands = Append(@, [type |-> "range", id |-> req_counter, task |-> r])],
         requests' = [requests EXCEPT ![r].at = "waiting", ![r].id = req_counter, ![r].on = c],
         UNCHANGED <<registry, broadcasts>>
  PROVE  ProtoInv'
<1> DEFINE old == conns[c]
           id == req_counter
           cmd == [type |-> "range", id |-> id, task |-> r]
           cmds == Append(old.commands, cmd)
           m == [old EXCEPT !.commands = cmds]
           L == Len(requests)
           q == requests[r]
           sent == [q EXCEPT !.at = "waiting", !.id = id, !.on = c]
<1>0. RegistryInv /\ RequestInv /\ LinkInv
  BY DEF ProtoInv
<1>1. /\ L \in Nat /\ DOMAIN requests = 1..L /\ r \in 1..L
      /\ \A s \in 1..L : requests[s] \in RequestRecords
  BY <1>0, Lengths
<1>2. c \in 1..Len(conns) /\ conns[c].peer = q.peer /\ id \in Nat /\ q.on = 0
  <2>1. q.peer \in Peers
    BY <1>1 DEF RequestRecords
  <2> QED
    BY <1>0, <1>1, <2>1 DEF RegistryInv, RequestInv
<1>3. /\ c \in DOMAIN conns /\ old \in ConnRecords /\ old.commands \in Seq(Commands)
  <2>1. DOMAIN conns = 1..Len(conns)
    BY <1>0, Lengths
  <2> QED
    BY <1>2, <2>1, ConnTyped
<1>4. conns' = [conns EXCEPT ![c] = m] /\ requests' = [requests EXCEPT ![r] = sent]
  OBVIOUS
<1>5. r \in Nat /\ cmd \in Commands
  BY <1>1, <1>2 DEF Commands
<1> HIDE DEF old, cmd
<1>6. /\ cmds \in Seq(Commands) /\ Len(cmds) = Len(old.commands) + 1 /\ cmds[Len(old.commands) + 1] = cmd
      /\ \A i \in 1..Len(old.commands) : cmds[i] = old.commands[i]
  BY <1>3, <1>5, AppendProperties
<1> HIDE DEF cmds
<1>7. /\ m \in ConnRecords /\ m.peer = old.peer /\ m.open = old.open /\ m.commands = cmds
      /\ m.pending_range_reqs = old.pending_range_reqs
  <2> HIDE DEF Commands
  <2> QED
    BY <1>3, <1>6 DEF ConnRecords
<1> HIDE DEF m
<1>8. m.peer = conns[c].peer /\ (m.open => conns[c].open)
  BY <1>7 DEF old
<1>9. /\ ConnsKept /\ Len(conns') = Len(conns) /\ conns'[c] = m
      /\ \A d \in 1..Len(conns) : d # c => conns'[d] = conns[d]
  <2>1. RegistryInv /\ RequestInv /\ c \in 1..Len(conns) /\ m \in ConnRecords /\ conns' = [conns EXCEPT ![c] = m]
    BY <1>0, <1>2, <1>4, <1>7
  <2> QED
    BY <1>8, <2>1, ConnAdvances
<1>10. RegistryInv'
  BY <1>0, <1>9, RegistryCalm
<1>11. /\ sent \in RequestRecords /\ sent.on = c /\ sent.id = id /\ sent.peer = q.peer /\ sent.at = "waiting"
  <2>1. q \in RequestRecords /\ c \in Nat
    <3>1. Len(conns) \in Nat
      BY <1>0, Lengths
    <3> QED
      BY <1>1, <1>2, <3>1
  <2> HIDE DEF q
  <2> QED
    BY <1>2, <2>1 DEF RequestRecords
<1> HIDE DEF sent, L
<1>12. /\ requests'[r] = sent /\ \A s \in 1..L : s # r => requests'[s] = requests[s]
       /\ requests' \in Seq(RequestRecords) /\ Len(requests') = L
  <2>1. requests \in Seq(RequestRecords) /\ L = Len(requests)
    BY <1>0 DEF RequestInv, L
  <2>2. requests' \in Seq(RequestRecords) /\ Len(requests') = L
    <3> HIDE DEF q
    <3>1. [requests EXCEPT ![r] = sent] \in Seq(RequestRecords) /\ Len([requests EXCEPT ![r] = sent]) = Len(requests)
      BY <1>1, <1>11, <2>1, ExceptSeq
    <3> QED
      BY <1>4, <2>1, <3>1
  <2> QED
    BY <1>1, <1>4, <2>2
<1>13. RequestsKept
  <2> SUFFICES ASSUME NEW s \in 1..L, requests[s].on # 0
               PROVE  requests'[s].on = requests[s].on /\ requests'[s].id = requests[s].id
    BY <1>1, <1>12 DEF RequestsKept, L
  <2>1. s # r
    BY <1>2
  <2> QED
    BY <1>12, <2>1
<1>14. RequestInv'
  <2>1. ASSUME NEW s \in 1..L
        PROVE  /\ requests'[s].on # 0 =>
                    /\ requests'[s].on \in 1..Len(conns') /\ conns'[requests'[s].on].peer = requests'[s].peer
                    /\ requests'[s].id < req_counter'
               /\ requests'[s].at = "spawned" => requests'[s].on = 0
               /\ requests'[s].at \in {"waiting", "answered", "done"} => requests'[s].on # 0
               /\ requests'[s].at \in {"answered", "done"} => requests'[s].blocks \in Answers(s)'
    <3>1. CASE s = r
      <4>1. conns'[c].peer = q.peer
        BY <1>2, <1>8, <1>9
      <4>2. id < req_counter'
        BY <1>2
      <4>3. /\ requests'[s].on = c /\ requests'[s].id = id /\ requests'[s].peer = q.peer
            /\ requests'[s].at = "waiting" /\ c \in 1..Len(conns')
        BY <1>2, <1>9, <1>11, <1>12, <3>1
      <4> HIDE DEF q, id
      <4> QED
        BY <4>1, <4>2, <4>3
    <3>2. CASE s # r
      <4>1. requests'[s] = requests[s]
        BY <1>12, <3>2
      <4>2. Answers(s)' = Answers(s)
        BY <4>1 DEF Answers
      <4>3. /\ requests[s].on # 0 =>
                 /\ requests[s].on \in 1..Len(conns) /\ conns[requests[s].on].peer = requests[s].peer
                 /\ requests[s].id < req_counter
            /\ requests[s].at = "spawned" => requests[s].on = 0
            /\ requests[s].at \in {"waiting", "answered", "done"} => requests[s].on # 0
            /\ requests[s].at \in {"answered", "done"} => requests[s].blocks \in Answers(s)
        BY <1>0 DEF RequestInv, L
      <4>4. \A d \in 1..Len(conns) : conns'[d].peer = conns[d].peer
        BY <1>9 DEF ConnsKept
      <4>5. requests[s].id \in Nat
        BY <1>1 DEF RequestRecords
      <4>6. requests[s].id < req_counter => requests[s].id < req_counter'
        BY <1>2, <4>5
      <4> QED
        BY <1>9, <4>1, <4>2, <4>3, <4>4, <4>6
    <3> QED
      BY <3>1, <3>2
  <2>2. ASSUME NEW s \in 1..L, NEW t \in 1..L, requests'[s].on # 0, requests'[t].on # 0,
               requests'[s].id = requests'[t].id
        PROVE  s = t
    <3>1. \A x \in 1..L : x # r /\ requests'[x].on # 0 =>
            requests'[x] = requests[x] /\ requests'[x].id # id
      <4> SUFFICES ASSUME NEW x \in 1..L, x # r, requests'[x].on # 0
                   PROVE  requests'[x] = requests[x] /\ requests'[x].id # id
        OBVIOUS
      <4>1. requests'[x] = requests[x]
        BY <1>12
      <4>2. requests[x].id < id /\ requests[x].id \in Nat
        BY <1>0, <1>1, <4>1 DEF RequestInv, RequestRecords, L
      <4> QED
        BY <1>2, <4>1, <4>2
    <3>2. CASE s = r \/ t = r
      <4>1. requests'[r].id = id
        BY <1>11, <1>12
      <4> QED
        BY <2>2, <3>1, <3>2, <4>1
    <3>3. CASE s # r /\ t # r
      <4>1. requests'[s] = requests[s] /\ requests'[t] = requests[t]
        BY <1>12, <3>3
      <4> QED
        BY <1>0, <2>2, <4>1 DEF RequestInv, L
    <3> QED
      BY <3>2, <3>3
  <2>3. req_counter' \in Nat
    BY <1>2
  <2>4. requests' \in Seq(RequestRecords) /\ Len(requests') = L
    BY <1>12
  <2>5. \A s, t \in 1..Len(requests') :
          requests'[s].on # 0 /\ requests'[t].on # 0 /\ requests'[s].id = requests'[t].id => s = t
    BY <2>2, <2>4
  <2>6. \A s \in 1..Len(requests') :
          /\ requests'[s].on # 0 =>
               /\ requests'[s].on \in 1..Len(conns') /\ conns'[requests'[s].on].peer = requests'[s].peer
               /\ requests'[s].id < req_counter'
          /\ requests'[s].at = "spawned" => requests'[s].on = 0
          /\ requests'[s].at \in {"waiting", "answered", "done"} => requests'[s].on # 0
          /\ requests'[s].at \in {"answered", "done"} => requests'[s].blocks \in Answers(s)'
    BY <2>1, <2>4
  <2> QED
    BY <2>3, <2>4, <2>5, <2>6 DEF RequestInv
<1>15. LinkInv'
  <2>0. \A d, x, s : d # 0 /\ SentOver(requests, d, x, s) => SentOver(requests', d, x, s)
    BY <1>12, <1>13 DEF SentOver, RequestsKept, L
  <2>1. SentOver(requests', c, id, r)
    BY <1>1, <1>11, <1>12 DEF SentOver
  <2> SUFFICES ASSUME NEW d \in 1..Len(conns) PROVE Linked(requests', d, conns'[d])
    BY <1>9 DEF LinkInv
  <2>2. d # 0 /\ Linked(requests, d, conns[d])
    BY <1>0, Lengths DEF LinkInv
  <2>3. CASE d # c
    <3>1. conns'[d] = conns[d]
      BY <1>9, <2>3
    <3> QED
      BY <2>0, <2>2, <3>1 DEF Linked
  <2>4. CASE d = c
    <3>1. Linked(requests, c, old) /\ conns'[d] = m /\ c # 0
      BY <1>9, <2>2, <2>4 DEF old
    <3>2. \A e \in m.pending_range_reqs : SentOver(requests', c, e.id, e.task)
      BY <1>7, <2>0, <3>1 DEF Linked
    <3>3. ASSUME NEW i \in 1..Len(cmds), cmds[i].type = "range"
          PROVE  SentOver(requests', c, cmds[i].id, cmds[i].task)
      <4>0. Len(old.commands) \in Nat
        BY <1>3, LenProperties
      <4>1. CASE i \in 1..Len(old.commands)
        BY <1>6, <2>0, <3>1, <3>3, <4>1 DEF Linked
      <4>2. CASE i = Len(old.commands) + 1
        <5>1. cmds[i] = cmd /\ cmd.id = id /\ cmd.task = r
          BY <1>6, <4>2 DEF cmd
        <5> QED
          BY <2>1, <5>1
      <4> QED
        BY <1>6, <4>0, <4>1, <4>2
    <3> QED
      BY <1>7, <2>4, <3>1, <3>2, <3>3 DEF Linked
  <2> QED
    BY <2>3, <2>4
<1> QED
  BY <1>10, <1>14, <1>15 DEF ProtoInv

\* request_blocks_by_range and request_ends.
LEMMA RequestStep ==
  ASSUME ProtoInv, NEW r \in DOMAIN requests, request_blocks_by_range(r) \/ request_ends(r)
  PROVE  ProtoInv'
<1>0. req_counter \in Nat
  BY DEF ProtoInv, RequestInv
<1> DEFINE c == registry[requests[r].peer]
<1>1. CASE request_ends(r)
  <2>1. /\ UNCHANGED <<conns, registry, req_counter, broadcasts>>
        /\ requests' = [requests EXCEPT ![r].at = "timed_out"] \/ requests' = [requests EXCEPT ![r].at = "canceled"]
    BY <1>1 DEF request_ends
  <2>1a. req_counter' \in Nat /\ req_counter' >= req_counter
    BY <1>0, <2>1
  <2>2. CASE requests' = [requests EXCEPT ![r].at = "timed_out"]
    BY <2>1, <2>1a, <2>2, RequestMoves
  <2>3. CASE requests' = [requests EXCEPT ![r].at = "canceled"]
    BY <2>1, <2>1a, <2>3, RequestMoves
  <2> QED
    BY <2>1, <2>2, <2>3
<1>2. CASE request_blocks_by_range(r)
  <2>1. /\ requests[r].at = "spawned" /\ UNCHANGED <<registry, broadcasts>>
        /\ \/ /\ requests' = [requests EXCEPT ![r].at = "failed"]
              /\ UNCHANGED conns /\ (UNCHANGED req_counter \/ req_counter' = req_counter + 1)
           \/ /\ c # 0 /\ Open(c) /\ req_counter' = req_counter + 1
              /\ conns' = [conns EXCEPT ![c].commands = Append(@, [type |-> "range", id |-> req_counter, task |-> r])]
              /\ requests' = [requests EXCEPT ![r].at = "waiting", ![r].id = req_counter, ![r].on = c]
    BY <1>2 DEF request_blocks_by_range, NextRequestId
  <2>2. CASE requests' = [requests EXCEPT ![r].at = "failed"] /\ UNCHANGED conns
             /\ (UNCHANGED req_counter \/ req_counter' = req_counter + 1)
    <3>1. req_counter' \in Nat /\ req_counter' >= req_counter
      BY <1>0, <2>2
    <3> QED
      BY <2>1, <2>2, <3>1, RequestMoves
  <2>3. CASE /\ c # 0 /\ Open(c) /\ req_counter' = req_counter + 1
             /\ conns' = [conns EXCEPT ![c].commands = Append(@, [type |-> "range", id |-> req_counter, task |-> r])]
             /\ requests' = [requests EXCEPT ![r].at = "waiting", ![r].id = req_counter, ![r].on = c]
    <3> HIDE DEF c
    <3>1. c = registry[requests[r].peer]
      BY DEF c
    <3> QED
      BY <2>1, <2>3, <3>1, RequestSent
  <2> QED
    BY <2>1, <2>2, <2>3
<1> QED
  BY <1>1, <1>2

\* into_connection: the new connection is the peer's newest and takes its place.
LEMMA ConnectStep ==
  ASSUME ProtoInv, NEW p \in Peers, into_connection(p)
  PROVE  ProtoInv'
<1> DEFINE new == NewConnection(p)
           L == Len(conns)
<1>0. RegistryInv /\ RequestInv /\ LinkInv
  BY DEF ProtoInv
<1>1. L \in Nat /\ DOMAIN conns = 1..L /\ conns \in Seq(ConnRecords) /\ registry \in [Peers -> Nat]
  BY <1>0, Lengths DEF RegistryInv
<1>2. /\ conns' = Append(conns, new) /\ registry' = [registry EXCEPT ![p] = Len(conns')]
      /\ UNCHANGED <<req_counter, requests, broadcasts>>
  BY DEF into_connection, register_peer
<1>3. new \in ConnRecords /\ new.peer = p /\ new.open /\ new.commands = <<>> /\ new.pending_range_reqs = {}
  <2>1. <<>> \in Seq(Commands) /\ {} \in SUBSET [id : Nat, task : Nat] /\ VersionOf[p] \in {1, 2}
    BY EmptySeq, ProtocolConstants
  <2>2. disable_peer_tx_broadcast \in BOOLEAN
    BY DEF disable_peer_tx_broadcast
  <2> HIDE DEF Commands
  <2> QED
    BY <2>1, <2>2 DEF ConnRecords, NewConnection
<1> HIDE DEF new
<1>4. /\ conns' \in Seq(ConnRecords) /\ Len(conns') = L + 1 /\ conns'[L + 1] = new
      /\ \A c \in 1..L : conns'[c] = conns[c]
  BY <1>1, <1>2, <1>3, AppendProperties
<1>5. ConnsKept
  BY <1>1, <1>4 DEF ConnsKept
<1>6. RequestInv' /\ RequestsKept
  BY <1>0, <1>2, <1>5, RequestCalm
<1>7. /\ \A c \in 1..(L + 1) : c \in 1..L \/ c = L + 1
      /\ \A c \in 1..L : c \in 1..(L + 1) /\ c # L + 1
      /\ L + 1 \in 1..(L + 1) /\ L + 1 \in Nat /\ L + 1 # 0 /\ DOMAIN conns' = 1..(L + 1)
  BY <1>1, <1>4, LenProperties
<1>8. registry' \in [Peers -> Nat] /\ registry'[p] = L + 1 /\ \A q \in Peers : q # p => registry'[q] = registry[q]
  BY <1>1, <1>2, <1>4, <1>7
<1>9. RegistryInv'
  <2>1. ASSUME NEW q \in Peers, registry'[q] # 0
        PROVE  registry'[q] \in 1..(L + 1) /\ conns'[registry'[q]].peer = q
    <3>1. CASE q = p
      BY <1>3, <1>4, <1>7, <1>8, <3>1
    <3>2. CASE q # p
      <4>1. registry[q] \in 1..L /\ conns[registry[q]].peer = q /\ registry'[q] = registry[q]
        BY <1>0, <1>8, <2>1, <3>2 DEF RegistryInv
      <4> QED
        BY <1>4, <1>7, <4>1
    <3> QED
      BY <3>1, <3>2
  <2>2. ASSUME NEW k \in 1..Len(broadcasts)
        PROVE  BroadcastFits(conns', broadcasts[k]) /\ RemovedGone(broadcasts[k], registry')
    <3> DEFINE b == broadcasts[k]
    <3>1. BroadcastFits(conns, b) /\ RemovedGone(b, registry) /\ b \in BroadcastRecords
      BY <1>0, Lengths DEF RegistryInv
    <3> HIDE DEF b
    <3>2. BroadcastFits(conns', b)
      BY <1>4, <1>7, <3>1 DEF BroadcastFits
    <3>3. \A q \in b.to_remove : q \in Peers
      BY <3>1 DEF BroadcastRecords
    <3>4. ASSUME NEW q \in b.to_remove, b.at = "done" PROVE registry'[q] # b.snapshot[q]
      <4>1. b.snapshot[q] \in 1..L /\ registry[q] # b.snapshot[q] /\ q \in Peers
        BY <3>1, <3>3, <3>4 DEF BroadcastFits, RemovedGone
      <4> QED
        BY <1>7, <1>8, <4>1
    <3>5. RemovedGone(b, registry')
      BY <3>4 DEF RemovedGone
    <3> QED
      BY <3>2, <3>5 DEF b
  <2>3. NewestHeld(conns', registry')
    <3> SUFFICES ASSUME NEW c \in 1..(L + 1), \A d \in 1..(L + 1) : conns'[d].peer = conns'[c].peer => d <= c
                 PROVE  \/ registry'[conns'[c].peer] = c
                        \/ /\ registry'[conns'[c].peer] = 0
                           /\ \E d \in 1..(L + 1) : conns'[d].peer = conns'[c].peer /\ ~conns'[d].open
      BY <1>4 DEF NewestHeld
    <3>1. CASE c = L + 1
      BY <1>3, <1>4, <1>8, <3>1
    <3>2. CASE c \in 1..L
      <4>1. conns'[c] = conns[c] /\ conns[c] \in ConnRecords
        BY <1>0, <1>4, <3>2, Lengths
      <4>2. conns[c].peer # p /\ conns[c].peer \in Peers
        <5>1. ~(L + 1 <= c)
          BY <1>1, <3>2
        <5>2. conns[c].peer \in Peers
          BY <4>1 DEF ConnRecords
        <5> QED
          BY <1>3, <1>4, <1>7, <4>1, <5>1, <5>2
      <4>3. \A d \in 1..L : conns[d].peer = conns[c].peer => d <= c
        BY <1>4, <1>7, <4>1
      <4>4. \/ registry[conns[c].peer] = c
            \/ registry[conns[c].peer] = 0 /\ \E d \in 1..L : conns[d].peer = conns[c].peer /\ ~conns[d].open
        BY <1>0, <3>2, <4>3 DEF RegistryInv, NewestHeld
      <4> QED
        BY <1>4, <1>7, <1>8, <4>1, <4>2, <4>4
    <3> QED
      BY <1>7, <3>1, <3>2
  <2>4. broadcasts' \in Seq(BroadcastRecords) /\ broadcasts' = broadcasts
    BY <1>0, <1>2 DEF RegistryInv
  <2> QED
    BY <1>4, <1>8, <2>1, <2>2, <2>3, <2>4 DEF RegistryInv
<1>10. LinkInv'
  <2> SUFFICES ASSUME NEW c \in 1..(L + 1) PROVE Linked(requests', c, conns'[c])
    BY <1>4 DEF LinkInv
  <2>1. CASE c \in 1..L
    BY <1>0, <1>2, <1>4, <2>1 DEF LinkInv
  <2>2. CASE c = L + 1
    <3>1. conns'[c] = new /\ Len(new.commands) = 0
      BY <1>3, <1>4, <2>2, EmptySeq
    <3> QED
      BY <1>3, <3>1 DEF Linked
  <2> QED
    BY <1>7, <2>1, <2>2
<1> QED
  BY <1>6, <1>9, <1>10 DEF ProtoInv

\* broadcast_votes: the registry is copied.
LEMMA BroadcastStep ==
  ASSUME ProtoInv, broadcast_votes
  PROVE  ProtoInv'
<1> DEFINE new == [at |-> "send", snapshot |-> registry, to_remove |-> {}]
           K == Len(broadcasts)
<1>0. RegistryInv /\ RequestInv /\ LinkInv
  BY DEF ProtoInv
<1>1. K \in Nat /\ broadcasts \in Seq(BroadcastRecords) /\ registry \in [Peers -> Nat]
  BY <1>0, Lengths DEF RegistryInv
<1>2. broadcasts' = Append(broadcasts, new) /\ UNCHANGED <<conns, registry, req_counter, requests>>
  BY DEF broadcast_votes
<1>3. new \in BroadcastRecords /\ new.snapshot = registry /\ new.at = "send"
  BY <1>1 DEF BroadcastRecords
<1> HIDE DEF new
<1>4. /\ broadcasts' \in Seq(BroadcastRecords) /\ Len(broadcasts') = K + 1 /\ broadcasts'[K + 1] = new
      /\ \A k \in 1..K : broadcasts'[k] = broadcasts[k]
  BY <1>1, <1>2, <1>3, AppendProperties
<1>5. \A k \in 1..(K + 1) : k \in 1..K \/ k = K + 1
  BY <1>1
<1>6. ASSUME NEW k \in 1..(K + 1)
      PROVE  BroadcastFits(conns, broadcasts'[k]) /\ RemovedGone(broadcasts'[k], registry)
  <2>1. CASE k \in 1..K
    <3>1. broadcasts'[k] = broadcasts[k]
      BY <1>4, <2>1
    <3> QED
      BY <1>0, <2>1, <3>1 DEF RegistryInv
  <2>2. CASE k = K + 1
    <3>1. BroadcastFits(conns, new)
      BY <1>0, <1>3 DEF RegistryInv, BroadcastFits
    <3>2. RemovedGone(new, registry)
      BY <1>3 DEF RemovedGone
    <3> QED
      BY <1>4, <2>2, <3>1, <3>2
  <2> QED
    BY <1>5, <2>1, <2>2
<1>7. RegistryInv'
  <2>1. NewestHeld(conns', registry')
    BY <1>0, <1>2 DEF RegistryInv
  <2>2. /\ conns' \in Seq(ConnRecords) /\ registry' \in [Peers -> Nat]
        /\ \A p \in Peers : registry'[p] # 0 => registry'[p] \in 1..Len(conns') /\ conns'[registry'[p]].peer = p
    BY <1>0, <1>2 DEF RegistryInv
  <2> QED
    BY <1>2, <1>4, <1>6, <2>1, <2>2 DEF RegistryInv
<1>8. RequestInv' /\ LinkInv'
  BY <1>0, <1>2 DEF RequestInv, LinkInv, Answers
<1> QED
  BY <1>7, <1>8 DEF ProtoInv

\* send_votes: whom the cleanup will remove has a closed sender in the copy.
LEMMA VotesSent ==
  ASSUME ProtoInv, NEW k \in DOMAIN broadcasts, NEW info, send_votes(k, info)
  PROVE  ProtoInv'
<1> DEFINE b == broadcasts[k]
           chosen == {p \in Peers : b.snapshot[p] # 0 /\ AllowBroadcast(p, info[p])}
           sent == {b.snapshot[p] : p \in {q \in chosen : Open(b.snapshot[q])}}
           gone == {p \in chosen : ~Open(b.snapshot[p])}
           cmd == [type |-> "votes"]
           next == [b EXCEPT !.at = "cleanup", !.to_remove = gone]
           K == Len(broadcasts)
<1>0. RegistryInv /\ RequestInv /\ LinkInv
  BY DEF ProtoInv
<1>1. /\ K \in Nat /\ k \in 1..K /\ broadcasts \in Seq(BroadcastRecords) /\ b \in BroadcastRecords
      /\ Len(conns) \in Nat /\ DOMAIN conns = 1..Len(conns) /\ \A c \in 1..Len(conns) : conns[c] \in ConnRecords
  BY <1>0, Lengths DEF RegistryInv
<1>2. /\ conns' = [c \in DOMAIN conns |->
           IF c \in sent THEN [conns[c] EXCEPT !.commands = Append(@, cmd)] ELSE conns[c]]
      /\ broadcasts' = [broadcasts EXCEPT ![k] = next]
      /\ UNCHANGED <<registry, req_counter, requests>>
  BY DEF send_votes
<1>3. \A p \in gone : p \in Peers /\ b.snapshot[p] # 0 /\ ~conns[b.snapshot[p]].open
  BY DEF Open
<1> HIDE DEF sent, gone, chosen
<1>4. next \in BroadcastRecords /\ next.at = "cleanup" /\ next.to_remove = gone /\ next.snapshot = b.snapshot
  <2>1. gone \in SUBSET Peers
    BY <1>3
  <2> HIDE DEF b
  <2> QED
    BY <1>1, <2>1 DEF BroadcastRecords
<1>5. \A c \in 1..Len(conns) : /\ conns'[c] \in ConnRecords /\ conns'[c].peer = conns[c].peer
                               /\ conns'[c].open = conns[c].open /\ Derived(conns'[c], conns[c])
  <2> SUFFICES ASSUME NEW c \in 1..Len(conns)
               PROVE  /\ conns'[c] \in ConnRecords /\ conns'[c].peer = conns[c].peer
                      /\ conns'[c].open = conns[c].open /\ Derived(conns'[c], conns[c])
    OBVIOUS
  <2> DEFINE old == conns[c]
             cmds == Append(old.commands, cmd)
             m == [old EXCEPT !.commands = cmds]
  <2>1. CASE c \notin sent
    <3>1. conns'[c] = conns[c]
      BY <1>1, <1>2, <2>1
    <3> QED
      BY <1>1, <3>1, DerivedSame
  <2>2. CASE c \in sent
    <3>1. conns'[c] = m
      BY <1>1, <1>2, <2>2
    <3>2. old \in ConnRecords /\ old.commands \in Seq(Commands) /\ cmd \in Commands /\ cmd.type = "votes"
      <4>1. old.commands \in Seq(Commands)
        BY <1>1, ConnTyped
      <4> QED
        BY <1>1, <4>1 DEF Commands
    <3> HIDE DEF old, cmd
    <3>3. /\ cmds \in Seq(Commands) /\ Len(cmds) = Len(old.commands) + 1 /\ cmds[Len(old.commands) + 1] = cmd
          /\ \A i \in 1..Len(old.commands) : cmds[i] = old.commands[i]
      BY <3>2, AppendProperties
    <3> HIDE DEF cmds
    <3>4. /\ m \in ConnRecords /\ m.peer = old.peer /\ m.open = old.open /\ m.commands = cmds
          /\ m.pending_range_reqs = old.pending_range_reqs
      <4> HIDE DEF Commands
      <4> QED
        BY <3>2, <3>3 DEF ConnRecords
    <3> HIDE DEF m
    <3>5. Derived(m, old)
      <4>1. Len(old.commands) \in Nat
        BY <3>2, LenProperties
      <4>2. \A i \in 1..Len(cmds) : i \in 1..Len(old.commands) \/ i = Len(old.commands) + 1
        BY <3>3, <4>1
      <4>3. \A i \in 1..Len(cmds) : cmds[i].type = "range" => \E j \in 1..Len(old.commands) : cmds[i] = old.commands[j]
        BY <3>2, <3>3, <4>2
      <4> QED
        BY <3>4, <4>3 DEF Derived
    <3> QED
      BY <3>1, <3>4, <3>5 DEF old
  <2> QED
    BY <2>1, <2>2
<1>6. conns' \in Seq(ConnRecords) /\ Len(conns') = Len(conns) /\ DOMAIN conns' = 1..Len(conns)
  <2>1. conns' \in [1..Len(conns) -> ConnRecords]
    <3>1. DOMAIN conns' = 1..Len(conns) /\ conns' = [c \in 1..Len(conns) |-> conns'[c]]
      BY <1>1, <1>2
    <3> QED
      BY <1>5, <3>1
  <2> QED
    BY <1>1, <2>1, SeqDef, LenProperties
<1>7. ConnsKept
  BY <1>1, <1>5, <1>6 DEF ConnsKept
<1>8. RequestInv' /\ RequestsKept
  BY <1>0, <1>2, <1>7, RequestCalm
<1>9. LinkInv'
  <2>1. Len(requests') \in Nat
    BY <1>0, <1>2, Lengths
  <2> QED
    BY <1>0, <1>5, <1>6, <1>8, <2>1, LinkCalm
<1>10. /\ broadcasts' \in Seq(BroadcastRecords) /\ Len(broadcasts') = K /\ broadcasts'[k] = next
       /\ \A j \in 1..K : j # k => broadcasts'[j] = broadcasts[j]
  <2>0. K = Len(broadcasts)
    OBVIOUS
  <2> HIDE DEF b, next, K
  <2>1. /\ [broadcasts EXCEPT ![k] = next] \in Seq(BroadcastRecords) /\ Len([broadcasts EXCEPT ![k] = next]) = K
        /\ DOMAIN broadcasts = 1..K
    BY <1>1, <1>4, <2>0, ExceptSeq, LenProperties
  <2> QED
    BY <1>1, <1>2, <2>1
<1> HIDE DEF next
<1>11. RegistryInv'
  <2>1. /\ NewestHeld(conns', registry)
        /\ \A x \in BroadcastRecords : BroadcastFits(conns, x) => BroadcastFits(conns', x)
    BY <1>0, <1>6, <1>7, ConnsEnd
  <2>2. ASSUME NEW j \in 1..K
        PROVE  BroadcastFits(conns', broadcasts'[j]) /\ RemovedGone(broadcasts'[j], registry)
    <3>1. CASE j = k
      <4>1. BroadcastFits(conns, b)
        BY <1>0, <1>1 DEF RegistryInv
      <4>2. BroadcastFits(conns, next)
        BY <1>3, <1>4, <4>1 DEF BroadcastFits
      <4>3. RemovedGone(next, registry)
        BY <1>4 DEF RemovedGone
      <4> QED
        BY <1>4, <1>10, <2>1, <3>1, <4>2, <4>3
    <3>2. CASE j # k
      <4>1. broadcasts'[j] = broadcasts[j] /\ broadcasts[j] \in BroadcastRecords
        BY <1>0, <1>10, <3>2, Lengths
      <4> QED
        BY <1>0, <2>1, <4>1 DEF RegistryInv
    <3> QED
      BY <3>1, <3>2
  <2>3. /\ registry' \in [Peers -> Nat]
        /\ \A p \in Peers : registry'[p] # 0 => registry'[p] \in 1..Len(conns) /\ conns'[registry'[p]].peer = p
    BY <1>0, <1>2, <1>5 DEF RegistryInv
  <2> QED
    <3>1. registry' = registry /\ Len(broadcasts') = K /\ Len(conns') = Len(conns)
      BY <1>2, <1>6, <1>10
    <3> HIDE DEF K
    <3> QED
      BY <1>6, <1>10, <2>1, <2>2, <2>3, <3>1 DEF RegistryInv
<1> QED
  BY <1>8, <1>9, <1>11 DEF ProtoInv

\* cleanup_registry: a peer is removed whose connection in the copy has ended.
LEMMA CleanupStep ==
  ASSUME ProtoInv, NEW k \in DOMAIN broadcasts, cleanup_registry(k)
  PROVE  ProtoInv'
<1> DEFINE b == broadcasts[k]
           next == [b EXCEPT !.at = "done"]
           K == Len(broadcasts)
<1>0. RegistryInv /\ RequestInv /\ LinkInv
  BY DEF ProtoInv
<1>1. /\ K \in Nat /\ k \in 1..K /\ broadcasts \in Seq(BroadcastRecords) /\ b \in BroadcastRecords
      /\ DOMAIN conns = 1..Len(conns)
  BY <1>0, Lengths DEF RegistryInv
<1>2. /\ b.at = "cleanup" /\ UNCHANGED <<conns, req_counter, requests>>
      /\ registry' = [p \in Peers |-> IF p \in b.to_remove THEN 0 ELSE registry[p]]
      /\ broadcasts' = [broadcasts EXCEPT ![k] = next]
  BY DEF cleanup_registry
<1>3. next \in BroadcastRecords /\ next.at = "done" /\ next.snapshot = b.snapshot /\ next.to_remove = b.to_remove
  <2> HIDE DEF b
  <2> QED
    BY <1>1 DEF BroadcastRecords
<1>4. /\ broadcasts' \in Seq(BroadcastRecords) /\ Len(broadcasts') = K /\ broadcasts'[k] = next
      /\ \A j \in 1..K : j # k => broadcasts'[j] = broadcasts[j]
  <2>0. K = Len(broadcasts)
    OBVIOUS
  <2> HIDE DEF b, next, K
  <2>1. /\ [broadcasts EXCEPT ![k] = next] \in Seq(BroadcastRecords) /\ Len([broadcasts EXCEPT ![k] = next]) = K
        /\ DOMAIN broadcasts = 1..K
    BY <1>1, <1>3, <2>0, ExceptSeq, LenProperties
  <2> QED
    BY <1>1, <1>2, <2>1
<1>5. /\ BroadcastFits(conns, b)
      /\ \A p \in b.to_remove : /\ p \in Peers /\ b.snapshot[p] \in 1..Len(conns) /\ b.snapshot[p] # 0
                                /\ conns[b.snapshot[p]].peer = p /\ ~conns[b.snapshot[p]].open
  <2>1. BroadcastFits(conns, b) /\ b.to_remove \subseteq Peers
    BY <1>0, <1>1 DEF RegistryInv, BroadcastRecords
  <2> HIDE DEF b
  <2> QED
    BY <1>2, <2>1 DEF BroadcastFits
<1> HIDE DEF next
<1>6. ASSUME NEW j \in 1..K
      PROVE  BroadcastFits(conns, broadcasts'[j]) /\ RemovedGone(broadcasts'[j], registry')
  <2>1. CASE j = k
    <3>1. BroadcastFits(conns, next)
      BY <1>2, <1>3, <1>5 DEF BroadcastFits
    <3>2. RemovedGone(next, registry')
      BY <1>2, <1>3, <1>5 DEF RemovedGone
    <3> QED
      BY <1>4, <2>1, <3>1, <3>2
  <2>2. CASE j # k
    <3> DEFINE o == broadcasts[j]
    <3>1. broadcasts'[j] = o /\ o \in BroadcastRecords /\ BroadcastFits(conns, o) /\ RemovedGone(o, registry)
      BY <1>0, <1>4, <2>2, Lengths DEF RegistryInv
    <3> HIDE DEF o
    <3>2. \A p \in o.to_remove : p \in Peers
      BY <3>1 DEF BroadcastRecords
    <3>3. RemovedGone(o, registry')
      BY <1>2, <3>1, <3>2 DEF RemovedGone, BroadcastFits
    <3> QED
      BY <3>1, <3>3
  <2> QED
    BY <2>1, <2>2
<1>7. NewestHeld(conns, registry')
  <2> SUFFICES ASSUME NEW c \in 1..Len(conns), \A d \in 1..Len(conns) : conns[d].peer = conns[c].peer => d <= c
               PROVE  \/ registry'[conns[c].peer] = c
                      \/ /\ registry'[conns[c].peer] = 0
                         /\ \E d \in 1..Len(conns) : conns[d].peer = conns[c].peer /\ ~conns[d].open
    BY DEF NewestHeld
  <2> DEFINE p == conns[c].peer
  <2>1. p \in Peers
    <3>1. conns[c] \in ConnRecords
      BY <1>0, Lengths
    <3> QED
      BY <3>1 DEF ConnRecords
  <2>2. registry[p] = c \/ (registry[p] = 0 /\ \E d \in 1..Len(conns) : conns[d].peer = p /\ ~conns[d].open)
    BY <1>0 DEF RegistryInv, NewestHeld
  <2> HIDE DEF p
  <2>3. CASE p \notin b.to_remove
    BY <1>2, <2>1, <2>2, <2>3 DEF p
  <2>4. CASE p \in b.to_remove
    <3>1. registry'[p] = 0
      BY <1>2, <2>1, <2>4
    <3>2. \E d \in 1..Len(conns) : conns[d].peer = p /\ ~conns[d].open
      BY <1>5, <2>4
    <3> QED
      BY <3>1, <3>2 DEF p
  <2> QED
    BY <2>3, <2>4
<1>8. RegistryInv'
  <2>1. /\ registry' \in [Peers -> Nat] /\ conns' \in Seq(ConnRecords)
        /\ \A p \in Peers : registry'[p] # 0 => registry'[p] \in 1..Len(conns) /\ conns[registry'[p]].peer = p
    BY <1>0, <1>2 DEF RegistryInv
  <2> QED
    BY <1>2, <1>4, <1>6, <1>7, <2>1 DEF RegistryInv
<1>9. RequestInv' /\ LinkInv'
  BY <1>0, <1>2 DEF RequestInv, LinkInv, Answers
<1> QED
  BY <1>8, <1>9 DEF ProtoInv

----------------------------------------------------------------------------
(* The steps of the node. *)

\* The body of a valid block is cached; what that pushes out is remembered.
LEMMA ValidStep ==
  ASSUME CacheInv, NEW b \in Blocks, keep_valid(b), reporting' = b,
         processed \subseteq processed', b \in processed' \cup Mined
  PROVE  CacheInv'
<1> DEFINE before == ToSet(by_hash)
           after == ToSet(by_hash')
<1>1. /\ by_hash' = LruTouch(by_hash, b) /\ evicted' = (evicted \cup before) \ after
      /\ announced' = announced
  BY DEF keep_valid, cache_full_block
<1>2. /\ IsCache(LruTouch(by_hash, b)) /\ b \in ToSet(LruTouch(by_hash, b))
      /\ ToSet(LruTouch(by_hash, b)) \subseteq before \cup {b}
  BY TouchFacts DEF CacheInv
<1>3. IsCache(by_hash)' /\ b \in after /\ after \subseteq before \cup {b}
  BY <1>1, <1>2 DEF IsCache
<1>4. announced \subseteq before \cup evicted /\ before \subseteq processed \cup Mined
  BY DEF CacheInv
<1> HIDE DEF before, after
<1>5. announced' \subseteq after \cup evicted'
  BY <1>1, <1>3, <1>4
<1>6. after \subseteq processed' \cup Mined
  BY <1>3, <1>4
<1> QED
  BY <1>3, <1>5, <1>6 DEF CacheInv, after

\* The block that was kept is announced.
LEMMA ReportStep ==
  ASSUME CacheInv, report_valid
  PROVE  CacheInv'
<1>1. /\ ~Idle /\ reporting' = NoBlock /\ announced' = announced \cup {reporting}
      /\ processed' = processed \cup {reporting} /\ UNCHANGED <<by_hash, evicted>>
  BY DEF report_valid, cacheVars
<1> QED
  BY <1>1 DEF CacheInv, IsCache, Idle

\* Serving a range reorders the cache and pushes nothing out.
LEMMA ServeStep ==
  ASSUME CacheInv, NEW c, NEW hash, NEW number, NEW count \in Nat, NEW due, serve_range(c, hash, number, count, due)
  PROVE  CacheInv'
<1> DEFINE first == StartBlock(hash, number)
           n == count + 1
<1>1. /\ UNCHANGED by_hash \/ by_hash' = Used(by_hash, RangeFrom(first, n))
      /\ UNCHANGED <<evicted, announced, processed, reporting>>
  BY DEF serve_range, importVars
<1>2. IsCache(by_hash) /\ n \in Nat
  BY DEF CacheInv
<1> HIDE DEF first, n
<1>3. /\ IsCache(Used(by_hash, RangeFrom(first, n)))
      /\ ToSet(Used(by_hash, RangeFrom(first, n))) = ToSet(by_hash)
  <2>1. RangeFrom(first, n) \in Seq(Blocks) /\ ToSet(RangeFrom(first, n)) \subseteq ToSet(by_hash)
    BY <1>2, RangeFacts DEF IsPath
  <2> QED
    BY <1>2, <2>1, UsedFacts
<1>4. CASE UNCHANGED by_hash
  BY <1>1, <1>4 DEF CacheInv, IsCache, Idle
<1>5. CASE by_hash' = Used(by_hash, RangeFrom(first, n))
  <2>1. IsCache(by_hash)' /\ ToSet(by_hash') = ToSet(by_hash)
    BY <1>3, <1>5 DEF IsCache
  <2> QED
    BY <1>1, <2>1 DEF CacheInv, Idle
<1> QED
  BY <1>1, <1>4, <1>5

\* Nothing of the sub-protocol changes.
LEMMA ProtoSame ==
  ASSUME ProtoInv, UNCHANGED protoVars
  PROVE  ProtoInv'
  BY DEF ProtoInv, RegistryInv, RequestInv, LinkInv, Answers, protoVars

\* Nothing of the cache changes.
LEMMA CacheSame ==
  ASSUME CacheInv, UNCHANGED <<by_hash, evicted, announced, processed, reporting>>
  PROVE  CacheInv'
  BY DEF CacheInv, IsCache, Idle

\* Every step keeps the invariant.
LEMMA NetStep ==
  ASSUME NetInv, [Next]_vars
  PROVE  NetInv'
<1>0. ProtoInv /\ CacheInv
  BY DEF NetInv, ProtoInv
<1> SUFFICES ProtoInv' /\ CacheInv'
  BY DEF NetInv, ProtoInv
<1>1. CASE Quiet /\ UNCHANGED protoVars
  BY <1>0, <1>1, ProtoSame, CacheSame DEF Quiet, cacheVars, importVars
<1>2. CASE Connect
  <2>1. PICK p \in Peers : into_connection(p)
    BY <1>2 DEF Connect
  <2>2. Quiet
    BY <1>2 DEF Connect
  <2> QED
    BY <1>0, <2>1, <2>2, ConnectStep, CacheSame DEF Quiet, cacheVars, importVars
<1>3. CASE Close
  <2>1. PICK c \in DOMAIN conns : connection_closed(c) /\ Quiet
    BY <1>3 DEF Close
  <2>2. conns' = Dropped(c) /\ UNCHANGED <<registry, req_counter, requests, broadcasts>>
    BY <2>1 DEF connection_closed
  <2> QED
    BY <1>0, <2>1, <2>2, DroppedStep, CacheSame DEF Quiet, cacheVars, importVars
<1>4. CASE Poll
  <2>1. PICK c \in DOMAIN conns, due \in BOOLEAN :
          \/ send_capability(c)
          \/ poll_outgoing_commands(c, due)
          \/ \E f \in HandshakeFrames, inTime \in BOOLEAN : handle_handshake_frame(c, f, inTime, due)
          \/ \E r \in DOMAIN requests : \E blocks \in Answers(r) :
               requests[r].on = c /\ BlocksByRange(c, requests[r].id, blocks, due)
          \/ other_message(c, due)
    BY <1>4 DEF Poll
  <2>2. CacheInv'
    BY <1>0, <1>4, CacheSame DEF Poll, Quiet, cacheVars, importVars
  <2>3. CASE send_capability(c)
    BY <1>0, <2>2, <2>3, CapabilityStep
  <2>4. CASE poll_outgoing_commands(c, due)
    BY <1>0, <2>2, <2>4, CommandStep
  <2>5. CASE \E f \in HandshakeFrames, inTime \in BOOLEAN : handle_handshake_frame(c, f, inTime, due)
    BY <1>0, <2>2, <2>5, HandshakeStep
  <2>6. CASE \E r \in DOMAIN requests : \E blocks \in Answers(r) :
               requests[r].on = c /\ BlocksByRange(c, requests[r].id, blocks, due)
    BY <1>0, <2>2, <2>6, AnswerStep
  <2>7. CASE other_message(c, due)
    BY <1>0, <2>2, <2>7, OtherStep
  <2> QED
    BY <2>1, <2>2, <2>3, <2>4, <2>5, <2>6, <2>7
<1>5. CASE Serve
  <2>1. PICK c \in DOMAIN conns, hash \in Blocks \cup {NoBlock}, n \in {Number[b] : b \in Blocks},
             count \in {0, 1, 2, MAX_REQUEST_RANGE_BLOCKS_COUNT + 1}, due \in BOOLEAN :
               serve_range(c, hash, n, count, due)
    BY <1>5 DEF Serve
  <2>2. count \in Nat
    BY ProtocolConstants
  <2>3. other_message(c, due)
    BY <2>1 DEF serve_range
  <2>4. CacheInv'
    BY <1>0, <2>1, <2>2, ServeStep
  <2> QED
    BY <1>0, <2>3, <2>4, OtherStep
<1>6. CASE Requests
  <2>1. PICK r \in DOMAIN requests : request_blocks_by_range(r) \/ request_ends(r)
    BY <1>6 DEF Requests
  <2>2. CacheInv'
    BY <1>0, <1>6, CacheSame DEF Requests, Quiet, cacheVars, importVars
  <2> QED
    BY <1>0, <2>1, <2>2, RequestStep
<1>7. CASE Broadcast
  <2>1. CacheInv'
    BY <1>0, <1>7, CacheSame DEF Broadcast, Quiet, cacheVars, importVars
  <2>2. CASE broadcast_votes
    BY <1>0, <2>1, <2>2, BroadcastStep
  <2>3. CASE \E k \in DOMAIN broadcasts : (\E info \in [Peers -> PeerInfos] : send_votes(k, info)) \/ cleanup_registry(k)
    <3>1. PICK k \in DOMAIN broadcasts : (\E info \in [Peers -> PeerInfos] : send_votes(k, info)) \/ cleanup_registry(k)
      BY <2>3
    <3>2. CASE \E info \in [Peers -> PeerInfos] : send_votes(k, info)
      BY <1>0, <2>1, <3>2, VotesSent
    <3>3. CASE cleanup_registry(k)
      BY <1>0, <2>1, <3>3, CleanupStep
    <3> QED
      BY <3>1, <3>2, <3>3
  <2> QED
    BY <1>7, <2>2, <2>3 DEF Broadcast
<1>8. CASE Refresh \/ EvnStep \/ EpochBlock
  BY <1>1, <1>8 DEF Refresh, EvnStep, EpochBlock
<1>9. CASE Download
  <2>1. CASE \E p \in Peers, b \in Blocks \ Mined : on_new_block_hashes(p, b)
    <3>1. PICK p \in Peers, b \in Blocks \ Mined : on_new_block_hashes(p, b)
      BY <2>1
    <3>2. /\ UNCHANGED <<conns, registry, req_counter, broadcasts, cacheVars, announced, processed, reporting>>
          /\ \E q \in IF registry[p] # 0 THEN {p} ELSE list_registered_peers \cup {NoBlock} :
               requests' = IF q = NoBlock THEN requests
                           ELSE Append(requests, [peer |-> q, start |-> b, at |-> "spawned",
                                                  id |-> 0, on |-> 0, blocks |-> <<>>])
      BY <3>1 DEF on_new_block_hashes
    <3>3. CacheInv'
      BY <1>0, <3>2, CacheSame DEF cacheVars
    <3>4. CASE UNCHANGED requests
      BY <1>0, <3>2, <3>3, <3>4, ProtoSame DEF protoVars
    <3>5. CASE \E q \in Peers : requests' = Append(requests, [peer |-> q, start |-> b, at |-> "spawned",
                                                               id |-> 0, on |-> 0, blocks |-> <<>>])
      BY <1>0, <3>2, <3>3, <3>5, RequestSpawned
    <3>6. list_registered_peers \subseteq Peers
      BY DEF list_registered_peers
    <3> QED
      BY <3>2, <3>4, <3>5, <3>6
  <2>2. CASE \E b \in Blocks : cooldown_over(b) \/ import_outcome(b) \/ on_new_mined_block(b)
    <3>1. PICK b \in Blocks : cooldown_over(b) \/ import_outcome(b) \/ on_new_mined_block(b)
      BY <2>2
    <3>2. UNCHANGED protoVars
      BY <3>1 DEF cooldown_over, import_outcome, on_new_mined_block
    <3>3. ProtoInv'
      BY <1>0, <3>2, ProtoSame
    <3>4. CASE cooldown_over(b)
      BY <1>0, <3>3, <3>4, CacheSame DEF cooldown_over, cacheVars
    <3>5. CASE import_outcome(b) \/ on_new_mined_block(b)
      <4>1. keep_valid(b) /\ reporting' = b /\ processed \subseteq processed' /\ b \in processed' \cup Mined
        BY <3>5 DEF import_outcome, on_new_mined_block
      <4> QED
        BY <1>0, <3>3, <4>1, ValidStep
    <3> QED
      BY <3>1, <3>4, <3>5
  <2>3. CASE \E r \in DOMAIN requests : forward_range(r)
    <3>1. PICK r \in DOMAIN requests : forward_range(r)
      BY <2>3
    <3>2. /\ requests[r].at = "answered" /\ requests' = [requests EXCEPT ![r].at = "done"]
          /\ UNCHANGED <<conns, registry, req_counter, broadcasts, cacheVars, announced, processed, reporting>>
      BY <3>1 DEF forward_range
    <3>3. req_counter' \in Nat /\ req_counter' >= req_counter
      BY <1>0, <3>2 DEF ProtoInv, RequestInv
    <3>4. ProtoInv'
      BY <1>0, <3>2, <3>3, RequestMoves
    <3> QED
      BY <1>0, <3>2, <3>4, CacheSame DEF cacheVars
  <2>4. CASE on_new_block
    BY <1>0, <2>4, ProtoSame, CacheSame DEF on_new_block, cacheVars
  <2>5. CASE report_valid
    BY <1>0, <2>5, ProtoSame, ReportStep DEF report_valid
  <2> QED
    BY <1>9, <2>1, <2>2, <2>3, <2>4, <2>5 DEF Download
<1>10. CASE UNCHANGED vars
  BY <1>1, <1>10 DEF vars, Quiet, importVars, cacheVars
<1> QED
  BY <1>2, <1>3, <1>4, <1>5, <1>6, <1>7, <1>8, <1>9, <1>10 DEF Next

\* The invariant holds at the start.
LEMMA NetStart == Init => NetInv
<1> SUFFICES ASSUME Init PROVE NetInv
  OBVIOUS
<1>1. /\ conns = <<>> /\ registry = [p \in Peers |-> 0] /\ req_counter = 1
      /\ requests = <<>> /\ broadcasts = <<>> /\ by_hash = <<>> /\ announced = {} /\ Idle
  BY DEF Init, ProtoInit, Idle
<1>2. /\ conns \in Seq(ConnRecords) /\ requests \in Seq(RequestRecords) /\ broadcasts \in Seq(BroadcastRecords)
      /\ by_hash \in Seq(Blocks)
  BY <1>1, EmptySeq
<1>3. Len(conns) = 0 /\ Len(requests) = 0 /\ Len(broadcasts) = 0 /\ Len(by_hash) = 0 /\ DOMAIN conns = {}
  BY <1>1, EmptySeq
<1>4. RegistryInv
  BY <1>1, <1>2, <1>3 DEF RegistryInv, NewestHeld
<1>5. RequestInv /\ LinkInv
  BY <1>1, <1>2, <1>3 DEF RequestInv, LinkInv
<1>6. IsCache(by_hash)
  BY <1>2, <1>3, NetworkConstants DEF IsCache, NoRepeats
<1>7. ToSet(by_hash) = {}
  BY <1>1 DEF ToSet
<1> QED
  BY <1>1, <1>4, <1>5, <1>6, <1>7 DEF NetInv, CacheInv

----------------------------------------------------------------------------

\* The state of the sub-protocol and of the body cache stays consistent: what a
\* connection holds was asked over it, ids of requests differ, a broadcast removes only
\* peers whose sender in its copy is closed, and what was announced is cached or evicted.
THEOREM NetInvariant == Spec => []NetInv
<1>1. Init => NetInv
  BY NetStart
<1>2. NetInv /\ [Next]_vars => NetInv'
  BY NetStep
<1> QED
  BY <1>1, <1>2, PTL DEF Spec

\* pending_range_reqs: an answer, however late, ends up with the request it answers,
\* and that was asked of that peer on that connection.
THEOREM AnswersBelong == Spec => []AnswerBelongs
<1>1. NetInv => AnswerBelongs
  <2> SUFFICES ASSUME NetInv, NEW r \in DOMAIN requests, requests[r].at \in {"answered", "done"}
               PROVE  requests[r].blocks \in Answers(r) /\ conns[requests[r].on].peer = requests[r].peer
    BY DEF AnswerBelongs
  <2>1. RegistryInv /\ RequestInv
    BY DEF NetInv
  <2>2. r \in 1..Len(requests)
    BY <2>1, Lengths
  <2> QED
    BY <2>1, <2>2 DEF RequestInv
<1> QED
  BY <1>1, NetInvariant, PTL

\* REGISTRY: whatever connections come, end and overlap while votes are sent, a peer is
\* registered with its newest connection unless one of its connections has ended, and a
\* sender that a broadcast found closed and removed never comes back.
THEOREM LatestSender == Spec => []LatestSenderKept
<1>1. NetInv => LatestSenderKept
  <2> SUFFICES ASSUME NetInv PROVE LatestSenderKept
    OBVIOUS
  <2>1. DOMAIN conns = 1..Len(conns) /\ DOMAIN broadcasts = 1..Len(broadcasts)
    BY Lengths DEF NetInv
  <2>2. ASSUME NEW c \in DOMAIN conns, Newest(c)
        PROVE  \/ registry[conns[c].peer] = c
               \/ /\ registry[conns[c].peer] = 0
                  /\ \E d \in DOMAIN conns : conns[d].peer = conns[c].peer /\ ~conns[d].open
    BY <2>1, <2>2 DEF NetInv, RegistryInv, NewestHeld, Newest
  <2>3. ASSUME NEW k \in DOMAIN broadcasts, NEW p \in broadcasts[k].to_remove, broadcasts[k].at = "done"
        PROVE  registry[p] # broadcasts[k].snapshot[p]
    BY <2>1, <2>3 DEF NetInv, RegistryInv, RemovedGone
  <2> QED
    BY <2>2, <2>3 DEF LatestSenderKept
<1> QED
  BY <1>1, NetInvariant, PTL

\* build_blocks_by_range_response: by hash or by number, only blocks built or executed
\* here are served, in the order asked for, and an answer ends early only at a block that
\* was not reported as valid or that newer ones pushed out.
THEOREM RangesServed == Spec => []ServedRanges
<1>1. NetInv => ServedRanges
  <2> SUFFICES ASSUME NetInv, NEW hash \in Blocks \cup {NoBlock}, NEW number \in {Number[b] : b \in Blocks},
                      NEW count \in 1 .. MAX_REQUEST_RANGE_BLOCKS_COUNT
               PROVE  LET range == RangeResponse(hash, number, count)
                          missing == IF range = <<>> THEN StartBlock(hash, number) ELSE ParentOf[range[Len(range)]]
                      IN /\ ToSet(range) \subseteq processed \cup Mined
                         /\ range # <<>> => IF hash # NoBlock THEN range[1] = hash ELSE Number[range[1]] = number
                         /\ \A i \in 2 .. Len(range) : range[i] = ParentOf[range[i - 1]]
                         /\ Len(range) < count => missing \notin announced \ evicted
    BY DEF ServedRanges
  <2> DEFINE first == StartBlock(hash, number)
             range == RangeFrom(first, count)
  <2>1. /\ IsCache(by_hash) /\ announced \subseteq ToSet(by_hash) \cup evicted
        /\ ToSet(by_hash) \subseteq processed \cup Mined /\ ToSet(by_hash) \subseteq Blocks
    BY InSequence DEF NetInv, CacheInv, IsCache
  <2>2. /\ hash # NoBlock => first = hash
        /\ hash = NoBlock /\ first # NoBlock => Number[first] = number
    BY DEF StartBlock, CachedByNumber
  <2>3. count \in Nat
    BY ProtocolConstants
  <2> HIDE DEF first
  <2>4. /\ IsPath(range) /\ (range # <<>> => range[1] = first)
        /\ Len(range) < count => After(first, range) \notin ToSet(by_hash)
    BY <2>1, <2>3, RangeFacts
  <2> HIDE DEF range
  <2>5. range # <<>> => range[1] \in Blocks /\ range[1] # NoBlock
    <3> SUFFICES ASSUME range # <<>> PROVE range[1] \in Blocks
      BY ProtocolConstants
    <3>1. range \in Seq(Blocks) /\ Len(range) \in Nat /\ Len(range) # 0
      BY <2>4, EmptySeq, LenProperties DEF IsPath
    <3> QED
      BY <3>1, ElementOfSeq
  <2>6. ToSet(range) \subseteq processed \cup Mined
    BY <2>1, <2>4 DEF IsPath
  <2>7. range # <<>> => IF hash # NoBlock THEN range[1] = hash ELSE Number[range[1]] = number
    BY <2>2, <2>4, <2>5
  <2>8. \A i \in 2 .. Len(range) : range[i] = ParentOf[range[i - 1]]
    BY <2>4 DEF IsPath
  <2>9. Len(range) < count => After(first, range) \notin announced \ evicted
    BY <2>1, <2>4
  <2> QED
    BY <2>6, <2>7, <2>8, <2>9 DEF range, first, RangeResponse, After
<1> QED
  BY <1>1, NetInvariant, PTL
============================================================================
