----------------------------- MODULE ParliaProofs ----------------------------
(***************************************************************************)
(* Proofs about Parlia, for any validators, turn lengths, epoch lengths    *)
(* and fork heights.                                                       *)
(*                                                                         *)
(* The chain of snapshots: no accepted block is left without a snapshot,   *)
(* the proposer limit leaves half of the validators able to propose, a     *)
(* checkpoint empties the history once, and finality advances.             *)
(*                                                                         *)
(* The race for the next block: nobody is refused for the time it gave its *)
(* own block, and the slots of two validators do not overlap.              *)
(***************************************************************************)
EXTENDS ParliaChain, Proposals, SequenceFacts

----------------------------------------------------------------------------
(* Snapshots and the length of the window. *)

\* Histories of proposers: finitely many numbers, each with an address.
Histories == UNION {[D -> Addresses \cup {ZeroAddress}] : D \in SUBSET Nat}

Votes == [source : Nat, target : Nat]

Snapshots == [block_number : Nat, epoch_num : Nat \ {0}, validators : ValidatorSets,
              turn_length : Nat \ {0}, vote_data : Votes, recent_proposers : Histories]

\* A history as a snapshot of block n holds it: proposers of blocks up to n, and
\* marks of epochs, out of the range of block numbers, with no proposer.
IsHistory(recents, n) ==
  /\ recents \in Histories
  /\ IsFiniteSet(DOMAIN recents)
  /\ \A b \in DOMAIN recents : /\ b > 0
                               /\ b <= n \/ (b > MaxBlock /\ recents[b] = ZeroAddress)

\* Before Bohr a history holds nothing but what the window still covers: the rule
\* from before Bohr looks at the whole history.
OnlyWindow(recents, n, len) == \A b \in DOMAIN recents : n - len <= b /\ b <= n

\* What the rules about proposers need of a snapshot.
SoundSnapshot(s) ==
  /\ s \in Snapshots
  /\ IsFiniteSet(DOMAIN s.recent_proposers)
  /\ \A b \in DOMAIN s.recent_proposers : b > 0
  /\ ~IsBohr(s.block_number) =>
       /\ s.turn_length = 1
       /\ OnlyWindow(s.recent_proposers, s.block_number, MinerHistoryCheckLen(s))

GoodSnapshot(s) ==
  /\ s \in Snapshots
  /\ s.block_number <= MaxBlock
  /\ IsHistory(s.recent_proposers, s.block_number)
  /\ ~IsBohr(s.block_number) =>
       /\ s.turn_length = 1
       /\ OnlyWindow(s.recent_proposers, s.block_number, MinerHistoryCheckLen(s))

\* The majority of a validator set.
LEMMA MajorityFacts ==
  ASSUME NEW V \in ValidatorSets
  PROVE  /\ IsFiniteSet(V)
         /\ Cardinality(V) \in Nat
         /\ Cardinality(V) \div 2 \in Nat
         /\ 2 * (Cardinality(V) \div 2) <= Cardinality(V)
<1>1. IsFiniteSet(V)
  BY SnapshotConstants, FS_Subset DEF ValidatorSets
<1>2. Cardinality(V) \in Nat
  BY <1>1, FS_CardinalityType
<1> HIDE DEF ValidatorSets
<1>3. \A k \in Nat : k \div 2 \in Nat /\ 2 * (k \div 2) <= k
  OBVIOUS
<1> QED
  BY <1>1, <1>2, <1>3

\* The check length is a natural number, and less than turn_length turns of a majority.
LEMMA LengthFacts ==
  ASSUME NEW s \in Snapshots
  PROVE  /\ MinerHistoryCheckLen(s) \in Nat
         /\ s.turn_length = 1 => MinerHistoryCheckLen(s) = Cardinality(s.validators) \div 2
<1>1. s.validators \in ValidatorSets /\ s.turn_length \in Nat \ {0}
  BY DEF Snapshots
<1>2. Cardinality(s.validators) \div 2 \in Nat
  BY <1>1, MajorityFacts
<1>3. \A k \in Nat, t \in Nat \ {0} : (k + 1) * t - 1 \in Nat /\ (k + 1) * 1 - 1 = k
  OBVIOUS
<1> QED
  BY <1>1, <1>2, <1>3 DEF MinerHistoryCheckLen

----------------------------------------------------------------------------
(* A proposer that verify_seal lets pass is one that apply accepts. *)

LEMMA HistoryFacts ==
  ASSUME NEW f \in Histories
  PROVE  /\ DOMAIN f \subseteq Nat
         /\ \A b \in DOMAIN f : f[b] \in Addresses \cup {ZeroAddress}
<1> QED
  BY DEF Histories

\* What Without and Insert leave of a history.
LEMMA WithoutFacts ==
  ASSUME NEW f \in Histories, NEW S, IsFiniteSet(DOMAIN f)
  PROVE  /\ Without(f, S) \in Histories
         /\ IsFiniteSet(DOMAIN Without(f, S))
         /\ DOMAIN Without(f, S) = DOMAIN f \ S
         /\ \A b \in DOMAIN f \ S : Without(f, S)[b] = f[b]
<1>1. /\ DOMAIN Without(f, S) = DOMAIN f \ S
      /\ \A b \in DOMAIN f \ S : Without(f, S)[b] = f[b]
  BY DEF Without, Restrict
<1>2. Without(f, S) \in [DOMAIN f \ S -> Addresses \cup {ZeroAddress}]
  BY HistoryFacts DEF Without, Restrict
<1>3. DOMAIN f \ S \in SUBSET Nat
  BY HistoryFacts
<1>4. Without(f, S) \in Histories
  BY <1>2, <1>3 DEF Histories
<1> QED
  BY <1>1, <1>4, FS_Difference

LEMMA InsertFacts ==
  ASSUME NEW f \in Histories, IsFiniteSet(DOMAIN f),
         NEW key \in Nat, NEW a \in Addresses \cup {ZeroAddress}
  PROVE  /\ Insert(f, key, a) \in Histories
         /\ IsFiniteSet(DOMAIN Insert(f, key, a))
         /\ DOMAIN Insert(f, key, a) = DOMAIN f \cup {key}
         /\ Insert(f, key, a)[key] = a
         /\ \A b \in DOMAIN f \ {key} : Insert(f, key, a)[b] = f[b]
<1>1. /\ DOMAIN Insert(f, key, a) = DOMAIN f \cup {key}
      /\ Insert(f, key, a)[key] = a
      /\ \A b \in DOMAIN f \ {key} : Insert(f, key, a)[b] = f[b]
  BY DEF Insert
<1>2. Insert(f, key, a) \in [DOMAIN f \cup {key} -> Addresses \cup {ZeroAddress}]
  BY HistoryFacts DEF Insert
<1>3. DOMAIN f \cup {key} \in SUBSET Nat
  BY HistoryFacts
<1>4. Insert(f, key, a) \in Histories
  BY <1>2, <1>3 DEF Histories
<1> QED
  BY <1>1, <1>4, FS_AddElement

\* The snapshot on which apply looks at the proposer.
Moved(s) == [s EXCEPT !.block_number = s.block_number + 1, !.recent_proposers = MoveWindow(s)]

LEMMA MovedFacts ==
  ASSUME NEW s \in Snapshots, IsFiniteSet(DOMAIN s.recent_proposers)
  PROVE  LET R == s.recent_proposers
             gone == s.block_number - MinerHistoryCheckLen(s)
         IN /\ Moved(s).block_number = s.block_number + 1
            /\ Moved(s).validators = s.validators
            /\ Moved(s).turn_length = s.turn_length
            /\ Moved(s).recent_proposers = MoveWindow(s)
            /\ MinerHistoryCheckLen(Moved(s)) = MinerHistoryCheckLen(s)
            /\ MoveWindow(s) \in Histories
            /\ IsFiniteSet(DOMAIN MoveWindow(s))
            /\ DOMAIN MoveWindow(s) = DOMAIN R \ {gone}
            /\ \A b \in DOMAIN R \ {gone} : MoveWindow(s)[b] = R[b]
<1> DEFINE R == s.recent_proposers
           gone == s.block_number - MinerHistoryCheckLen(s)
<1>1. /\ Moved(s).block_number = s.block_number + 1
      /\ Moved(s).validators = s.validators
      /\ Moved(s).turn_length = s.turn_length
      /\ Moved(s).recent_proposers = MoveWindow(s)
  BY DEF Moved, Snapshots
<1>2. MinerHistoryCheckLen(Moved(s)) = MinerHistoryCheckLen(s)
  BY <1>1 DEF MinerHistoryCheckLen
<1>3. R \in Histories /\ s.block_number \in Nat
  BY DEF Snapshots
<1>4. s.block_number + 1 - (MinerHistoryCheckLen(s) + 1) = gone
  BY <1>3, LengthFacts
<1>5. MoveWindow(s) = Without(R, {gone})
  BY <1>4 DEF MoveWindow
<1> HIDE DEF gone, R
<1>6. /\ MoveWindow(s) \in Histories
      /\ IsFiniteSet(DOMAIN MoveWindow(s))
      /\ DOMAIN MoveWindow(s) = DOMAIN R \ {gone}
      /\ \A b \in DOMAIN R \ {gone} : MoveWindow(s)[b] = R[b]
  <2>1. IsFiniteSet(DOMAIN R)
    BY DEF R
  <2>2. /\ Without(R, {gone}) \in Histories
        /\ IsFiniteSet(DOMAIN Without(R, {gone}))
        /\ DOMAIN Without(R, {gone}) = DOMAIN R \ {gone}
        /\ \A b \in DOMAIN R \ {gone} : Without(R, {gone})[b] = R[b]
    BY <1>3, <2>1, WithoutFacts
  <2> QED
    BY <1>5, <2>2, Zenon
<1> QED
  BY <1>1, <1>2, <1>6 DEF R, gone

\* The blocks of a proposer that count against it.
Counted(s, v) ==
  LET len == MinerHistoryCheckLen(s)
      left == IF s.block_number > len THEN s.block_number - len ELSE 0
  IN {b \in DOMAIN s.recent_proposers : b > left /\ s.recent_proposers[b] = v}

LEMMA CountedForm ==
  ASSUME NEW s, NEW v, NEW n \in Nat, NEW len \in Nat, NEW R \in Histories,
         s.block_number = n, MinerHistoryCheckLen(s) = len, s.recent_proposers = R
  PROVE  Counted(s, v) = {b \in DOMAIN R : b > (IF n > len THEN n - len ELSE 0) /\ R[b] = v}
<1> DEFINE left == IF n > len THEN n - len ELSE 0
<1>1. Counted(s, v) = {b \in DOMAIN R : b > left /\ R[b] = v}
  BY Zenon DEF Counted
<1> QED
  BY <1>1

LEMMA CountedFacts ==
  ASSUME NEW s, NEW v, IsFiniteSet(DOMAIN s.recent_proposers)
  PROVE  /\ CountRecent(s, v) = Cardinality(Counted(s, v))
         /\ IsFiniteSet(Counted(s, v))
         /\ CountRecent(s, v) \in Nat
<1>1. CountRecent(s, v) = Cardinality(Counted(s, v))
  BY DEF CountRecent, Counted
<1>2. Counted(s, v) \in SUBSET DOMAIN s.recent_proposers
  BY DEF Counted
<1>3. IsFiniteSet(Counted(s, v))
  BY <1>2, FS_Subset
<1> QED
  BY <1>1, <1>3, FS_CardinalityType

\* verify_seal counts in the parent's snapshot and apply in the one it has moved
\* already: whoever passes the first check passes the second, before Bohr and after.
LEMMA ProposerAllowed ==
  ASSUME NEW s, SoundSnapshot(s), NEW v, v \in s.validators, ~SignRecently(s, v)
  PROVE  MayPropose(Moved(s), v)
<1> DEFINE n == s.block_number
           R == s.recent_proposers
           len == MinerHistoryCheckLen(s)
           m == Moved(s)
           M == MoveWindow(s)
<1>1. s \in Snapshots /\ IsFiniteSet(DOMAIN R) /\ n \in Nat /\ R \in Histories
      /\ s.turn_length \in Nat \ {0}
  BY DEF SoundSnapshot, Snapshots
<1>2. len \in Nat
  BY <1>1, LengthFacts
<1>3. /\ m.block_number = n + 1 /\ m.validators = s.validators
      /\ m.turn_length = s.turn_length /\ m.recent_proposers = M
      /\ MinerHistoryCheckLen(m) = len
      /\ IsFiniteSet(DOMAIN M)
      /\ DOMAIN M = DOMAIN R \ {n - len}
      /\ \A b \in DOMAIN R \ {n - len} : M[b] = R[b]
  BY <1>1, MovedFacts, Zenon
<1>4. DOMAIN R \subseteq Nat
  BY <1>1, HistoryFacts
<1>5. v \in s.validators /\ ~SignRecently(s, v)
  OBVIOUS
<1>6. Counted(s, v) = {b \in DOMAIN R : b > (IF n > len THEN n - len ELSE 0) /\ R[b] = v}
  BY DEF Counted
<1>7. Counted(m, v) = {b \in DOMAIN M : b > (IF n + 1 > len THEN (n + 1) - len ELSE 0) /\ M[b] = v}
  <2>1. n + 1 \in Nat
    BY <1>1
  <2>2. M \in Histories
    BY <1>1, MovedFacts, Zenon
  <2>3. /\ m.block_number = n + 1 /\ MinerHistoryCheckLen(m) = len
        /\ m.recent_proposers = M
    BY <1>3, Zenon
  <2> HIDE DEF n, R, len, m, M
  <2> QED
    BY <1>2, <2>1, <2>2, <2>3, CountedForm
<1>8. ~SignRecently(m, v)
  <2>1. Counted(m, v) \in SUBSET Counted(s, v)
    <3> HIDE DEF n, R, len, m, M
    <3>1. (IF n > len THEN n - len ELSE 0) <= (IF n + 1 > len THEN (n + 1) - len ELSE 0)
      BY <1>1, <1>2
    <3> QED
      BY <1>1, <1>2, <1>3, <1>4, <1>6, <1>7
  <2>2. /\ CountRecent(s, v) = Cardinality(Counted(s, v)) /\ CountRecent(s, v) \in Nat
        /\ IsFiniteSet(Counted(s, v))
    BY <1>1, CountedFacts
  <2>3. IsFiniteSet(DOMAIN m.recent_proposers)
    BY <1>3, Zenon
  <2>4. CountRecent(m, v) = Cardinality(Counted(m, v)) /\ CountRecent(m, v) \in Nat
    BY <2>3, CountedFacts
  <2>5. CountRecent(m, v) <= CountRecent(s, v)
    BY <2>1, <2>2, <2>4, FS_Subset
  <2> HIDE DEF m, n, R, len, M
  <2> QED
    BY <1>1, <1>3, <1>5, <2>2, <2>4, <2>5 DEF SignRecently
<1>9. ASSUME ~IsBohr(n + 1), v \in Range(M)
      PROVE  FALSE
  <2>1. PICK b \in DOMAIN M : M[b] = v
    BY <1>9 DEF Range
  <2>2. ~IsBohr(n)
    BY <1>1, <1>9, SnapshotConstants DEF IsBohr
  <2>3. s.turn_length = 1 /\ n - len <= b /\ b > 0
    BY <1>3, <2>1, <2>2 DEF SoundSnapshot, OnlyWindow
  <2>4. b \in Counted(s, v)
    <3> HIDE DEF n, R, len, M, m
    <3>1. b \in DOMAIN R /\ b # n - len /\ R[b] = v /\ b \in Nat
      BY <1>3, <1>4, <2>1
    <3>2. b > (IF n > len THEN n - len ELSE 0)
      BY <1>1, <1>2, <2>3, <3>1
    <3> QED
      BY <1>6, <3>1, <3>2
  <2>5. /\ CountRecent(s, v) = Cardinality(Counted(s, v)) /\ CountRecent(s, v) \in Nat
        /\ IsFiniteSet(Counted(s, v))
    BY <1>1, CountedFacts
  <2>6. Cardinality(Counted(s, v)) # 0
    BY <2>4, <2>5, FS_EmptySet
  <2> QED
    BY <1>5, <2>3, <2>5, <2>6 DEF SignRecently
<1> HIDE DEF n, R, len, m, M
<1>10. MayPropose(m, v)
  BY <1>3, <1>5, <1>8, <1>9 DEF MayPropose
<1> QED
  BY <1>10 DEF m

----------------------------------------------------------------------------
(* How many validators the limit can silence. *)

\* Whoever has t blocks of W to its name has t of them for itself, so no more than
\* a t-th of W's size can have that many.
LEMMA Shares ==
  ASSUME NEW U, IsFiniteSet(U), NEW W, IsFiniteSet(W), NEW t \in Nat,
         NEW R,
         \A u \in U : t <= Cardinality({b \in W : R[b] = u})
  PROVE  Cardinality(U) * t <= Cardinality(W)
<1> DEFINE Of(u) == {b \in W : R[b] = u}
           Count(u) == CHOOSE f : f \in Bijection(1..Cardinality(Of(u)), Of(u))
           g == [p \in U \X (1..t) |-> Count(p[1])[p[2]]]
<1>1. ASSUME NEW u \in U
      PROVE  /\ Count(u) \in Bijection(1..Cardinality(Of(u)), Of(u))
             /\ 1..t \subseteq 1..Cardinality(Of(u))
  <2>1. IsFiniteSet(Of(u))
    BY FS_Subset
  <2>2. ExistsBijection(1..Cardinality(Of(u)), Of(u)) /\ Cardinality(Of(u)) \in Nat
    BY <2>1, FS_CardinalityType
  <2>3. \E f : f \in Bijection(1..Cardinality(Of(u)), Of(u))
    BY <2>2 DEF ExistsBijection
  <2>4. t <= Cardinality(Of(u))
    OBVIOUS
  <2> HIDE DEF Of
  <2> QED
    BY <2>2, <2>3, <2>4
<1>2. ASSUME NEW u \in U, NEW i \in 1..t
      PROVE  Count(u)[i] \in W /\ R[Count(u)[i]] = u
  <2> DEFINE c == Count(u)
  <2>1. c \in Bijection(1..Cardinality(Of(u)), Of(u)) /\ i \in 1..Cardinality(Of(u))
    BY <1>1
  <2> HIDE DEF c, Count
  <2>2. c[i] \in Of(u)
    <3> HIDE DEF Of
    <3> QED
      BY <2>1 DEF Bijection, Injection
  <2> QED
    BY <2>2 DEF c
<1>3. ASSUME NEW u \in U, NEW i \in 1..t, NEW j \in 1..t, Count(u)[i] = Count(u)[j]
      PROVE  i = j
  <2> DEFINE c == Count(u)
  <2>1. /\ c \in Bijection(1..Cardinality(Of(u)), Of(u))
        /\ i \in 1..Cardinality(Of(u)) /\ j \in 1..Cardinality(Of(u))
    BY <1>1
  <2>2. c[i] = c[j]
    BY <1>3
  <2> HIDE DEF c, Of, Count
  <2> QED
    BY <2>1, <2>2 DEF Bijection, Injection, IsInjective
<1> HIDE DEF Count, Of
<1>4. g \in Injection(U \X (1..t), W)
  <2>1. g \in [U \X (1..t) -> W]
    BY <1>2
  <2>2. ASSUME NEW p \in U \X (1..t), NEW q \in U \X (1..t), g[p] = g[q]
        PROVE  p = q
    <3>1. Count(p[1])[p[2]] = Count(q[1])[q[2]]
      BY <2>2
    <3>2. p[1] = q[1]
      BY <1>2, <3>1
    <3>3. p[2] = q[2]
      BY <1>3, <3>1, <3>2
    <3> QED
      BY <3>2, <3>3
  <2> QED
    BY <2>1, <2>2 DEF Injection, IsInjective
<1> HIDE DEF g
<1>5. IsFiniteSet(1..t) /\ Cardinality(1..t) = t
  <2>1. IsFiniteSet(1..t) /\ Cardinality(1..t) = IF 1 > t THEN 0 ELSE t - 1 + 1
    BY FS_Interval
  <2> QED
    BY <2>1
<1>6. Cardinality(U \X (1..t)) = Cardinality(U) * Cardinality(1..t)
  BY <1>5, FS_Product
<1>7. Cardinality(U \X (1..t)) <= Cardinality(W)
  BY <1>4, FS_Injection
<1> QED
  BY <1>5, <1>6, <1>7

\* The window covers fewer than turn_length blocks for each validator of a majority,
\* so the limit silences at most half of the set.
LEMMA HalfMayPropose ==
  ASSUME NEW s, GoodSnapshot(s)
  PROVE  LET able == {v \in s.validators : ~SignRecently(s, v)}
         IN 2 * Cardinality(able) >= Cardinality(s.validators)
<1> DEFINE n == s.block_number
           R == s.recent_proposers
           V == s.validators
           len == MinerHistoryCheckLen(s)
           left == IF n > len THEN n - len ELSE 0
           able == {v \in V : ~SignRecently(s, v)}
           U == V \ able
           W == {b \in DOMAIN R : b > left /\ b <= n}
           k == Cardinality(V) \div 2
           t == s.turn_length
<1>1. /\ s \in Snapshots /\ IsFiniteSet(DOMAIN R) /\ n \in Nat /\ R \in Histories
      /\ t \in Nat \ {0} /\ V \in ValidatorSets
  BY DEF GoodSnapshot, IsHistory, Snapshots
<1>2. len \in Nat /\ len = (k + 1) * t - 1
  BY <1>1, LengthFacts DEF MinerHistoryCheckLen
<1>3. IsFiniteSet(V) /\ Cardinality(V) \in Nat /\ k \in Nat /\ 2 * k <= Cardinality(V)
  BY <1>1, MajorityFacts
<1>4. IsFiniteSet(able) /\ Cardinality(able) \in Nat /\ IsFiniteSet(U) /\ Cardinality(U) \in Nat
  <2>1. able \in SUBSET V /\ U \in SUBSET V
    OBVIOUS
  <2> HIDE DEF able, U
  <2> QED
    BY <1>3, <2>1, FS_Subset, FS_CardinalityType
<1>5. Cardinality(V) = Cardinality(able) + Cardinality(U)
  <2>1. V \ U = able /\ V \cap U = U
    OBVIOUS
  <2>2. Cardinality(V \ U) = Cardinality(V) - Cardinality(V \cap U)
    BY <1>3, FS_Difference
  <2> HIDE DEF U, able, V
  <2>3. Cardinality(able) = Cardinality(V) - Cardinality(U)
    BY <2>1, <2>2, Zenon
  <2> QED
    BY <1>3, <1>4, <2>3
<1>6. IsFiniteSet(W) /\ Cardinality(W) \in Nat /\ Cardinality(W) <= len
  <2> HIDE DEF n, len, R
  <2>1. left \in Nat
    BY <1>1, <1>2
  <2>2. W \in SUBSET ((left + 1)..n)
    BY <1>1, <2>1, HistoryFacts
  <2>3. /\ IsFiniteSet((left + 1)..n)
        /\ Cardinality((left + 1)..n) = IF left + 1 > n THEN 0 ELSE n - (left + 1) + 1
    <3> HIDE DEF left
    <3>1. left + 1 \in Int /\ n \in Int
      BY <1>1, <2>1
    <3>2. \A i, j \in Int : /\ IsFiniteSet(i..j)
                            /\ Cardinality(i..j) = IF i > j THEN 0 ELSE j - i + 1
      BY FS_Interval
    <3> QED
      BY <3>1, <3>2
  <2>4. IF left + 1 > n THEN 0 <= len ELSE n - (left + 1) + 1 <= len
    BY <1>1, <1>2
  <2>5. IsFiniteSet(W) /\ Cardinality(W) <= Cardinality((left + 1)..n)
    BY <2>2, <2>3, FS_Subset
  <2>6. Cardinality(W) \in Nat
    BY <2>5, FS_CardinalityType
  <2> HIDE DEF left, W
  <2> QED
    BY <1>1, <1>2, <2>1, <2>3, <2>4, <2>5, <2>6
<1>7. ASSUME NEW u \in U
      PROVE  t <= Cardinality({b \in W : R[b] = u})
  <2>1. SignRecently(s, u) /\ u \in V
    OBVIOUS
  <2>2. CountRecent(s, u) >= t
    BY <2>1 DEF SignRecently
  <2>3. CountRecent(s, u) = Cardinality(Counted(s, u))
    BY <1>1, CountedFacts
  <2>4. Counted(s, u) = {b \in DOMAIN R : b > left /\ R[b] = u}
    BY DEF Counted
  <2>5. u # ZeroAddress
    BY <1>1, <2>1, SnapshotConstants DEF ValidatorSets
  <2>6. \A b \in DOMAIN R : R[b] = u => b <= n
    BY <2>5 DEF GoodSnapshot, IsHistory
  <2>7. Counted(s, u) = {b \in W : R[b] = u}
    <3> HIDE DEF left, n, R
    <3> QED
      BY <2>4, <2>6
  <2>8. CountRecent(s, u) \in Nat
    BY <1>1, CountedFacts
  <2> HIDE DEF W, R, t
  <2> QED
    BY <1>1, <2>2, <2>3, <2>7, <2>8
<1> HIDE DEF n, R, V, len, left, able, U, W, k, t
<1>8. Cardinality(U) * t <= Cardinality(W)
  BY <1>1, <1>4, <1>6, <1>7, Shares
<1>9. \A u, j \in Nat, r \in Nat \ {0} : u * r <= (j + 1) * r - 1 => u <= j
  OBVIOUS
<1>10. Cardinality(U) <= k
  <2>1. Cardinality(U) * t <= (k + 1) * t - 1
    BY <1>1, <1>2, <1>3, <1>4, <1>6, <1>8
  <2> QED
    BY <1>1, <1>3, <1>4, <1>9, <2>1
<1>11. 2 * Cardinality(able) >= Cardinality(V)
  BY <1>3, <1>4, <1>5, <1>10
<1> QED
  BY <1>11 DEF able, V

----------------------------------------------------------------------------
(* The votes in the chain. *)

\* What a snapshot of block n has justified and finalized: nothing, or a block below
\* n and one below that.
GoodVotes(votes, n) ==
  /\ votes \in Votes
  /\ votes = NoAttestation \/ (votes.source < votes.target /\ votes.target < n)

\* What the latest blocks justify is below them.
GoodJustified(just, n) ==
  \A b \in DOMAIN just \ {0} : b \in Nat /\ b <= n /\ just[b] \in Nat /\ just[b] < b

\* An attestation that passes the checks on top of a snapshot of block n.
GoodAttestation(att, votes, n) ==
  \/ att = NoAttestation
  \/ /\ att \in Votes
     /\ att.source = votes.target /\ att.source < att.target /\ att.target <= n

\* One step of FinalityAdvances.
Advances(old, new) ==
  /\ new.target >= old.target
  /\ \/ new.source = old.source
     \/ new.source = old.target /\ new.target = new.source + 1 /\ new.source > old.source

\* An attestation moves the justified block up, and the final one to where the
\* justified one was.
LEMMA VotesAdvance ==
  ASSUME NEW n \in Nat, NEW votes, GoodVotes(votes, n), NEW att, GoodAttestation(att, votes, n)
  PROVE  LET new == UpdateAttestation(votes, n + 1, att)
         IN GoodVotes(new, n + 1) /\ new.source < n + 1 /\ Advances(votes, new)
<1> DEFINE new == UpdateAttestation(votes, n + 1, att)
<1> SUFFICES GoodVotes(new, n + 1) /\ new.source < n + 1 /\ Advances(votes, new)
  OBVIOUS
<1>1. /\ votes \in Votes /\ votes.source \in Nat /\ votes.target \in Nat
      /\ votes.source <= votes.target
      /\ votes = NoAttestation => votes.source = 0 /\ votes.target = 0
  BY DEF GoodVotes, Votes, NoAttestation
<1>2. CASE new = votes
  <2> HIDE DEF new
  <2>1. GoodVotes(votes, n + 1) /\ votes.source < n + 1
    BY <1>1 DEF GoodVotes
  <2>2. Advances(votes, votes)
    BY <1>1 DEF Advances
  <2> QED
    BY <1>2, <2>1, <2>2
<1>3. CASE new # votes
  <2>1. att # NoAttestation
    BY <1>3 DEF UpdateAttestation
  <2>2. /\ att \in Votes /\ att.source = votes.target /\ att.source < att.target /\ att.target <= n
        /\ att.source \in Nat /\ att.target \in Nat
    BY <2>1 DEF GoodAttestation, Votes
  <2>3. CASE att.source + 1 # att.target
    <3>1. new = [votes EXCEPT !.target = att.target]
      BY <1>3, <2>3 DEF UpdateAttestation
    <3>2. new \in Votes /\ new.source = votes.source /\ new.target = att.target
      BY <1>1, <2>2, <3>1 DEF Votes
    <3> HIDE DEF new
    <3>3. new.source < new.target /\ new.target < n + 1 /\ new.source < n + 1
      BY <1>1, <2>2, <3>2
    <3>4. new.target >= votes.target
      BY <1>1, <2>2, <3>2
    <3> QED
      BY <3>2, <3>3, <3>4 DEF GoodVotes, Advances
  <2>4. CASE att.source + 1 = att.target
    <3>1. new = att
      BY <1>3, <2>4 DEF UpdateAttestation
    <3> HIDE DEF new
    <3>2. GoodVotes(att, n + 1) /\ att.source < n + 1
      BY <2>2 DEF GoodVotes
    <3>3. att.target >= votes.target /\ att.source = votes.target /\ att.target = att.source + 1
      BY <1>1, <2>2, <2>4
    <3>4. att.source = votes.source \/ att.source > votes.source
      BY <1>1, <2>2
    <3> QED
      BY <3>1, <3>2, <3>3, <3>4 DEF Advances
  <2> QED
    BY <2>3, <2>4
<1> QED
  BY <1>2, <1>3

\* The checks and the votes of the chain together.
LEMMA AttestationGood ==
  ASSUME NEW s \in Snapshots, NEW just, GoodJustified(just, s.block_number), NEW att,
         \/ att = NoAttestation
         \/ \E t \in DOMAIN just \ {0} : att = [source |-> just[t], target |-> t],
         VerifyAttestation(s, att)
  PROVE  GoodAttestation(att, s.vote_data, s.block_number)
<1> SUFFICES ASSUME att # NoAttestation
             PROVE  GoodAttestation(att, s.vote_data, s.block_number)
  BY DEF GoodAttestation
<1>1. PICK t \in DOMAIN just \ {0} : att = [source |-> just[t], target |-> t]
  OBVIOUS
<1>2. t \in Nat /\ t <= s.block_number /\ just[t] \in Nat /\ just[t] < t
  BY DEF GoodJustified
<1>3. att.source = s.vote_data.target
  BY DEF VerifyAttestation
<1>4. att \in Votes /\ att.source = just[t] /\ att.target = t
  BY <1>1, <1>2 DEF Votes
<1> QED
  BY <1>2, <1>3, <1>4 DEF GoodAttestation

----------------------------------------------------------------------------
(* The history after a block. *)

\* The history that apply leaves before a new validator set is installed.
RecentsAfter(s, v, finalized) ==
  ForgetFinalized(Insert(MoveWindow(s), s.block_number + 1, v), s.block_number + 1, finalized)

\* It has the new block, nothing that left the window, and still the mark of the epoch.
LEMMA RecentsAfterFacts ==
  ASSUME NEW s, GoodSnapshot(s), s.block_number < MaxBlock, NEW v \in Addresses,
         NEW finalized \in Nat, finalized < s.block_number + 1
  PROVE  LET Q == RecentsAfter(s, v, finalized)
             R == s.recent_proposers
         IN /\ IsHistory(Q, s.block_number + 1)
            /\ s.block_number + 1 \in DOMAIN Q
            /\ \A b \in DOMAIN Q :
                 b = s.block_number + 1 \/ (b \in DOMAIN R /\ b # s.block_number - MinerHistoryCheckLen(s))
            /\ \A b \in DOMAIN R : b > MaxBlock => b \in DOMAIN Q
<1> DEFINE n == s.block_number
           R == s.recent_proposers
           gone == n - MinerHistoryCheckLen(s)
           M == MoveWindow(s)
           I == Insert(M, n + 1, v)
           Q == RecentsAfter(s, v, finalized)
<1> SUFFICES /\ IsHistory(Q, n + 1)
             /\ n + 1 \in DOMAIN Q
             /\ \A b \in DOMAIN Q : b = n + 1 \/ (b \in DOMAIN R /\ b # gone)
             /\ \A b \in DOMAIN R : b > MaxBlock => b \in DOMAIN Q
  OBVIOUS
<1>1. /\ s \in Snapshots /\ IsFiniteSet(DOMAIN R) /\ n \in Nat /\ R \in Histories
      /\ \A b \in DOMAIN R : b > 0 /\ (b <= n \/ (b > MaxBlock /\ R[b] = ZeroAddress))
  BY DEF GoodSnapshot, IsHistory, Snapshots
<1>2. gone \in Int /\ gone <= n
  BY <1>1, LengthFacts
<1>3. /\ M \in Histories /\ IsFiniteSet(DOMAIN M)
      /\ DOMAIN M = DOMAIN R \ {gone}
      /\ \A b \in DOMAIN R \ {gone} : M[b] = R[b]
  BY <1>1, MovedFacts, Zenon
<1>4. /\ I \in Histories /\ IsFiniteSet(DOMAIN I)
      /\ DOMAIN I = DOMAIN M \cup {n + 1}
      /\ \A b \in DOMAIN M \ {n + 1} : I[b] = M[b]
  <2> DEFINE k == n + 1
  <2>1. k \in Nat
    BY <1>1
  <2>2. v \in Addresses \cup {ZeroAddress}
    OBVIOUS
  <2>3. M \in Histories /\ IsFiniteSet(DOMAIN M)
    BY <1>3
  <2> HIDE DEF M, k
  <2>4. /\ Insert(M, k, v) \in Histories /\ IsFiniteSet(DOMAIN Insert(M, k, v))
        /\ DOMAIN Insert(M, k, v) = DOMAIN M \cup {k}
    BY <2>1, <2>2, <2>3, InsertFacts
  <2>5. \A b \in DOMAIN M \ {k} : Insert(M, k, v)[b] = M[b]
    BY DEF Insert
  <2> QED
    BY <2>4, <2>5 DEF k
<1>5. /\ Q \in Histories /\ IsFiniteSet(DOMAIN Q)
      /\ DOMAIN Q \subseteq DOMAIN I
      /\ \A b \in DOMAIN Q : Q[b] = I[b]
      /\ \A b \in DOMAIN I : b > finalized => b \in DOMAIN Q
  <2> DEFINE F == {b \in DOMAIN I : b <= finalized}
  <2>1. Q = IF IsMaxwell(n + 1) THEN Without(I, F) ELSE I
    BY DEF RecentsAfter, ForgetFinalized
  <2> HIDE DEF I, n, Q
  <2>2. CASE Q = Without(I, F)
    <3>1. /\ Q \in Histories /\ IsFiniteSet(DOMAIN Q) /\ DOMAIN Q = DOMAIN I \ F
          /\ \A b \in DOMAIN I \ F : Q[b] = I[b]
      <4>1. I \in Histories /\ IsFiniteSet(DOMAIN I)
        BY <1>4
      <4> HIDE DEF F
      <4>2. /\ Without(I, F) \in Histories /\ IsFiniteSet(DOMAIN Without(I, F))
            /\ DOMAIN Without(I, F) = DOMAIN I \ F
            /\ \A b \in DOMAIN I \ F : Without(I, F)[b] = I[b]
        BY <4>1, WithoutFacts
      <4> QED
        BY <2>2, <4>2, Zenon
    <3>2. DOMAIN I \subseteq Nat
      BY <1>4, HistoryFacts
    <3> QED
      BY <3>1, <3>2
  <2>3. CASE Q = I
    BY <1>4, <2>3
  <2> QED
    BY <2>1, <2>2, <2>3
<1>6. DOMAIN R \subseteq Nat /\ MaxBlock \in Nat /\ n < MaxBlock /\ finalized < n + 1
  BY <1>1, HistoryFacts, ChainConstants
<1> HIDE DEF n, R, gone, M, I, Q
<1>7. n + 1 \in DOMAIN Q
  BY <1>1, <1>4, <1>5, <1>6
<1>8. \A b \in DOMAIN Q : b = n + 1 \/ (b \in DOMAIN R /\ b # gone /\ Q[b] = R[b])
  BY <1>3, <1>4, <1>5
<1>9. \A b \in DOMAIN R : b > MaxBlock => b \in DOMAIN Q
  BY <1>1, <1>2, <1>3, <1>4, <1>5, <1>6
<1>10. \A b \in DOMAIN Q : b > 0 /\ (b <= n + 1 \/ (b > MaxBlock /\ Q[b] = ZeroAddress))
  <2> TAKE b \in DOMAIN Q
  <2>1. CASE b = n + 1
    BY <1>1, <2>1
  <2>2. CASE b \in DOMAIN R /\ Q[b] = R[b]
    BY <1>1, <1>6, <2>2
  <2> QED
    BY <1>8, <2>1, <2>2
<1>11. IsHistory(Q, n + 1)
  BY <1>5, <1>10 DEF IsHistory
<1> QED
  BY <1>7, <1>8, <1>9, <1>11

----------------------------------------------------------------------------
(* The snapshot after a block. *)

VotesAfter(s, att) == UpdateAttestation(s.vote_data, s.block_number + 1, att)

\* The fields of what apply returns for a proposer it accepts.
LEMMA ApplyForm ==
  ASSUME NEW s \in Snapshots, NEW v, NEW att, NEW vals, NEW turn, MayPropose(Moved(s), v)
  PROVE  LET n == s.block_number + 1
             votes == VotesAfter(s, att)
             Q == RecentsAfter(s, v, votes.source)
         IN /\ Installs(Q, n, s.epoch_num, vals) =>
                 Apply(s, v, att, vals, turn) =
                   [block_number |-> n, epoch_num |-> NextEpochNum(s.epoch_num, n),
                    validators |-> vals, turn_length |-> NextTurnLength(s.turn_length, turn),
                    vote_data |-> votes,
                    recent_proposers |-> RecentsAtSwitch(Q, n, s.epoch_num, s.validators, vals)]
            /\ ~Installs(Q, n, s.epoch_num, vals) =>
                 Apply(s, v, att, vals, turn) =
                   [block_number |-> n, epoch_num |-> NextEpochNum(s.epoch_num, n),
                    validators |-> s.validators, turn_length |-> s.turn_length,
                    vote_data |-> votes, recent_proposers |-> Q]
<1> DEFINE n == s.block_number + 1
           votes == VotesAfter(s, att)
           Q == RecentsAfter(s, v, votes.source)
           moved == Moved(s)
           e == NextEpochNum(s.epoch_num, n)
           T == NextTurnLength(s.turn_length, turn)
           P == RecentsAtSwitch(Q, n, s.epoch_num, s.validators, vals)
           next == [moved EXCEPT !.vote_data = votes, !.recent_proposers = Q, !.epoch_num = e]
           last == [next EXCEPT !.turn_length = NextTurnLength(@, turn),
                                !.recent_proposers = P, !.validators = vals]
<1>1. moved = [s EXCEPT !.block_number = n, !.recent_proposers = MoveWindow(s)]
  BY DEF Moved
<1>2. moved.recent_proposers = MoveWindow(s)
  BY DEF Moved, Snapshots
<1>3. Q = ForgetFinalized(Insert(moved.recent_proposers, n, v), n, votes.source)
  BY <1>2, Zenon DEF RecentsAfter
<1>4. Apply(s, v, att, vals, turn) = IF ~Installs(Q, n, s.epoch_num, vals) THEN next ELSE last
  BY <1>3, Zenon DEF Apply, Moved, VotesAfter
<1>5. moved = [block_number |-> n, epoch_num |-> s.epoch_num, validators |-> s.validators,
               turn_length |-> s.turn_length, vote_data |-> s.vote_data,
               recent_proposers |-> MoveWindow(s)]
  BY <1>1 DEF Snapshots
<1> HIDE DEF moved, e, n, votes, Q, T, P
<1>6. next = [block_number |-> n, epoch_num |-> e, validators |-> s.validators,
              turn_length |-> s.turn_length, vote_data |-> votes, recent_proposers |-> Q]
  <2> DEFINE V == s.validators
             t == s.turn_length
             d == s.vote_data
             M == MoveWindow(s)
             f == s.epoch_num
  <2>1. moved = [block_number |-> n, epoch_num |-> f, validators |-> V, turn_length |-> t,
                 vote_data |-> d, recent_proposers |-> M]
    BY <1>5
  <2> HIDE DEF V, t, d, M, f
  <2>2. next = [block_number |-> n, epoch_num |-> e, validators |-> V, turn_length |-> t,
                vote_data |-> votes, recent_proposers |-> Q]
    <3> DEFINE x == [moved EXCEPT !.vote_data = votes]
               y == [x EXCEPT !.recent_proposers = Q]
               z == [y EXCEPT !.epoch_num = e]
    <3>1. x = [block_number |-> n, epoch_num |-> f, validators |-> V, turn_length |-> t,
               vote_data |-> votes, recent_proposers |-> M]
      BY <2>1
    <3> HIDE DEF x
    <3>2. y = [block_number |-> n, epoch_num |-> f, validators |-> V, turn_length |-> t,
               vote_data |-> votes, recent_proposers |-> Q]
      BY <3>1
    <3> HIDE DEF y
    <3>3. z = [block_number |-> n, epoch_num |-> e, validators |-> V, turn_length |-> t,
               vote_data |-> votes, recent_proposers |-> Q]
      BY <3>2
    <3> QED
      BY <3>3, Zenon DEF x, y
  <2> QED
    BY <2>2 DEF V, t
<1>7. T = NextTurnLength(next.turn_length, turn)
  BY <1>6 DEF T
<1>8. last = [next EXCEPT !.turn_length = T, !.recent_proposers = P, !.validators = vals]
  <2> HIDE DEF next
  <2> QED
    BY <1>6, <1>7
<1> HIDE DEF next, last
<1>9. last = [block_number |-> n, epoch_num |-> e, validators |-> vals, turn_length |-> T,
              vote_data |-> votes, recent_proposers |-> P]
  BY <1>6, <1>8
<1> QED
  BY <1>4, <1>6, <1>9, Zenon DEF e, n, votes, Q, T, P

\* The mark of an epoch is out of the range of block numbers.
LEMMA EpochKeyFacts ==
  ASSUME NEW n \in Nat, n <= MaxBlock, NEW e \in Nat \ {0}
  PROVE  EpochKey(n, e) \in Nat /\ EpochKey(n, e) > MaxBlock
<1>1. n \div e \in Nat /\ n \div e <= n
  OBVIOUS
<1> QED
  BY <1>1, ChainConstants, SnapshotConstants DEF EpochKey

\* A new validator set from Bohr on: a history with nothing but the mark of the epoch.
LEMMA SwitchAfterBohr ==
  ASSUME NEW Q, NEW n \in Nat, n <= MaxBlock, NEW e \in Nat \ {0}, NEW old, NEW new, IsBohr(n)
  PROVE  LET P == RecentsAtSwitch(Q, n, e, old, new)
         IN IsHistory(P, n) /\ DOMAIN P = {EpochKey(n, e)} /\ n \notin DOMAIN P
<1> DEFINE P == RecentsAtSwitch(Q, n, e, old, new)
           key == EpochKey(n, e)
<1> SUFFICES IsHistory(P, n) /\ DOMAIN P = {key} /\ n \notin DOMAIN P
  OBVIOUS
<1>1. P = Insert(<<>>, key, ZeroAddress)
  BY DEF RecentsAtSwitch
<1>2. key \in Nat /\ key > MaxBlock /\ MaxBlock \in Nat
  BY EpochKeyFacts, ChainConstants
<1> HIDE DEF P, key
<1>3. <<>> \in Histories /\ DOMAIN <<>> = {}
  <2>1. DOMAIN <<>> = {}
    OBVIOUS
  <2>2. <<>> \in [{} -> Addresses \cup {ZeroAddress}]
    OBVIOUS
  <2> QED
    BY <2>1, <2>2 DEF Histories
<1>4. IsFiniteSet(DOMAIN <<>>)
  BY <1>3, FS_EmptySet
<1>5. /\ P \in Histories /\ IsFiniteSet(DOMAIN P) /\ DOMAIN P = {key} /\ P[key] = ZeroAddress
  <2> DEFINE f == <<>>
             z == ZeroAddress
  <2>1. f \in Histories /\ IsFiniteSet(DOMAIN f) /\ key \in Nat
    BY <1>2, <1>3, <1>4
  <2>2. z \in Addresses \cup {ZeroAddress}
    OBVIOUS
  <2>3. P = Insert(f, key, z) /\ DOMAIN f = {}
    BY <1>1, <1>3
  <2> HIDE DEF f, z
  <2>4. /\ Insert(f, key, z) \in Histories /\ IsFiniteSet(DOMAIN Insert(f, key, z))
        /\ DOMAIN Insert(f, key, z) = DOMAIN f \cup {key}
    BY <2>1, <2>2, InsertFacts
  <2>5. Insert(f, key, z)[key] = z
    BY DEF Insert
  <2> QED
    BY <2>3, <2>4, <2>5 DEF z
<1> QED
  BY <1>2, <1>5 DEF IsHistory

\* A new validator set before Bohr: what the window of the new set does not cover is
\* dropped, and the block itself is kept.
LEMMA SwitchBeforeBohr ==
  ASSUME NEW n \in Nat, NEW Q, IsHistory(Q, n), n \in DOMAIN Q, NEW e,
         NEW old \in ValidatorSets, NEW new \in ValidatorSets, ~IsBohr(n),
         OnlyWindow(Q, n, Cardinality(old) \div 2)
  PROVE  LET P == RecentsAtSwitch(Q, n, e, old, new)
         IN /\ IsHistory(P, n) /\ n \in DOMAIN P
            /\ OnlyWindow(P, n, Cardinality(new) \div 2)
<1> DEFINE P == RecentsAtSwitch(Q, n, e, old, new)
           j == Cardinality(old) \div 2
           k == Cardinality(new) \div 2
           D == {n - (k + 1) - i : i \in 0..((j + 1) - (k + 1) - 1)}
<1> SUFFICES IsHistory(P, n) /\ n \in DOMAIN P /\ OnlyWindow(P, n, k)
  OBVIOUS
<1>1. j \in Nat /\ k \in Nat
  BY MajorityFacts
<1>2. P = Without(Q, D)
  BY DEF RecentsAtSwitch
<1> HIDE DEF P, j, k
<1>3. Q \in Histories /\ IsFiniteSet(DOMAIN Q) /\ DOMAIN Q \subseteq Nat
  BY HistoryFacts DEF IsHistory
<1>4. /\ P \in Histories /\ IsFiniteSet(DOMAIN P) /\ DOMAIN P = DOMAIN Q \ D
      /\ \A b \in DOMAIN Q \ D : P[b] = Q[b]
  <2> HIDE DEF D
  <2> QED
    BY <1>2, <1>3, WithoutFacts
<1>5. n \notin D
  BY <1>1
<1>6. \A b \in DOMAIN Q \ D : n - k <= b /\ b <= n
  <2> TAKE b \in DOMAIN Q \ D
  <2>1. n - j <= b /\ b <= n /\ b \in Nat
    BY <1>3 DEF OnlyWindow, j
  <2>2. ASSUME b < n - k
        PROVE  FALSE
    <3> DEFINE i == n - (k + 1) - b
    <3>1. i \in 0..((j + 1) - (k + 1) - 1) /\ b = n - (k + 1) - i
      BY <1>1, <2>1, <2>2
    <3> HIDE DEF i
    <3>2. b \in D
      BY <3>1
    <3> QED
      BY <3>2
  <2> QED
    BY <1>1, <2>1, <2>2
<1> HIDE DEF D
<1>7. \A b \in DOMAIN P : b > 0 /\ (b <= n \/ (b > MaxBlock /\ P[b] = ZeroAddress))
  BY <1>4 DEF IsHistory
<1> QED
  BY <1>4, <1>5, <1>6, <1>7 DEF IsHistory, OnlyWindow

----------------------------------------------------------------------------
(* Checkpoints. *)

\* The last checkpoint block: it is at the last multiple of the epoch length, unless
\* the next block is one.
GoodCheckpoint(cp, s) ==
  /\ cp \in [number : Nat, validators : ValidatorSets, turn : TurnLengths \cup {0}]
  /\ cp.number <= s.block_number
  /\ ~IsBohr(cp.number) => cp.turn = 0
  /\ (s.block_number + 1) % s.epoch_num # 0 =>
       cp.number = s.block_number - (s.block_number % s.epoch_num)

\* Checkpoints(s), with the last checkpoint as a parameter.
NextCheckpoint(cp, new, s) ==
  LET n == s.block_number + 1
  IN IF n % s.epoch_num # 0 THEN new = cp
     ELSE new \in [number : {n}, validators : CheckpointSets,
                   turn : IF IsBohr(n) THEN TurnLengths ELSE {0}]

\* Counting in epochs.
LEMMA EpochArithmetic ==
  ASSUME NEW n \in Nat, NEW e \in Nat \ {0}
  PROVE  /\ n % e \in Nat
         /\ n % e = 0 => n - (n % e) = n
         /\ (n + 1) % e # 0 => /\ (n + 1) \div e = n \div e
                               /\ (n + 1) - ((n + 1) % e) = n - (n % e)
<1>1. /\ n % e \in Nat /\ n % e < e /\ n = e * (n \div e) + (n % e) /\ n \div e \in Nat
      /\ (n + 1) % e \in Nat /\ n + 1 = e * ((n + 1) \div e) + ((n + 1) % e)
      /\ (n + 1) \div e \in Nat
  OBVIOUS
<1>2. (n + 1) % e # 0 => (n + 1) \div e = n \div e
  OBVIOUS
<1>3. ASSUME (n + 1) % e # 0
      PROVE  (n + 1) - ((n + 1) % e) = n - (n % e)
  <2> DEFINE q == n \div e
             r == n % e
             p == (n + 1) % e
             m == e * q
  <2>1. n = m + r /\ n + 1 = m + p /\ m \in Nat /\ r \in Nat /\ p \in Nat
    BY <1>1, <1>2, <1>3
  <2> HIDE DEF q, r, p, m
  <2>2. (n + 1) - p = n - r
    BY <2>1
  <2> QED
    BY <2>2 DEF p, r
<1> QED
  BY <1>1, <1>2, <1>3

\* The epoch length changes only where the next block starts an epoch of the new length.
LEMMA EpochNumFacts ==
  ASSUME NEW e \in Nat \ {0}, NEW n \in Nat
  PROVE  /\ NextEpochNum(e, n) \in Nat \ {0}
         /\ NextEpochNum(e, n) = e \/ (n + 1) % NextEpochNum(e, n) = 0
<1> QED
  BY SnapshotConstants DEF NextEpochNum

\* After the next block the last checkpoint is where the epoch length puts it.
LEMMA CheckpointStep ==
  ASSUME NEW s \in Snapshots, NEW cp, GoodCheckpoint(cp, s), NEW new, NextCheckpoint(cp, new, s)
  PROVE  LET n == s.block_number + 1
         IN /\ new \in [number : Nat, validators : ValidatorSets, turn : TurnLengths \cup {0}]
            /\ new.number <= n /\ new.number = n - (n % s.epoch_num)
            /\ ~IsBohr(new.number) => new.turn = 0
            /\ n % s.epoch_num # 0 => new = cp
            /\ n % s.epoch_num = 0 => new.number = n
<1> DEFINE n == s.block_number + 1
           e == s.epoch_num
<1>1. s.block_number \in Nat /\ n \in Nat /\ e \in Nat \ {0}
  BY DEF Snapshots
<1>2. CASE n % e # 0
  <2>1. new = cp
    BY <1>2 DEF NextCheckpoint
  <2>2. cp.number = s.block_number - (s.block_number % e) /\ cp.number <= s.block_number
        /\ cp.number \in Nat
    BY <1>2 DEF GoodCheckpoint
  <2>3. n - (n % e) = s.block_number - (s.block_number % e)
    BY <1>1, <1>2, EpochArithmetic
  <2>4. cp.number <= n
    BY <1>1, <2>2
  <2> HIDE DEF n, e
  <2> QED
    BY <1>2, <2>1, <2>2, <2>3, <2>4 DEF GoodCheckpoint, n, e
<1>3. CASE n % e = 0
  <2>1. new \in [number : {n}, validators : CheckpointSets,
                 turn : IF IsBohr(n) THEN TurnLengths ELSE {0}]
    BY <1>3 DEF NextCheckpoint
  <2>2. new.number = n /\ (~IsBohr(n) => new.turn = 0)
    BY <2>1
  <2>3. new \in [number : Nat, validators : ValidatorSets, turn : TurnLengths \cup {0}]
    BY <1>1, <2>1, ChainConstants
  <2>4. n - (n % e) = n
    BY <1>1, <1>3
  <2> HIDE DEF n, e
  <2> QED
    BY <1>1, <1>3, <2>2, <2>3, <2>4 DEF n, e
<1> QED
  BY <1>2, <1>3

\* An epoch boundary finds the checkpoint at the number where the provider looks.
LEMMA CheckpointFound ==
  ASSUME NEW s \in Snapshots, NEW cp, GoodCheckpoint(cp, s), NEW new, NextCheckpoint(cp, new, s),
         NEW v, NEW att
  PROVE  \/ SnapshotAfter(s, v, att, new) = Apply(s, v, att, {}, 0)
         \/ SnapshotAfter(s, v, att, new) = Apply(s, v, att, new.validators, new.turn)
<1>1. CASE ~IsEpochBoundary(s)
  BY <1>1 DEF SnapshotAfter
<1>2. CASE IsEpochBoundary(s)
  <2>1. new.number = s.block_number + 1 - ((s.block_number + 1) % s.epoch_num)
    <3>1. new.number = (s.block_number + 1) - ((s.block_number + 1) % s.epoch_num)
      BY CheckpointStep, Zenon
    <3>2. s.block_number \in Nat /\ (s.block_number + 1) % s.epoch_num \in Nat
      BY EpochArithmetic DEF Snapshots
    <3> QED
      BY <3>1, <3>2
  <2>2. s.block_number + 1 - MinerHistoryCheckLen(s) = new.number
    BY <1>2, <2>1 DEF IsEpochBoundary
  <2> QED
    BY <1>2, <2>2 DEF SnapshotAfter
<1> QED
  BY <1>1, <1>2

----------------------------------------------------------------------------
(* One block. *)

\* The snapshot of an accepted block is a good one. It starts a new history only from
\* Bohr on, when the old one had no mark of the epoch; else the marks stay.
Follows(s, next, att) ==
  LET n == s.block_number + 1
      key == EpochKey(n, s.epoch_num)
  IN /\ GoodSnapshot(next)
     /\ next.block_number = n
     /\ next.vote_data = VotesAfter(s, att)
     /\ next.epoch_num = NextEpochNum(s.epoch_num, n)
     /\ StartsHistory(next) => /\ IsBohr(n)
                               /\ key \notin DOMAIN s.recent_proposers
                               /\ key \in DOMAIN next.recent_proposers
     /\ IsBohr(n) /\ ~StartsHistory(next) =>
          (key \in DOMAIN s.recent_proposers => key \in DOMAIN next.recent_proposers)

LEMMA AppliedFollows ==
  ASSUME NEW s, GoodSnapshot(s), s.block_number < MaxBlock, GoodVotes(s.vote_data, s.block_number),
         NEW v \in Addresses, VerifySeal(s, v),
         NEW att, GoodAttestation(att, s.vote_data, s.block_number),
         NEW vals \in ValidatorSets \cup {{}}, NEW turn \in TurnLengths \cup {0},
         ~IsBohr(s.block_number + 1) => turn = 0
  PROVE  Follows(s, Apply(s, v, att, vals, turn), att)
<1> DEFINE n == s.block_number + 1
           e == s.epoch_num
           R == s.recent_proposers
           votes == VotesAfter(s, att)
           Q == RecentsAfter(s, v, votes.source)
           key == EpochKey(n, e)
           E == NextEpochNum(e, n)
           len == MinerHistoryCheckLen(s)
           A == Apply(s, v, att, vals, turn)
           P == RecentsAtSwitch(Q, n, e, s.validators, vals)
           T == NextTurnLength(s.turn_length, turn)
<1>1. /\ s \in Snapshots /\ s.block_number \in Nat /\ n \in Nat /\ e \in Nat \ {0}
      /\ s.turn_length \in Nat \ {0} /\ s.validators \in ValidatorSets
      /\ R \in Histories /\ n <= MaxBlock /\ MaxBlock \in Nat
  BY ChainConstants DEF GoodSnapshot, Snapshots
<1>2. MayPropose(Moved(s), v)
  <2>1. SoundSnapshot(s)
    BY DEF GoodSnapshot, SoundSnapshot, IsHistory
  <2>2. v \in s.validators /\ ~SignRecently(s, v)
    BY DEF VerifySeal
  <2> QED
    BY <2>1, <2>2, ProposerAllowed
<1>3. votes \in Votes /\ votes.source \in Nat /\ votes.source < n
  <2>1. GoodVotes(votes, n) /\ votes.source < n
    BY <1>1, VotesAdvance DEF VotesAfter
  <2> QED
    BY <2>1 DEF GoodVotes, Votes
<1>4. /\ IsHistory(Q, n) /\ n \in DOMAIN Q
      /\ \A b \in DOMAIN Q : b = n \/ (b \in DOMAIN R /\ b # s.block_number - len)
      /\ \A b \in DOMAIN R : b > MaxBlock => b \in DOMAIN Q
  <2>1. votes.source \in Nat /\ votes.source < s.block_number + 1
    BY <1>3
  <2> HIDE DEF votes
  <2> QED
    BY <2>1, RecentsAfterFacts, Zenon
<1>5. key \in Nat /\ key > MaxBlock
  BY <1>1, EpochKeyFacts
<1>6. E \in Nat \ {0}
  BY <1>1, EpochNumFacts
<1>7. /\ Installs(Q, n, e, vals) =>
           A = [block_number |-> n, epoch_num |-> E, validators |-> vals, turn_length |-> T,
                vote_data |-> votes, recent_proposers |-> P]
      /\ ~Installs(Q, n, e, vals) =>
           A = [block_number |-> n, epoch_num |-> E, validators |-> s.validators,
                turn_length |-> s.turn_length, vote_data |-> votes, recent_proposers |-> Q]
  BY <1>1, <1>2, ApplyForm, Zenon
<1>8. ~IsBohr(n) => /\ ~IsBohr(s.block_number) /\ s.turn_length = 1 /\ turn = 0
                    /\ len = Cardinality(s.validators) \div 2
                    /\ OnlyWindow(Q, n, len)
  <2> SUFFICES ASSUME ~IsBohr(n)
               PROVE  /\ ~IsBohr(s.block_number) /\ s.turn_length = 1 /\ turn = 0
                      /\ len = Cardinality(s.validators) \div 2
                      /\ OnlyWindow(Q, n, len)
    OBVIOUS
  <2>1. ~IsBohr(s.block_number)
    BY <1>1, SnapshotConstants DEF IsBohr
  <2>2. s.turn_length = 1 /\ OnlyWindow(R, s.block_number, len) /\ turn = 0
    BY <2>1 DEF GoodSnapshot
  <2>3. len \in Nat /\ len = Cardinality(s.validators) \div 2
    BY <1>1, <2>2, LengthFacts
  <2>4. DOMAIN R \subseteq Nat
    BY <1>1, HistoryFacts
  <2>5. OnlyWindow(Q, n, len)
    <3> SUFFICES ASSUME NEW b \in DOMAIN Q
                 PROVE  n - len <= b /\ b <= n
      BY DEF OnlyWindow
    <3>1. CASE b = n
      BY <1>1, <2>3, <3>1
    <3>2. CASE b \in DOMAIN R /\ b # s.block_number - len
      <4>1. s.block_number - len <= b /\ b <= s.block_number /\ b \in Nat
        BY <2>2, <2>4, <3>2 DEF OnlyWindow
      <4> HIDE DEF len, R
      <4> QED
        BY <1>1, <2>3, <3>2, <4>1
    <3> QED
      BY <1>4, <3>1, <3>2
  <2> QED
    BY <2>1, <2>2, <2>3, <2>5
<1> HIDE DEF n, e, R, votes, Q, key, E, len, A, P, T
<1>9. CASE ~Installs(Q, n, e, vals)
  <2>1. A = [block_number |-> n, epoch_num |-> E, validators |-> s.validators,
             turn_length |-> s.turn_length, vote_data |-> votes, recent_proposers |-> Q]
    BY <1>7, <1>9
  <2>2. /\ A.block_number = n /\ A.epoch_num = E /\ A.vote_data = votes
        /\ A.validators = s.validators /\ A.turn_length = s.turn_length
        /\ A.recent_proposers = Q
    BY <2>1
  <2>3. A \in Snapshots
    <3>1. Q \in Histories
      BY <1>4 DEF IsHistory
    <3> QED
      BY <1>1, <1>3, <1>6, <2>1, <3>1 DEF Snapshots
  <2>4. MinerHistoryCheckLen(A) = len
    BY <2>2 DEF MinerHistoryCheckLen, len
  <2>5. GoodSnapshot(A)
    BY <1>1, <1>4, <1>8, <2>2, <2>3, <2>4 DEF GoodSnapshot
  <2>6. ~StartsHistory(A)
    BY <1>4, <2>2 DEF StartsHistory
  <2>7. key \in DOMAIN R => key \in DOMAIN A.recent_proposers
    BY <1>4, <1>5, <2>2
  <2> QED
    BY <2>2, <2>5, <2>6, <2>7 DEF Follows, A, n, e, key, R, E, votes
<1>10. CASE Installs(Q, n, e, vals)
  <2>1. A = [block_number |-> n, epoch_num |-> E, validators |-> vals, turn_length |-> T,
             vote_data |-> votes, recent_proposers |-> P]
    BY <1>7, <1>10
  <2>2. /\ A.block_number = n /\ A.epoch_num = E /\ A.vote_data = votes
        /\ A.validators = vals /\ A.turn_length = T /\ A.recent_proposers = P
    BY <2>1
  <2>3. vals \in ValidatorSets
    BY <1>10 DEF Installs
  <2>4. T \in Nat \ {0} /\ (turn = 0 => T = s.turn_length)
    BY <1>1, SnapshotConstants DEF T, NextTurnLength
  <2>5. CASE IsBohr(n)
    <3>1. IsHistory(P, n) /\ DOMAIN P = {key} /\ n \notin DOMAIN P
      BY <1>1, <2>5, SwitchAfterBohr DEF P, key
    <3>2. A \in Snapshots
      <4>1. P \in Histories
        BY <3>1 DEF IsHistory
      <4> QED
        BY <1>1, <1>3, <1>6, <2>1, <2>3, <2>4, <4>1 DEF Snapshots
    <3>3. GoodSnapshot(A)
      BY <1>1, <2>2, <2>5, <3>1, <3>2 DEF GoodSnapshot
    <3>4. key \notin DOMAIN R
      <4>1. key \notin DOMAIN Q
        BY <1>10, <2>5 DEF Installs, key
      <4> QED
        BY <1>4, <1>5, <4>1
    <3>5. StartsHistory(A) /\ key \in DOMAIN A.recent_proposers
      BY <2>2, <3>1 DEF StartsHistory
    <3> QED
      BY <2>2, <2>5, <3>3, <3>4, <3>5 DEF Follows, A, n, e, key, R, E, votes
  <2>6. CASE ~IsBohr(n)
    <3>1. /\ IsHistory(P, n) /\ n \in DOMAIN P
          /\ OnlyWindow(P, n, Cardinality(vals) \div 2)
      BY <1>1, <1>4, <1>8, <2>3, <2>6, SwitchBeforeBohr DEF P
    <3>2. A \in Snapshots
      <4>1. P \in Histories
        BY <3>1 DEF IsHistory
      <4> QED
        BY <1>1, <1>3, <1>6, <2>1, <2>3, <2>4, <4>1 DEF Snapshots
    <3>3. A.turn_length = 1 /\ MinerHistoryCheckLen(A) = Cardinality(vals) \div 2
      <4>1. A.turn_length = 1
        BY <1>8, <2>2, <2>4, <2>6
      <4> QED
        BY <2>2, <3>2, <4>1, LengthFacts
    <3>4. GoodSnapshot(A)
      BY <1>1, <2>2, <3>1, <3>2, <3>3 DEF GoodSnapshot
    <3>5. ~StartsHistory(A)
      BY <2>2, <3>1 DEF StartsHistory
    <3> QED
      BY <2>2, <2>6, <3>4, <3>5 DEF Follows, A, n, e, key, R, E, votes
  <2> QED
    BY <2>5, <2>6
<1> QED
  BY <1>9, <1>10 DEF A

----------------------------------------------------------------------------
(* The chain. *)

\* The last checkpoint that started a history: none before Bohr, and when it is the
\* latest checkpoint, its epoch is marked in the history until the epoch ends.
GoodInstalled(inst, cp, s) ==
  /\ inst \in Int /\ inst <= cp.number
  /\ ~IsBohr(s.block_number) => inst = -1
  /\ inst = cp.number => \/ (s.block_number + 1) % s.epoch_num = 0
                         \/ EpochKey(s.block_number, s.epoch_num) \in DOMAIN s.recent_proposers

ChainInv ==
  /\ GoodSnapshot(snap)
  /\ GoodVotes(snap.vote_data, snap.block_number)
  /\ GoodJustified(justified, snap.block_number)
  /\ GoodCheckpoint(checkpoint, snap)
  /\ GoodInstalled(installed, checkpoint, snap)

\* What one block does to all of it.
LEMMA BlockKeeps ==
  ASSUME ChainInv, NEW v \in Addresses, NEW att \in Attestations, NEW cp \in Checkpoints(snap),
         NewBlock(v, att, cp)
  PROVE  /\ ChainInv'
         /\ Advances(snap.vote_data, snap'.vote_data)
         /\ IsBohr(snap'.block_number) /\ StartsHistory(snap') => checkpoint'.number > installed
<1> DEFINE n == snap.block_number + 1
           e == snap.epoch_num
           R == snap.recent_proposers
           key == EpochKey(n, e)
<1>1. /\ snap \in Snapshots /\ snap.block_number \in Nat /\ n \in Nat /\ e \in Nat \ {0}
      /\ snap.block_number < MaxBlock
  BY DEF ChainInv, GoodSnapshot, Snapshots, NewBlock
<1>2. GoodAttestation(att, snap.vote_data, snap.block_number)
  BY <1>1, AttestationGood DEF ChainInv, Attestations, NewBlock
<1>3. NextCheckpoint(checkpoint, cp, snap)
  BY DEF Checkpoints, NextCheckpoint
<1>4. /\ cp \in [number : Nat, validators : ValidatorSets, turn : TurnLengths \cup {0}]
      /\ cp.number <= n /\ cp.number = n - (n % e)
      /\ ~IsBohr(cp.number) => cp.turn = 0
      /\ n % e # 0 => cp = checkpoint
      /\ n % e = 0 => cp.number = n
  BY <1>1, <1>3, CheckpointStep, Zenon DEF ChainInv
<1>5. Follows(snap, snap', att)
  <2>1. snap' = SnapshotAfter(snap, v, att, cp) /\ VerifySeal(snap, v)
    BY DEF NewBlock
  <2>2. \/ snap' = Apply(snap, v, att, {}, 0)
        \/ snap' = Apply(snap, v, att, cp.validators, cp.turn)
    BY <1>1, <1>3, <2>1, CheckpointFound DEF ChainInv
  <2>3. ~IsBohr(snap.block_number + 1) => cp.turn = 0
    BY <1>1, <1>4, SnapshotConstants DEF IsBohr
  <2>4. CASE snap' = Apply(snap, v, att, {}, 0)
    <3>1. Follows(snap, Apply(snap, v, att, {}, 0), att)
      BY <1>1, <1>2, <2>1, AppliedFollows DEF ChainInv
    <3> QED
      BY <2>4, <3>1
  <2>5. CASE snap' = Apply(snap, v, att, cp.validators, cp.turn)
    <3>1. cp.validators \in ValidatorSets /\ cp.turn \in TurnLengths \cup {0}
      BY <1>4
    <3>2. Follows(snap, Apply(snap, v, att, cp.validators, cp.turn), att)
      BY <1>1, <1>2, <2>1, <2>3, <3>1, AppliedFollows DEF ChainInv
    <3> QED
      BY <2>5, <3>2
  <2> QED
    BY <2>2, <2>4, <2>5
<1>6. /\ GoodSnapshot(snap') /\ snap'.block_number = n
      /\ snap'.vote_data = VotesAfter(snap, att) /\ snap'.epoch_num = NextEpochNum(e, n)
      /\ StartsHistory(snap') => IsBohr(n) /\ key \notin DOMAIN R
                                 /\ key \in DOMAIN snap'.recent_proposers
      /\ IsBohr(n) /\ ~StartsHistory(snap') =>
           (key \in DOMAIN R => key \in DOMAIN snap'.recent_proposers)
  BY <1>5 DEF Follows
<1>7. GoodVotes(snap'.vote_data, n) /\ Advances(snap.vote_data, snap'.vote_data)
  BY <1>1, <1>2, <1>6, VotesAdvance DEF ChainInv, VotesAfter
<1>8. snap' # NoSnapshot
  BY <1>1, <1>6 DEF NoSnapshot
<1>9. /\ checkpoint' = cp /\ justified' = JustifiedAfter(snap')
      /\ installed' = IF StartsHistory(snap') THEN cp.number ELSE installed
  BY <1>8 DEF NewBlock
<1>10. GoodJustified(justified', n)
  <2> SUFFICES ASSUME NEW b \in DOMAIN justified' \ {0}
               PROVE  b \in Nat /\ b <= n /\ justified'[b] \in Nat /\ justified'[b] < b
    BY DEF GoodJustified
  <2> DEFINE j == justified'
             t == snap'.vote_data.target
  <2>1. /\ b \in DOMAIN justified \cup {n}
        /\ j[b] = IF b = n THEN t ELSE justified[b]
    BY <1>6, <1>9 DEF JustifiedAfter
  <2>2. t \in Nat /\ t < n
    <3>1. snap'.vote_data \in Votes
      BY <1>7 DEF GoodVotes
    <3>2. t \in Nat
      BY <3>1 DEF Votes
    <3>3. snap'.vote_data = NoAttestation => t = 0
      BY DEF NoAttestation
    <3> QED
      BY <1>1, <1>7, <3>2, <3>3 DEF GoodVotes
  <2>3. b # n => b \in Nat /\ b <= snap.block_number /\ justified[b] \in Nat /\ justified[b] < b
    BY <2>1 DEF ChainInv, GoodJustified
  <2> HIDE DEF j, t
  <2>4. b \in Nat /\ b <= n /\ j[b] \in Nat /\ j[b] < b
    BY <1>1, <2>1, <2>2, <2>3
  <2> QED
    BY <2>4 DEF j
<1>11. snap'.epoch_num \in Nat \ {0} /\ (snap'.epoch_num = e \/ (n + 1) % snap'.epoch_num = 0)
  BY <1>1, <1>6, EpochNumFacts
<1>12. GoodCheckpoint(checkpoint', snap')
  <2>1. checkpoint' = cp
    BY <1>9
  <2>2. (snap'.block_number + 1) % snap'.epoch_num # 0 =>
           cp.number = snap'.block_number - (snap'.block_number % snap'.epoch_num)
    BY <1>4, <1>6, <1>11
  <2> QED
    BY <1>4, <1>6, <2>1, <2>2 DEF GoodCheckpoint
<1>13. /\ installed \in Int /\ installed <= checkpoint.number
       /\ ~IsBohr(snap.block_number) => installed = -1
       /\ installed = checkpoint.number =>
            \/ n % e = 0
            \/ EpochKey(snap.block_number, e) \in DOMAIN R
       /\ checkpoint.number \in Nat /\ checkpoint.number <= snap.block_number
  BY DEF ChainInv, GoodInstalled, GoodCheckpoint
<1>14. installed = cp.number => key \in DOMAIN R
  <2> SUFFICES ASSUME installed = cp.number
               PROVE  key \in DOMAIN R
    OBVIOUS
  <2>1. n % e # 0
    BY <1>1, <1>4, <1>13
  <2>2. EpochKey(snap.block_number, e) \in DOMAIN R
    BY <1>4, <1>13, <2>1
  <2>3. n \div e = snap.block_number \div e
    BY <1>1, <2>1, EpochArithmetic
  <2> QED
    BY <2>2, <2>3 DEF EpochKey
<1>15. installed <= cp.number /\ cp.number \in Nat
  BY <1>1, <1>4, <1>13
<1>16. IsBohr(snap'.block_number) /\ StartsHistory(snap') => checkpoint'.number > installed
  BY <1>6, <1>9, <1>13, <1>14, <1>15
<1>17. GoodInstalled(installed', checkpoint', snap')
  <2> DEFINE inst == installed'
  <2>1. inst = IF StartsHistory(snap') THEN cp.number ELSE installed
    BY <1>9
  <2>2. inst \in Int /\ inst <= cp.number
    BY <1>13, <1>15, <2>1
  <2>3. ~IsBohr(n) => inst = -1
    <3>1. ~IsBohr(n) => ~IsBohr(snap.block_number)
      BY <1>1, SnapshotConstants DEF IsBohr
    <3> QED
      BY <1>6, <1>13, <2>1, <3>1
  <2>4. ASSUME inst = cp.number, snap'.epoch_num = e
        PROVE  key \in DOMAIN snap'.recent_proposers
    <3>1. CASE StartsHistory(snap')
      BY <1>6, <3>1
    <3>2. CASE ~StartsHistory(snap')
      <4>1. installed = cp.number
        BY <2>1, <2>4, <3>2
      <4>2. IsBohr(n)
        BY <1>15, <2>3, <2>4
      <4> QED
        BY <1>6, <1>14, <3>2, <4>1, <4>2
    <3> QED
      BY <3>1, <3>2
  <2>5. inst = cp.number => \/ (n + 1) % snap'.epoch_num = 0
                            \/ EpochKey(n, snap'.epoch_num) \in DOMAIN snap'.recent_proposers
    BY <1>11, <2>4
  <2> HIDE DEF inst
  <2>6. GoodInstalled(inst, cp, snap')
    BY <1>6, <2>2, <2>3, <2>5 DEF GoodInstalled
  <2> QED
    BY <1>9, <2>6 DEF inst
<1>18. ChainInv'
  BY <1>6, <1>7, <1>10, <1>12, <1>17 DEF ChainInv
<1> QED
  BY <1>7, <1>16, <1>18

LEMMA ChainInit == Init => ChainInv
<1> SUFFICES ASSUME Init
             PROVE  ChainInv
  OBVIOUS
<1> DEFINE e == DEFAULT_EPOCH_LENGTH
           V == GenesisValidators
           R == snap.recent_proposers
<1>1. e \in Nat \ {0} /\ V \in ValidatorSets /\ BohrBlock \in Nat \ {0} /\ MaxBlock \in Nat
  BY SnapshotConstants, ChainConstants
<1>2. snap = [block_number |-> 0, epoch_num |-> e, validators |-> V, turn_length |-> 1,
              vote_data |-> NoAttestation, recent_proposers |-> <<>>]
  BY <1>1 DEF Init, GenesisSnapshot, NoAttestation
<1>3. /\ snap.block_number = 0 /\ snap.epoch_num = e /\ snap.turn_length = 1
      /\ snap.vote_data = NoAttestation /\ R = <<>>
  BY <1>2
<1>4. R \in Histories /\ DOMAIN R = {}
  <2>1. DOMAIN R = {}
    BY <1>3
  <2>2. R \in [{} -> Addresses \cup {ZeroAddress}]
    BY <1>3
  <2> QED
    BY <2>1, <2>2 DEF Histories
<1>5. NoAttestation \in Votes
  BY DEF NoAttestation, Votes
<1>6. snap \in Snapshots
  <2> DEFINE r == <<>>
  <2>1. r \in Histories
    BY <1>3, <1>4
  <2> HIDE DEF e, V, r
  <2>2. snap = [block_number |-> 0, epoch_num |-> e, validators |-> V, turn_length |-> 1,
                vote_data |-> NoAttestation, recent_proposers |-> r]
    BY <1>2 DEF r
  <2> QED
    BY <1>1, <1>5, <2>1, <2>2 DEF Snapshots
<1>7. GoodSnapshot(snap)
  <2>1. IsFiniteSet(DOMAIN R)
    BY <1>4, FS_EmptySet
  <2>2. IsHistory(R, 0) /\ OnlyWindow(R, 0, MinerHistoryCheckLen(snap))
    <3> HIDE DEF R
    <3> QED
      BY <1>4, <2>1 DEF IsHistory, OnlyWindow
  <2> QED
    BY <1>1, <1>3, <1>6, <2>2 DEF GoodSnapshot
<1>8. GoodVotes(snap.vote_data, snap.block_number)
  BY <1>3, <1>5 DEF GoodVotes
<1>9. GoodJustified(justified, snap.block_number)
  BY DEF Init, GoodJustified
<1>10. checkpoint = [number |-> 0, validators |-> V, turn |-> 0] /\ installed = -1
  BY DEF Init
<1>11. GoodCheckpoint(checkpoint, snap)
  <2>1. 0 % e = 0
    BY <1>1
  <2> HIDE DEF e, V
  <2> QED
    BY <1>1, <1>3, <1>10, <2>1 DEF GoodCheckpoint
<1>12. GoodInstalled(installed, checkpoint, snap)
  BY <1>10 DEF GoodInstalled
<1> QED
  BY <1>7, <1>8, <1>9, <1>11, <1>12 DEF ChainInv

\* Every step keeps the invariant and has the two action properties.
LEMMA ChainNext ==
  ASSUME ChainInv, [Next]_vars
  PROVE  /\ ChainInv'
         /\ Advances(snap.vote_data, snap'.vote_data)
         /\ vars' = vars \/ (IsBohr(snap'.block_number) /\ StartsHistory(snap') =>
                               checkpoint'.number > installed)
<1>1. CASE UNCHANGED vars
  <2>1. ChainInv'
    BY <1>1 DEF ChainInv, vars
  <2>2. snap.vote_data.source \in Nat /\ snap.vote_data.target \in Nat
    BY DEF ChainInv, GoodVotes, Votes
  <2>3. snap' = snap
    BY <1>1 DEF vars
  <2>4. Advances(snap.vote_data, snap'.vote_data)
    BY <2>2, <2>3 DEF Advances
  <2> QED
    BY <1>1, <2>1, <2>4
<1>2. CASE \E v \in Addresses, att \in Attestations, cp \in Checkpoints(snap) : NewBlock(v, att, cp)
  BY <1>2, BlockKeeps
<1> QED
  BY <1>1, <1>2 DEF Next, Done

\* The inductive invariant: the snapshot of the tip, the last checkpoint, what the latest
\* blocks justify and the last checkpoint installed fit together after every block
\* (snapshot.rs apply, provider.rs try_rebuild).
THEOREM ChainInvariant == Spec => []ChainInv
<1>1. Init => ChainInv
  BY ChainInit
<1>2. ChainInv /\ [Next]_vars => ChainInv'
  BY ChainNext
<1> QED
  BY <1>1, <1>2, PTL DEF Spec

\* For any validators, epoch lengths and fork heights, a block that passes verify_seal
\* and verify_vote_attestation gets a snapshot: apply accepts its proposer, and
\* try_rebuild finds the checkpoint at the number it computes.
THEOREM SnapshotsKept == Spec => []SnapshotNeverLost
<1>1. ChainInv => SnapshotNeverLost
  BY DEF ChainInv, GoodSnapshot, Snapshots, NoSnapshot, SnapshotNeverLost
<1> QED
  BY <1>1, ChainInvariant, PTL

\* The limit of sign_recently silences at most half of any validator set, for any turn
\* length: no more validators can have turn_length blocks in a window that is shorter
\* than turn_length blocks for each of a majority.
THEOREM HalfAble == Spec => []EnoughProposers
<1>1. ChainInv => EnoughProposers
  BY HalfMayPropose DEF ChainInv, EnoughProposers
<1> QED
  BY <1>1, ChainInvariant, PTL

\* From Bohr on, apply empties the history at most once per checkpoint: the mark of the
\* epoch stays in the history until the next checkpoint, whatever the turn length does
\* to the boundary.
THEOREM CheckpointInstalledOnce == Spec => InstalledOnce
<1>1. ChainInv /\ [Next]_vars =>
        [IsBohr(snap'.block_number) /\ StartsHistory(snap') => checkpoint'.number > installed]_vars
  BY ChainNext
<1> QED
  BY <1>1, ChainInvariant, PTL DEF Spec, InstalledOnce

\* update_attestation never moves justification or finality back, and finalizes only
\* what was justified, when its child is.
THEOREM FinalityNeverBack == Spec => FinalityAdvances
<1>1. ChainInv /\ [Next]_vars =>
        [LET old == snap.vote_data
             new == snap'.vote_data
         IN /\ new.target >= old.target
            /\ \/ new.source = old.source
               \/ new.source = old.target /\ new.target = new.source + 1 /\ new.source > old.source]_vars
  BY ChainNext DEF Advances
<1> QED
  BY <1>1, ChainInvariant, PTL DEF Spec, FinalityAdvances

----------------------------------------------------------------------------
(* The history holds what the limit counts. *)

\* Two histories that agree on the blocks above `low` up to n.
SameAbove(R, P, low, n) ==
  \A b \in Nat : low < b /\ b <= n =>
    /\ b \in DOMAIN R <=> b \in DOMAIN P
    /\ b \in DOMAIN R => R[b] = P[b]

\* What apply keeps of the history, exactly.
LEMMA RecentsAfterForm ==
  ASSUME NEW s, GoodSnapshot(s), NEW v \in Addresses, NEW finalized \in Nat
  PROVE  LET n == s.block_number + 1
             R == s.recent_proposers
             Q == RecentsAfter(s, v, finalized)
         IN \A b \in Nat :
              /\ b \in DOMAIN Q <=> /\ b = n \/ (b \in DOMAIN R /\ b # s.block_number - MinerHistoryCheckLen(s))
                                    /\ IsMaxwell(n) => b > finalized
              /\ b \in DOMAIN Q => Q[b] = IF b = n THEN v ELSE R[b]
<1> DEFINE n == s.block_number + 1
           R == s.recent_proposers
           gone == s.block_number - MinerHistoryCheckLen(s)
           M == MoveWindow(s)
           I == Insert(M, n, v)
           F == {b \in DOMAIN I : b <= finalized}
           Q == RecentsAfter(s, v, finalized)
<1>1. s \in Snapshots /\ IsFiniteSet(DOMAIN R) /\ R \in Histories
  BY DEF GoodSnapshot, IsHistory, Snapshots
<1>2. DOMAIN M = DOMAIN R \ {gone} /\ \A b \in DOMAIN R \ {gone} : M[b] = R[b]
  BY <1>1, MovedFacts, Zenon
<1> HIDE DEF M, R, gone
<1>3. DOMAIN I = DOMAIN M \cup {n} /\ \A b \in DOMAIN I : I[b] = IF b = n THEN v ELSE M[b]
  BY DEF Insert
<1>4. Q = IF IsMaxwell(n) THEN Without(I, F) ELSE I
  BY DEF RecentsAfter, ForgetFinalized, M
<1> HIDE DEF I, n, Q
<1>5. DOMAIN Without(I, F) = DOMAIN I \ F /\ \A b \in DOMAIN I \ F : Without(I, F)[b] = I[b]
  BY DEF Without, Restrict
<1>6. \A b \in Nat : b \in DOMAIN Q <=> b \in DOMAIN I /\ (IsMaxwell(n) => b > finalized)
  BY <1>4, <1>5
<1>7. \A b \in Nat : b \in DOMAIN Q => Q[b] = I[b]
  BY <1>4, <1>5
<1>8. \A b \in Nat : /\ b \in DOMAIN Q <=> /\ b = n \/ (b \in DOMAIN R /\ b # gone)
                                           /\ IsMaxwell(n) => b > finalized
                     /\ b \in DOMAIN Q => Q[b] = IF b = n THEN v ELSE R[b]
  BY <1>2, <1>3, <1>6, <1>7
<1> QED
  BY <1>8 DEF n, R, gone, Q

\* The blocks that really count after a block, exactly.
LEMMA ProposersAfterForm ==
  ASSUME NEW s, NEW v, NEW b \in Nat
  PROVE  LET n == s.block_number
             P == ProposersAfter(s, v)
         IN /\ b \in DOMAIN P <=> /\ b = n \/ b \in DOMAIN proposers
                                  /\ ~StartsHistory(s) /\ b > n - MaxCheckLen
                                  /\ IsMaxwell(n) => b > s.vote_data.source
            /\ b \in DOMAIN P => P[b] = IF b = n THEN v ELSE proposers[b]
<1> QED
  BY DEF ProposersAfter

\* Both histories take the block in and drop the same ones: they agree one block
\* further back than the limit looks.
LEMMA HistoriesMove ==
  ASSUME ChainInv, NEW v \in Addresses, NEW finalized \in Nat, finalized < snap.block_number + 1,
         NEW len \in Nat, len = MinerHistoryCheckLen(snap), len <= MaxCheckLen,
         SameAbove(snap.recent_proposers, proposers, snap.block_number - len, snap.block_number),
         NEW next, next.block_number = snap.block_number + 1, next.vote_data.source = finalized,
         ~StartsHistory(next)
  PROVE  /\ \A b \in Nat : b \in DOMAIN ProposersAfter(next, v) => b = snap.block_number + 1 \/ b \in DOMAIN proposers
         /\ SameAbove(RecentsAfter(snap, v, finalized), ProposersAfter(next, v),
                      (snap.block_number + 1) - len, snap.block_number + 1)
         /\ len < MaxCheckLen => SameAbove(RecentsAfter(snap, v, finalized), ProposersAfter(next, v),
                                            snap.block_number - len, snap.block_number + 1)
<1> DEFINE m == snap.block_number
           n == m + 1
           R == snap.recent_proposers
           Q == RecentsAfter(snap, v, finalized)
           P == ProposersAfter(next, v)
           gone == m - len
<1>1. GoodSnapshot(snap) /\ m \in Nat /\ MaxCheckLen \in Nat
  BY ChainConstants DEF ChainInv, GoodSnapshot, Snapshots
<1>2. \A b \in Nat : /\ b \in DOMAIN Q <=> /\ b = n \/ (b \in DOMAIN R /\ b # gone)
                                           /\ IsMaxwell(n) => b > finalized
                     /\ b \in DOMAIN Q => Q[b] = IF b = n THEN v ELSE R[b]
  BY <1>1, RecentsAfterForm
<1>3. \A b \in Nat : /\ b \in DOMAIN P <=> /\ b = n \/ b \in DOMAIN proposers
                                           /\ b > n - MaxCheckLen
                                           /\ IsMaxwell(n) => b > finalized
                     /\ b \in DOMAIN P => P[b] = IF b = n THEN v ELSE proposers[b]
  BY ProposersAfterForm
<1>4. \A b \in Nat : m - len < b /\ b <= m =>
        (b \in DOMAIN R <=> b \in DOMAIN proposers) /\ (b \in DOMAIN R => R[b] = proposers[b])
  BY DEF SameAbove
<1> HIDE DEF R, Q, P, m
<1>5. ASSUME NEW b \in Nat, m - len < b, b <= n, b > n - MaxCheckLen
      PROVE  (b \in DOMAIN Q <=> b \in DOMAIN P) /\ (b \in DOMAIN Q => Q[b] = P[b])
  <2>1. CASE b = n
    BY <1>2, <1>3, <1>5, <2>1
  <2>2. CASE b # n
    <3>1. b <= m /\ b # gone
      BY <1>1, <1>5, <2>2
    <3>2. (b \in DOMAIN R <=> b \in DOMAIN proposers) /\ (b \in DOMAIN R => R[b] = proposers[b])
      BY <1>4, <1>5, <3>1
    <3> QED
      BY <1>2, <1>3, <1>5, <2>2, <3>1, <3>2
  <2> QED
    BY <2>1, <2>2
<1>6. SameAbove(Q, P, n - len, n)
  <2> SUFFICES ASSUME NEW b \in Nat, n - len < b, b <= n
               PROVE  (b \in DOMAIN Q <=> b \in DOMAIN P) /\ (b \in DOMAIN Q => Q[b] = P[b])
    BY DEF SameAbove
  <2>1. m - len < b /\ b > n - MaxCheckLen
    BY <1>1
  <2> QED
    BY <1>5, <2>1
<1>7. len < MaxCheckLen => SameAbove(Q, P, m - len, n)
  <2> SUFFICES ASSUME len < MaxCheckLen, NEW b \in Nat, m - len < b, b <= n
               PROVE  (b \in DOMAIN Q <=> b \in DOMAIN P) /\ (b \in DOMAIN Q => Q[b] = P[b])
    BY DEF SameAbove
  <2>1. b > n - MaxCheckLen
    BY <1>1
  <2> QED
    BY <1>5, <2>1
<1>8. \A b \in Nat : b \in DOMAIN P => b = n \/ b \in DOMAIN proposers
  BY <1>3
<1> QED
  BY <1>6, <1>7, <1>8 DEF Q, P, m

\* What an accepted block makes of the snapshot s: with the validators in force, or with
\* those of the checkpoint.
Unswitched(s, votes, Q) ==
  [block_number |-> s.block_number + 1, epoch_num |-> NextEpochNum(s.epoch_num, s.block_number + 1),
   validators |-> s.validators, turn_length |-> s.turn_length,
   vote_data |-> votes, recent_proposers |-> Q]

Switched(s, cp, votes, Q) ==
  [block_number |-> s.block_number + 1, epoch_num |-> NextEpochNum(s.epoch_num, s.block_number + 1),
   validators |-> cp.validators, turn_length |-> NextTurnLength(s.turn_length, cp.turn),
   vote_data |-> votes,
   recent_proposers |-> RecentsAtSwitch(Q, s.block_number + 1, s.epoch_num, s.validators, cp.validators)]

LEMMA BlockForm ==
  ASSUME ChainInv, ChainInv', NEW v \in Addresses, NEW att \in Attestations,
         NEW cp \in Checkpoints(snap), NewBlock(v, att, cp)
  PROVE  LET n == snap.block_number + 1
             votes == VotesAfter(snap, att)
             Q == RecentsAfter(snap, v, votes.source)
         IN /\ votes.source \in Nat /\ votes.source < n
            /\ proposers' = ProposersAfter(snap', v) /\ checkpoint' = cp
            /\ NextCheckpoint(checkpoint, cp, snap)
            /\ snap' = IF IsEpochBoundary(snap) /\ Installs(Q, n, snap.epoch_num, cp.validators)
                       THEN Switched(snap, cp, votes, Q) ELSE Unswitched(snap, votes, Q)
<1> DEFINE n == snap.block_number + 1
           votes == VotesAfter(snap, att)
           Q == RecentsAfter(snap, v, votes.source)
           e == snap.epoch_num
<1>1. GoodSnapshot(snap) /\ snap \in Snapshots /\ n \in Nat /\ n > 0
  BY DEF ChainInv, GoodSnapshot, Snapshots
<1>2. snap' # NoSnapshot
  BY DEF ChainInv, GoodSnapshot, Snapshots, NoSnapshot
<1>3. proposers' = ProposersAfter(snap', v) /\ checkpoint' = cp
  BY <1>2 DEF NewBlock
<1>4. SnapshotAfter(snap, v, att, cp) = snap' /\ v \in snap.validators /\ ~SignRecently(snap, v)
  BY DEF NewBlock, VerifySeal
<1>5. NextCheckpoint(checkpoint, cp, snap)
  BY DEF Checkpoints, NextCheckpoint
<1>6. MayPropose(Moved(snap), v)
  <2>1. SoundSnapshot(snap)
    BY <1>1 DEF GoodSnapshot, SoundSnapshot, IsHistory
  <2> QED
    BY <1>4, <2>1, ProposerAllowed
<1>7. snap' = IF IsEpochBoundary(snap) THEN Apply(snap, v, att, cp.validators, cp.turn)
              ELSE Apply(snap, v, att, {}, 0)
  BY <1>2, <1>4 DEF SnapshotAfter
<1>8. ~Installs(Q, n, e, {})
  BY DEF Installs
<1>9. snap' = IF IsEpochBoundary(snap) /\ Installs(Q, n, e, cp.validators)
              THEN Switched(snap, cp, votes, Q) ELSE Unswitched(snap, votes, Q)
  <2>1. CASE ~IsEpochBoundary(snap)
    <3>1. snap' = Apply(snap, v, att, {}, 0)
      BY <1>7, <2>1
    <3> QED
      BY <1>1, <1>6, <1>8, <2>1, <3>1, ApplyForm, Zenon DEF Unswitched
  <2>2. CASE IsEpochBoundary(snap)
    <3>1. snap' = Apply(snap, v, att, cp.validators, cp.turn)
      BY <1>7, <2>2
    <3> QED
      BY <1>1, <1>6, <2>2, <3>1, ApplyForm, Zenon DEF Switched, Unswitched
  <2> QED
    BY <2>1, <2>2
<1>10. votes.source \in Nat /\ votes.source < n
  <2> HIDE DEF Q, votes
  <2>1. snap'.block_number = n /\ snap'.vote_data = votes
    BY <1>9 DEF Switched, Unswitched
  <2>2. GoodVotes(votes, n)
    BY <2>1 DEF ChainInv
  <2> QED
    BY <1>1, <2>2 DEF GoodVotes, Votes, NoAttestation
<1> QED
  BY <1>3, <1>5, <1>9, <1>10

\* The validators and the turn in force, and those to come, are ones that were elected.
ElectedInv ==
  /\ snap.validators \in ElectedSets /\ checkpoint.validators \in ElectedSets
  /\ snap.turn_length \in TurnLengths \cup {1}

\* The history agrees with who really proposed, as far back as the limit looks.
AccurateInv ==
  /\ ElectedInv
  /\ \A b \in DOMAIN proposers : b \in Nat /\ b > 0 /\ b <= snap.block_number
  /\ SameAbove(snap.recent_proposers, proposers,
               snap.block_number - MinerHistoryCheckLen(snap), snap.block_number)

LEMMA LengthBounded ==
  ASSUME NEW s \in Snapshots, s.validators \in ElectedSets, s.turn_length \in TurnLengths \cup {1}
  PROVE  MinerHistoryCheckLen(s) \in Nat /\ MinerHistoryCheckLen(s) <= MaxCheckLen
<1>1. MinerHistoryCheckLen(s) \in Nat
  BY LengthFacts
<1>2. (Cardinality(s.validators) \div 2 + 1) * s.turn_length - 1 <= MaxCheckLen
  BY CheckLenBound, Zenon
<1> QED
  BY <1>1, <1>2 DEF MinerHistoryCheckLen

LEMMA ElectedKeeps ==
  ASSUME ChainInv, ChainInv', ElectedInv, NEW v \in Addresses, NEW att \in Attestations,
         NEW cp \in Checkpoints(snap), NewBlock(v, att, cp)
  PROVE  ElectedInv'
<1> DEFINE votes == VotesAfter(snap, att)
           Q == RecentsAfter(snap, v, votes.source)
           T == NextTurnLength(snap.turn_length, cp.turn)
<1>1. cp.validators \in ElectedSets /\ cp.turn \in TurnLengths \cup {0}
  <2>1. cp = checkpoint \/ cp \in [number : {snap.block_number + 1}, validators : CheckpointSets,
                                   turn : IF IsBohr(snap.block_number + 1) THEN TurnLengths ELSE {0}]
    BY DEF Checkpoints
  <2> QED
    BY <2>1 DEF ElectedInv, ElectedSets, ChainInv, GoodCheckpoint
<1>2. /\ checkpoint' = cp
      /\ snap' = Unswitched(snap, votes, Q) \/ snap' = Switched(snap, cp, votes, Q)
  BY BlockForm
<1> HIDE DEF votes, Q
<1>3. \/ snap'.validators = snap.validators /\ snap'.turn_length = snap.turn_length
      \/ snap'.validators = cp.validators /\ snap'.turn_length = T
  BY <1>2 DEF Switched, Unswitched
<1>4. T \in TurnLengths \cup {1}
  BY <1>1 DEF ElectedInv, NextTurnLength
<1> QED
  BY <1>1, <1>2, <1>3, <1>4 DEF ElectedInv

LEMMA AccurateKeeps ==
  ASSUME IsBohr(1) \/ LimitGrowsByOne, ChainInv, ChainInv', AccurateInv,
         NEW v \in Addresses, NEW att \in Attestations, NEW cp \in Checkpoints(snap), NewBlock(v, att, cp)
  PROVE  AccurateInv'
<1> DEFINE m == snap.block_number
           n == m + 1
           e == snap.epoch_num
           V == snap.validators
           W == cp.validators
           t == snap.turn_length
           len == MinerHistoryCheckLen(snap)
           votes == VotesAfter(snap, att)
           Q == RecentsAfter(snap, v, votes.source)
           P == ProposersAfter(snap', v)
           R == snap'.recent_proposers
<1>1. /\ GoodSnapshot(snap) /\ snap \in Snapshots /\ m \in Nat /\ n \in Nat /\ t \in Nat \ {0}
      /\ m < MaxBlock /\ MaxBlock \in Nat /\ MaxCheckLen \in Nat /\ e \in Nat \ {0}
      /\ V \in ValidatorSets
  BY ChainConstants DEF ChainInv, GoodSnapshot, Snapshots, NewBlock
<1>2. GoodSnapshot(snap') /\ snap' \in Snapshots /\ snap' # NoSnapshot
  BY DEF ChainInv, GoodSnapshot, Snapshots, NoSnapshot
<1>3. /\ votes.source \in Nat /\ votes.source < n
      /\ proposers' = P /\ checkpoint' = cp
      /\ snap' = Unswitched(snap, votes, Q) \/ snap' = Switched(snap, cp, votes, Q)
  BY BlockForm
<1>4. W \in ElectedSets /\ ElectedInv'
  BY <1>3, ElectedKeeps DEF AccurateInv, ElectedInv
<1>9. len \in Nat /\ len <= MaxCheckLen
  BY <1>1, LengthBounded DEF AccurateInv, ElectedInv
<1> HIDE DEF Q, votes
<1>10. \/ snap' = [block_number |-> n, epoch_num |-> NextEpochNum(e, n), validators |-> V, turn_length |-> t,
                   vote_data |-> votes, recent_proposers |-> Q]
       \/ snap' = [block_number |-> n, epoch_num |-> NextEpochNum(e, n), validators |-> W,
                   turn_length |-> NextTurnLength(t, cp.turn), vote_data |-> votes,
                   recent_proposers |-> RecentsAtSwitch(Q, n, e, V, W)]
  BY <1>3, Zenon DEF Switched, Unswitched
<1>11. snap'.block_number = n /\ snap'.vote_data = votes
  BY <1>10
<1>12. votes.source \in Nat /\ votes.source < n
  BY <1>3
<1>13. \A b \in DOMAIN P : b \in Nat /\ b > 0 /\ b <= n
  <2>1. DOMAIN P \subseteq DOMAIN proposers \cup {n}
    BY <1>11 DEF ProposersAfter
  <2> QED
    BY <1>1, <2>1 DEF AccurateInv
<1>15. n \in DOMAIN Q
  BY <1>1, <1>12, RecentsAfterForm DEF Q
<1>16. ~StartsHistory(snap') =>
         /\ SameAbove(Q, P, n - len, n)
         /\ len < MaxCheckLen => SameAbove(Q, P, m - len, n)
  <2>1. SameAbove(snap.recent_proposers, proposers, m - len, m)
    BY DEF AccurateInv
  <2>2. snap'.block_number = m + 1 /\ snap'.vote_data.source = votes.source
    BY <1>11
  <2> HIDE DEF len, P
  <2> QED
    BY <1>9, <1>12, <2>1, <2>2, HistoriesMove DEF Q, len, P
<1> HIDE DEF P
<1>17. SameAbove(R, P, n - MinerHistoryCheckLen(snap'), n)
  <2>1. CASE snap' = [block_number |-> n, epoch_num |-> NextEpochNum(e, n), validators |-> V, turn_length |-> t,
                      vote_data |-> votes, recent_proposers |-> Q]
    <3>1. R = Q /\ snap'.validators = V /\ snap'.turn_length = t
      BY <2>1
    <3>2. ~StartsHistory(snap')
      BY <1>11, <1>15, <3>1 DEF StartsHistory
    <3>3. MinerHistoryCheckLen(snap') = len
      BY <3>1 DEF MinerHistoryCheckLen
    <3> QED
      BY <1>16, <3>1, <3>2, <3>3
  <2>2. CASE /\ IsBohr(n)
             /\ snap' = [block_number |-> n, epoch_num |-> NextEpochNum(e, n), validators |-> W,
                         turn_length |-> NextTurnLength(t, cp.turn), vote_data |-> votes,
                         recent_proposers |-> RecentsAtSwitch(Q, n, e, V, W)]
    <3>1. R = RecentsAtSwitch(Q, n, e, V, W)
      BY <2>2
    <3>2. DOMAIN R = {EpochKey(n, e)} /\ n \notin DOMAIN R
      <4> DEFINE key == EpochKey(n, e)
      <4>1. R = Insert(<<>>, key, ZeroAddress)
        BY <2>2, <3>1 DEF RecentsAtSwitch
      <4>2. n \in Nat /\ n <= MaxBlock
        BY <1>1
      <4> HIDE DEF key, n, R
      <4>3. key \in Nat /\ key > MaxBlock
        BY <1>1, <4>2, EpochKeyFacts DEF key
      <4>4. n # key
        BY <1>1, <4>2, <4>3
      <4>5. DOMAIN R = {key}
        BY <4>1 DEF Insert
      <4> QED
        BY <4>4, <4>5 DEF key
    <3>3. EpochKey(n, e) > MaxBlock /\ EpochKey(n, e) \in Nat
      BY <1>1, EpochKeyFacts
    <3>4. StartsHistory(snap')
      BY <1>11, <3>2 DEF StartsHistory
    <3>5. \A b \in Nat : b \notin DOMAIN P
      BY <3>4, ProposersAfterForm DEF P
    <3>6. \A b \in Nat : b <= n => b \notin DOMAIN R
      BY <1>1, <3>2, <3>3
    <3> HIDE DEF R, n
    <3> QED
      BY <3>5, <3>6 DEF SameAbove
  <2>3. CASE /\ ~IsBohr(n)
             /\ snap' = [block_number |-> n, epoch_num |-> NextEpochNum(e, n), validators |-> W,
                         turn_length |-> NextTurnLength(t, cp.turn), vote_data |-> votes,
                         recent_proposers |-> RecentsAtSwitch(Q, n, e, V, W)]
    <3> DEFINE old == Cardinality(V) \div 2 + 1
               new == Cardinality(W) \div 2 + 1
               D == {n - new - i : i \in 0..(old - new - 1)}
               now_ == MinerHistoryCheckLen(snap')
    <3>1. snap'.validators = W /\ R = Without(Q, D)
      BY <2>3 DEF RecentsAtSwitch
    <3>2. t = 1 /\ snap'.turn_length = 1
      <4>1. ~IsBohr(m)
        BY <1>1, <2>3, SnapshotConstants DEF IsBohr
      <4> QED
        BY <1>1, <1>2, <1>11, <2>3, <4>1 DEF GoodSnapshot
    <3>3. old \in Nat \ {0} /\ new \in Nat \ {0}
      <4>1. W \in ValidatorSets
        BY <1>4, ChainConstants DEF ElectedSets
      <4> QED
        BY <1>1, <4>1, MajorityFacts
    <3>4. len = old - 1 /\ now_ = new - 1
      BY <3>1, <3>2, <3>3 DEF MinerHistoryCheckLen
    <3>5. new <= old + 1
      <4>1. Cardinality(W) \div 2 <= Cardinality(V) \div 2 + 1
        <5>1. LimitGrowsByOne
          BY <1>1, <2>3, SnapshotConstants DEF IsBohr
        <5> QED
          BY <1>4, <5>1 DEF LimitGrowsByOne, AccurateInv, ElectedInv
      <4> DEFINE j == Cardinality(V) \div 2
                 k == Cardinality(W) \div 2
      <4>2. old = j + 1 /\ new = k + 1 /\ k <= j + 1 /\ j \in Int /\ k \in Int
        <5>1. j \in Nat /\ k \in Nat
          BY <1>1, <1>4, ChainConstants, MajorityFacts DEF ElectedSets
        <5> QED
          BY <4>1, <5>1
      <4> HIDE DEF old, new, j, k
      <4> QED
        BY <4>2
    <3>6. now_ \in Nat /\ now_ <= MaxCheckLen
      BY <1>2, <1>4, LengthBounded DEF ElectedInv
    <3> HIDE DEF old, new, now_, len
    <3>7. \A b \in D : b \in Int /\ b <= n - now_ - 1
      BY <1>1, <3>3, <3>4
    <3>8. DOMAIN R = DOMAIN Q \ D /\ \A b \in DOMAIN Q \ D : R[b] = Q[b]
      <4> HIDE DEF D
      <4> QED
        BY <3>1 DEF Without, Restrict
    <3>9. ~StartsHistory(snap')
      <4>1. n \notin D
        BY <1>1, <3>6, <3>7
      <4> QED
        BY <1>11, <1>15, <3>8, <4>1 DEF StartsHistory
    <3> HIDE DEF D
    <3>10. SameAbove(Q, P, n - now_, n)
      <4>1. CASE now_ <= len
        <5>1. SameAbove(Q, P, n - len, n)
          BY <1>16, <3>9
        <5>2. ASSUME NEW b \in Nat, n - now_ < b PROVE n - len < b
          BY <1>1, <1>9, <3>6, <4>1, <5>2
        <5> QED
          BY <5>1, <5>2 DEF SameAbove
      <4>2. CASE ~(now_ <= len)
        <5>1. len < MaxCheckLen /\ now_ = len + 1
          BY <1>1, <1>9, <3>3, <3>4, <3>5, <3>6, <4>2
        <5>2. SameAbove(Q, P, m - len, n)
          BY <1>16, <3>9, <5>1
        <5>3. \A b \in Nat : n - now_ < b => m - len < b
          BY <1>1, <1>9, <5>1
        <5> QED
          BY <5>2, <5>3 DEF SameAbove
      <4> QED
        BY <4>1, <4>2
    <3>11. \A b \in Nat : n - now_ < b => b \notin D
      BY <1>1, <3>6, <3>7
    <3>12. SameAbove(R, P, n - now_, n)
      BY <3>8, <3>10, <3>11 DEF SameAbove
    <3> QED
      BY <3>12 DEF now_
  <2> QED
    BY <1>10, <2>1, <2>2, <2>3
<1> HIDE DEF R
<1>18. AccurateInv'
  <2>1. \A b \in DOMAIN proposers' : b \in Nat /\ b > 0 /\ b <= snap'.block_number
    BY <1>3, <1>11, <1>13, Zenon
  <2>2. SameAbove(snap'.recent_proposers, proposers', snap'.block_number - MinerHistoryCheckLen(snap'),
                  snap'.block_number)
    BY <1>3, <1>11, <1>17, Zenon DEF R
  <2> QED
    BY <1>4, <2>1, <2>2 DEF AccurateInv
<1> QED
  BY <1>18

LEMMA AccurateInit == Init => AccurateInv
<1> SUFFICES ASSUME Init
             PROVE  AccurateInv
  OBVIOUS
<1>1. /\ snap.block_number = 0 /\ snap.turn_length = 1 /\ snap.validators = GenesisValidators
      /\ snap.recent_proposers = <<>> /\ proposers = <<>> /\ checkpoint.validators = GenesisValidators
  BY DEF Init, GenesisSnapshot
<1>2. DOMAIN snap.recent_proposers = {} /\ DOMAIN proposers = {}
  BY <1>1
<1>3. \A b \in DOMAIN proposers : b \in Nat /\ b > 0 /\ b <= snap.block_number
  BY <1>2
<1>4. SameAbove(snap.recent_proposers, proposers, snap.block_number - MinerHistoryCheckLen(snap),
                snap.block_number)
  BY <1>2 DEF SameAbove
<1> QED
  BY <1>1, <1>3, <1>4 DEF AccurateInv, ElectedInv, ElectedSets

LEMMA AccurateNext ==
  ASSUME IsBohr(1) \/ LimitGrowsByOne, ChainInv, AccurateInv, [Next]_vars
  PROVE  AccurateInv'
<1>1. CASE UNCHANGED vars
  <2>1. snap' = snap /\ proposers' = proposers /\ checkpoint' = checkpoint
    BY <1>1 DEF vars
  <2> QED
    BY <2>1 DEF AccurateInv, ElectedInv, SameAbove, MinerHistoryCheckLen
<1>2. CASE \E v \in Addresses, att \in Attestations, cp \in Checkpoints(snap) : NewBlock(v, att, cp)
  <2>1. ChainInv'
    BY ChainNext
  <2> QED
    BY <1>2, <2>1, AccurateKeeps
<1> QED
  BY <1>1, <1>2 DEF Next, Done

\* What sign_recently counts is what the validator proposed: the marks of epochs carry
\* no validator's address, and within the limit the two histories agree.
LEMMA CountsTheProposed ==
  ASSUME ChainInv, AccurateInv, NEW v \in snap.validators
  PROVE  Counted(snap, v) = {b \in DOMAIN proposers :
                               b > snap.block_number - MinerHistoryCheckLen(snap) /\ proposers[b] = v}
<1> DEFINE n == snap.block_number
           len == MinerHistoryCheckLen(snap)
           R == snap.recent_proposers
           left == IF n > len THEN n - len ELSE 0
<1>1. /\ snap \in Snapshots /\ n \in Nat /\ R \in Histories /\ v \in Addresses /\ v # ZeroAddress
      /\ IsHistory(R, n)
  BY SnapshotConstants DEF ChainInv, GoodSnapshot, Snapshots, IsHistory, ValidatorSets
<1>2. len \in Nat
  BY <1>1, LengthFacts
<1>3. Counted(snap, v) = {b \in DOMAIN R : b > left /\ R[b] = v}
  BY <1>1, <1>2, CountedForm
<1>4. \A b \in DOMAIN R : b \in Nat /\ b > 0 /\ (R[b] = v => b <= n)
  BY <1>1 DEF IsHistory, Histories
<1>5. \A b \in DOMAIN proposers : b \in Nat /\ b > 0 /\ b <= n
  BY DEF AccurateInv
<1>6. \A b \in Nat : n - len < b /\ b <= n =>
        (b \in DOMAIN R <=> b \in DOMAIN proposers) /\ (b \in DOMAIN R => R[b] = proposers[b])
  BY DEF AccurateInv, SameAbove
<1>7. \A b \in Nat : b > 0 => (b > left <=> b > n - len)
  BY <1>1, <1>2
<1> HIDE DEF n, len, R, left
<1>8. \A b : b \in DOMAIN R /\ b > left /\ R[b] = v <=>
             b \in DOMAIN proposers /\ b > n - len /\ proposers[b] = v
  <2>1. ASSUME NEW b, b \in DOMAIN R, b > left, R[b] = v
        PROVE  b \in DOMAIN proposers /\ b > n - len /\ proposers[b] = v
    <3>1. b \in Nat /\ b > 0 /\ b <= n
      BY <1>4, <2>1
    <3>2. n - len < b
      BY <1>1, <1>2, <1>7, <2>1, <3>1
    <3> QED
      BY <1>1, <1>2, <1>6, <2>1, <3>1, <3>2
  <2>2. ASSUME NEW b, b \in DOMAIN proposers, b > n - len, proposers[b] = v
        PROVE  b \in DOMAIN R /\ b > left /\ R[b] = v
    <3>1. b \in Nat /\ b > 0 /\ b <= n
      BY <1>5, <2>2
    <3>2. b > left /\ n - len < b
      BY <1>1, <1>2, <1>7, <2>2, <3>1
    <3> QED
      BY <1>6, <2>2, <3>1, <3>2
  <2> QED
    BY <2>1, <2>2
<1>9. {b \in DOMAIN R : b > left /\ R[b] = v} = {b \in DOMAIN proposers : b > n - len /\ proposers[b] = v}
  BY <1>8, Zenon
<1> QED
  BY <1>3, <1>9 DEF n, len

\* sign_recently counts the blocks a validator really proposed: every block apply drops
\* from the history is one the limit no longer looks at, before Bohr, where a smaller
\* set drops more of them, and after it, where a new set starts afresh. Before Bohr a
\* larger set looks back further than the history of a smaller one reaches, so that a
\* chain with blocks from before Bohr needs sets whose limits do not grow by two at once.
THEOREM RecentsCounted ==
  ASSUME IsBohr(1) \/ LimitGrowsByOne
  PROVE  Spec => []RecentsAccurate
<1>1. Init => AccurateInv
  BY AccurateInit
<1>2. ChainInv /\ AccurateInv /\ [Next]_vars => AccurateInv'
  BY AccurateNext
<1>3. ChainInv /\ AccurateInv => RecentsAccurate
  <2> SUFFICES ASSUME ChainInv, AccurateInv, NEW v \in snap.validators
               PROVE  SignRecently(snap, v) <=>
                        snap.turn_length <=
                          Cardinality({b \in DOMAIN proposers :
                            b > snap.block_number - MinerHistoryCheckLen(snap) /\ proposers[b] = v})
    BY DEF RecentsAccurate
  <2> DEFINE C == {b \in DOMAIN proposers :
                     b > snap.block_number - MinerHistoryCheckLen(snap) /\ proposers[b] = v}
  <2>1. Counted(snap, v) = C
    BY CountsTheProposed
  <2>2. IsFiniteSet(DOMAIN snap.recent_proposers) /\ snap.turn_length \in Nat
    BY DEF ChainInv, GoodSnapshot, IsHistory, Snapshots
  <2>3. CountRecent(snap, v) = Cardinality(C) /\ CountRecent(snap, v) \in Nat
    BY <2>1, <2>2, CountedFacts
  <2> HIDE DEF C
  <2>4. SignRecently(snap, v) <=> snap.turn_length <= Cardinality(C)
    BY <2>2, <2>3 DEF SignRecently
  <2> QED
    BY <2>4 DEF C
<1> QED
  BY <1>1, <1>2, <1>3, ChainInvariant, PTL DEF Spec

----------------------------------------------------------------------------
(* Checkpoints take effect. *)

Effective(cp, s) ==
  /\ s.validators = cp.validators
  /\ cp.turn # 0 => s.turn_length = cp.turn

EpochMarks(s) == {k \in DOMAIN s.recent_proposers : k > MaxBlock}

\* The checkpoint that the next block belongs to.
CheckpointAhead(cp, s) ==
  IF (s.block_number + 1) % s.epoch_num = 0 THEN s.block_number + 1 ELSE cp.number

\* How much further than one epoch a checkpoint may be from the last one that took
\* effect: a change of length may overtake the checkpoints between them.
Slack(e, f) ==
  IF e = f THEN 0
  ELSE IF e = DEFAULT_EPOCH_LENGTH /\ f = MAXWELL_EPOCH_LENGTH THEN 2 * MaxCheckLen
  ELSE MaxCheckLen

\* A mark is that of the last checkpoint, which has taken effect, or of one before it,
\* and then the last one is still to take effect.
MarkOf(k, c, e, cp, s) ==
  LET n == s.block_number
      next == CheckpointAhead(cp, s)
  IN /\ k = U64_MAX - c \div e /\ c % e = 0 /\ IsBohr(c + MaxCheckLen) /\ e <= s.epoch_num
     /\ \/ c = cp.number /\ e = s.epoch_num /\ (n + 1) % s.epoch_num # 0 /\ Effective(cp, s)
        \/ /\ c < next /\ next - c <= e + Slack(e, s.epoch_num)
           /\ (n + 1) % s.epoch_num # 0 => n < cp.number + MinerHistoryCheckLen(s)

EffectInv ==
  /\ ElectedInv
  /\ snap.epoch_num \in EpochLengths
  /\ InForce(snap.epoch_num, CheckpointAhead(checkpoint, snap))
  /\ Effective(checkpoint, snap) \/ snap.block_number < checkpoint.number + MinerHistoryCheckLen(snap)
  /\ \A j, k \in EpochMarks(snap) : j = k
  /\ \A k \in EpochMarks(snap) :
       \E c \in 0..snap.block_number, e \in EpochLengths : MarkOf(k, c, e, checkpoint, snap)

LEMMA LengthsGrow ==
  ASSUME EpochsGrow, NEW e \in EpochLengths, NEW n \in Nat, InForce(e, n)
  PROVE  LET f == NextEpochNum(e, n)
         IN /\ e \in Nat \ {0} /\ f \in Nat \ {0} /\ MaxCheckLen < e
            /\ f \in EpochLengths /\ InForce(f, n)
            /\ f = e \/ (e < f /\ (n + 1) % f = 0)
<1> DEFINE a == DEFAULT_EPOCH_LENGTH
           b == LORENTZ_EPOCH_LENGTH
           c == MAXWELL_EPOCH_LENGTH
           f == NextEpochNum(e, n)
<1>1. /\ a \in Nat \ {0} /\ b \in Nat \ {0} /\ c \in Nat \ {0} /\ MaxCheckLen \in Nat
      /\ MaxCheckLen < a /\ a < b /\ b < c /\ e \in {a, b, c}
  BY SnapshotConstants, ChainConstants DEF EpochsGrow, EpochLengths
<1>2. f = LET lorentz == IF e = a /\ IsLorentz(n) /\ (n + 1) % b = 0 THEN b ELSE e
          IN IF lorentz = b /\ IsMaxwell(n) /\ (n + 1) % c = 0 THEN c ELSE lorentz
  BY Zenon DEF NextEpochNum
<1>3. \/ f = e
      \/ f = b /\ e = a /\ IsLorentz(n) /\ (n + 1) % b = 0
      \/ f = c /\ (e = a \/ e = b) /\ IsMaxwell(n) /\ (n + 1) % c = 0
  <2> HIDE DEF a, b, c, f
  <2> QED
    BY <1>1, <1>2
<1>4. InForce(f, n) /\ f \in {a, b, c}
  BY <1>1, <1>3, Zenon DEF InForce
<1>5. f = e \/ (e < f /\ (n + 1) % f = 0)
  <2> HIDE DEF a, b, c, f
  <2> QED
    BY <1>1, <1>3
<1>6. e \in Nat \ {0} /\ f \in Nat \ {0} /\ MaxCheckLen < e
  <2> HIDE DEF a, b, c, f
  <2> QED
    BY <1>1, <1>4
<1> QED
  BY <1>4, <1>5, <1>6 DEF EpochLengths

LEMMA InForceLater ==
  ASSUME NEW e, NEW m \in Nat, NEW n \in Nat, m <= n, InForce(e, m)
  PROVE  InForce(e, n)
<1> QED
  BY SnapshotConstants DEF InForce, IsLorentz, IsMaxwell

LEMMA SlackFacts ==
  ASSUME EpochsGrow, NEW e \in EpochLengths, NEW f \in EpochLengths, e <= f
  PROVE  /\ Slack(e, f) \in Nat /\ Slack(e, f) <= 2 * MaxCheckLen
         /\ \A g \in EpochLengths : f < g => Slack(e, f) + MaxCheckLen <= Slack(e, g)
<1> DEFINE a == DEFAULT_EPOCH_LENGTH
           b == LORENTZ_EPOCH_LENGTH
           c == MAXWELL_EPOCH_LENGTH
<1>1. /\ a \in Nat \ {0} /\ b \in Nat \ {0} /\ c \in Nat \ {0} /\ MaxCheckLen \in Nat
      /\ a < b /\ b < c /\ e \in {a, b, c} /\ f \in {a, b, c}
  BY SnapshotConstants, ChainConstants DEF EpochsGrow, EpochLengths
<1>2. Slack(e, f) \in Nat /\ Slack(e, f) <= 2 * MaxCheckLen
  BY <1>1 DEF Slack
<1>3. ASSUME NEW g \in {a, b, c}, f < g
      PROVE  Slack(e, f) + MaxCheckLen <= Slack(e, g)
  BY <1>1, <1>3 DEF Slack
<1> QED
  BY <1>2, <1>3 DEF EpochLengths

LEMMA DivisionUnique ==
  ASSUME NEW e \in Nat \ {0}, NEW q \in Nat, NEW r \in Nat, r < e
  PROVE  (e * q + r) % e = r /\ (e * q + r) \div e = q
<1> DEFINE n == e * q + r
           p == n \div e
           s == n % e
           d == q - p
<1>1. n \in Nat
  OBVIOUS
<1>2. p \in Nat /\ s \in Nat /\ s < e /\ n = e * p + s
  <2> HIDE DEF n
  <2> QED
    BY <1>1
<1>3. d \in Int /\ q = p + d
  BY <1>2
<1> HIDE DEF p, s, d
<1>4. e * d = s - r
  <2>1. e * q = e * p + e * d
    BY <1>2, <1>3
  <2> QED
    BY <1>2, <1>3, <2>1
<1>5. d < 1
  <2>1. ASSUME d >= 1 PROVE e * d >= e
    BY <1>3, <2>1
  <2> QED
    BY <1>2, <1>3, <1>4, <2>1
<1>6. d > -1
  <2>1. ASSUME d <= -1 PROVE e * d <= -e
    BY <1>3, <2>1
  <2> QED
    BY <1>2, <1>3, <1>4, <2>1
<1>7. d = 0
  BY <1>3, <1>5, <1>6
<1>8. p = q /\ s = r
  <2>1. e * d = 0
    BY <1>7
  <2> QED
    BY <1>2, <1>3, <1>4, <1>7, <2>1
<1> QED
  BY <1>8 DEF p, s

\* The last multiple of e up to n.
LEMMA LastMultiple ==
  ASSUME NEW n \in Nat, NEW e \in Nat \ {0}, NEW c, c = n - (n % e)
  PROVE  /\ c \in Nat /\ c <= n /\ n < c + e
         /\ c % e = 0 /\ c \div e = n \div e
         /\ n + 1 < c + e => (n + 1) % e # 0
<1> DEFINE q == n \div e
           r == n % e
<1>1. q \in Nat /\ r \in Nat /\ r < e /\ n = e * q + r
  OBVIOUS
<1> HIDE DEF q, r
<1>2. c = n - r
  BY DEF r
<1>3. c = e * q /\ e * q \in Nat
  BY <1>1, <1>2
<1>4. (e * q) % e = 0 /\ (e * q) \div e = q
  <2>1. e * q + 0 = e * q /\ 0 \in Nat /\ 0 < e
    BY <1>3
  <2>2. (e * q + 0) % e = 0 /\ (e * q + 0) \div e = q
    BY <1>1, <2>1, DivisionUnique, Zenon
  <2> QED
    BY <2>1, <2>2, Zenon
<1>5. r + 1 < e => (e * q + (r + 1)) % e = r + 1
  <2>1. r + 1 \in Nat
    BY <1>1
  <2> QED
    BY <1>1, <2>1, DivisionUnique, Zenon
<1>6. ASSUME n + 1 < c + e
      PROVE  (n + 1) % e # 0
  <2>1. r + 1 < e
    BY <1>1, <1>2, <1>6
  <2>2. n + 1 = e * q + (r + 1)
    BY <1>1
  <2> QED
    BY <1>1, <1>5, <2>1, <2>2
<1> QED
  BY <1>1, <1>2, <1>3, <1>4, <1>6 DEF q

\* A mark seen from the block that is being applied, whose checkpoint is cp.
MarkBefore(k, c, e, cp, s) ==
  LET n == s.block_number + 1
  IN /\ k = U64_MAX - c \div e /\ c % e = 0 /\ IsBohr(c + MaxCheckLen) /\ e <= s.epoch_num
     /\ \/ c = cp.number /\ e = s.epoch_num /\ Effective(cp, s)
        \/ /\ c < cp.number /\ cp.number - c <= e + Slack(e, s.epoch_num)
           /\ n <= cp.number + MinerHistoryCheckLen(s)

\* A checkpoint that is still to take effect when the length of an epoch changes is
\* overtaken by the next one, which is not much further from the last mark.
LEMMA MarkMoves ==
  ASSUME EpochsGrow, NEW n \in Nat, NEW e \in EpochLengths, NEW f \in EpochLengths,
         NEW g \in EpochLengths, f = g \/ (f < g /\ (n + 1) % g = 0),
         NEW p \in Nat, p = n - (n % f), NEW c \in Nat, c < p, e <= f, p - c <= e + Slack(e, f),
         NEW len \in Nat, len <= MaxCheckLen, n < p + len
  PROVE  (n + 1) % g = 0 => c < n + 1 /\ (n + 1) - c <= e + Slack(e, g)
<1> SUFFICES ASSUME (n + 1) % g = 0
             PROVE  c < n + 1 /\ (n + 1) - c <= e + Slack(e, g)
  OBVIOUS
<1>1. /\ e \in Nat \ {0} /\ f \in Nat \ {0} /\ g \in Nat \ {0} /\ MaxCheckLen \in Nat
      /\ MaxCheckLen < f
  BY SnapshotConstants, ChainConstants DEF EpochsGrow, EpochLengths
<1>2. p <= n /\ (n + 1 < p + f => (n + 1) % f # 0)
  BY <1>1, LastMultiple
<1>3. f < g
  BY <1>1, <1>2
<1>4. Slack(e, f) \in Nat /\ Slack(e, f) + MaxCheckLen <= Slack(e, g)
  BY <1>3, SlackFacts
<1>5. Slack(e, g) \in Nat
  <2>1. e <= g
    BY <1>1, <1>3
  <2> QED
    BY <2>1, SlackFacts
<1> QED
  BY <1>1, <1>2, <1>4, <1>5

LEMMA EffectKeeps ==
  ASSUME EpochsGrow, MarksApart, ChainInv, ChainInv', EffectInv,
         NEW v \in Addresses, NEW att \in Attestations, NEW cp \in Checkpoints(snap), NewBlock(v, att, cp)
  PROVE  EffectInv'
<1> DEFINE m == snap.block_number
           n == m + 1
           e == snap.epoch_num
           f == NextEpochNum(e, n)
           V == snap.validators
           W == cp.validators
           t == snap.turn_length
           len == MinerHistoryCheckLen(snap)
           R == snap.recent_proposers
           c == cp.number
           key == EpochKey(n, e)
           votes == VotesAfter(snap, att)
           Q == RecentsAfter(snap, v, votes.source)
           P == snap'.recent_proposers
<1>1. /\ GoodSnapshot(snap) /\ snap \in Snapshots /\ m \in Nat /\ n \in Nat /\ t \in Nat \ {0}
      /\ m < MaxBlock /\ MaxBlock \in Nat /\ MaxCheckLen \in Nat /\ e \in Nat \ {0} /\ U64_MAX \in Nat
      /\ V \in ValidatorSets /\ GoodCheckpoint(checkpoint, snap)
  BY SnapshotConstants, ChainConstants DEF ChainInv, GoodSnapshot, Snapshots, NewBlock
<1>2. GoodSnapshot(snap') /\ snap' \in Snapshots
  BY DEF ChainInv, GoodSnapshot
<1>3. /\ votes.source \in Nat /\ votes.source < n
      /\ checkpoint' = cp /\ NextCheckpoint(checkpoint, cp, snap)
      /\ snap' = IF IsEpochBoundary(snap) /\ Installs(Q, n, e, W)
                 THEN Switched(snap, cp, votes, Q) ELSE Unswitched(snap, votes, Q)
  BY BlockForm
<1>4. ElectedInv'
  BY ElectedKeeps DEF EffectInv
<1>5. len \in Nat /\ len <= MaxCheckLen
  BY <1>1, LengthBounded DEF EffectInv, ElectedInv
<1>6. /\ c \in Nat /\ c <= n /\ c = n - (n % e) /\ W \in ValidatorSets
      /\ n % e # 0 => cp = checkpoint
      /\ n % e = 0 => c = n
  <2>1. /\ cp \in [number : Nat, validators : ValidatorSets, turn : TurnLengths \cup {0}]
        /\ c <= n /\ c = n - (n % e)
        /\ n % e # 0 => cp = checkpoint
        /\ n % e = 0 => c = n
    BY <1>1, <1>3, CheckpointStep, Zenon
  <2> QED
    BY <2>1
<1>7. CheckpointAhead(checkpoint, snap) = c
  BY <1>6 DEF CheckpointAhead
<1>8. e \in EpochLengths /\ InForce(e, c)
  BY <1>7 DEF EffectInv
<1>9. /\ f \in Nat \ {0} /\ MaxCheckLen < e /\ f \in EpochLengths /\ InForce(f, n)
      /\ f = e \/ (e < f /\ (n + 1) % f = 0)
  <2>1. InForce(e, n)
    BY <1>1, <1>6, <1>8, InForceLater
  <2> HIDE DEF n, e
  <2> QED
    BY <1>1, <1>8, <2>1, LengthsGrow
<1>10. n < c + e /\ c % e = 0 /\ c \div e = n \div e
  BY <1>1, <1>6, LastMultiple
<1>11. IsEpochBoundary(snap) <=> n = c + len
  <2>1. n % e \in Nat
    BY <1>1
  <2>2. IsEpochBoundary(snap) <=> n % e = len
    BY DEF IsEpochBoundary
  <2> HIDE DEF len, n, e
  <2> QED
    BY <1>1, <1>5, <1>6, <2>1, <2>2
<1>12. key \in Nat /\ key > MaxBlock /\ key = U64_MAX - c \div e
  <2>1. n <= MaxBlock
    BY <1>1
  <2>2. key \in Nat /\ key > MaxBlock
    BY <1>1, <2>1, EpochKeyFacts
  <2> QED
    BY <1>10, <2>2 DEF EpochKey
<1>13. Effective(cp, snap) \/ n <= c + len
  <2>1. CASE n % e # 0
    <3>1. cp = checkpoint
      BY <1>6, <2>1
    <3>2. Effective(cp, snap) \/ m < c + len
      BY <3>1 DEF EffectInv
    <3> HIDE DEF len, c
    <3> QED
      BY <1>1, <1>5, <1>6, <3>2
  <2>2. CASE n % e = 0
    <3>1. c = n
      BY <1>6, <2>2
    <3> HIDE DEF len, c
    <3> QED
      BY <1>1, <1>5, <3>1
  <2> QED
    BY <2>1, <2>2
<1>14. ASSUME NEW k \in EpochMarks(snap)
       PROVE  \E d \in 0..m, g \in EpochLengths : MarkBefore(k, d, g, cp, snap)
  <2>1. PICK d \in 0..m, g \in EpochLengths : MarkOf(k, d, g, checkpoint, snap)
    BY <1>14 DEF EffectInv
  <2>2. /\ k = U64_MAX - d \div g /\ d % g = 0 /\ IsBohr(d + MaxCheckLen) /\ g <= e
        /\ \/ d = checkpoint.number /\ g = e /\ n % e # 0 /\ Effective(checkpoint, snap)
           \/ /\ d < c /\ c - d <= g + Slack(g, e)
              /\ n % e # 0 => m < checkpoint.number + len
    BY <1>7, <2>1 DEF MarkOf
  <2>3. CASE d = checkpoint.number /\ g = e /\ n % e # 0 /\ Effective(checkpoint, snap)
    <3>1. cp = checkpoint
      BY <1>6, <2>3
    <3>2. MarkBefore(k, d, g, cp, snap)
      BY <2>2, <2>3, <3>1 DEF MarkBefore
    <3> QED
      BY <3>2
  <2>4. CASE d < c /\ c - d <= g + Slack(g, e) /\ (n % e # 0 => m < checkpoint.number + len)
    <3>1. n <= c + len
      <4> HIDE DEF len
      <4>1. CASE n % e # 0
        BY <1>1, <1>5, <1>6, <2>4, <4>1
      <4>2. CASE n % e = 0
        BY <1>1, <1>5, <1>6, <4>2
      <4> QED
        BY <4>1, <4>2
    <3>2. MarkBefore(k, d, g, cp, snap)
      BY <2>2, <2>4, <3>1 DEF MarkBefore
    <3> QED
      BY <3>2
  <2> QED
    BY <2>2, <2>3, <2>4

<1>15. \A k : k \in DOMAIN Q /\ k > MaxBlock <=> k \in EpochMarks(snap)
  <2>1. \A b \in Nat : b \in DOMAIN Q <=> /\ b = n \/ (b \in DOMAIN R /\ b # m - len)
                                          /\ IsMaxwell(n) => b > votes.source
    BY <1>1, <1>3, RecentsAfterForm
  <2>2. DOMAIN R \subseteq Nat
    BY <1>1, HistoryFacts DEF Snapshots
  <2>3. DOMAIN Q \subseteq Nat
    <3>1. votes.source \in Nat /\ votes.source < snap.block_number + 1
      BY <1>3
    <3> HIDE DEF votes
    <3>2. IsHistory(Q, n)
      BY <1>1, <3>1, RecentsAfterFacts, Zenon
    <3> HIDE DEF Q
    <3> QED
      BY <3>2, HistoryFacts DEF IsHistory
  <2> HIDE DEF Q, R, len, votes
  <2> QED
    BY <1>1, <1>3, <1>5, <2>1, <2>2, <2>3 DEF EpochMarks, R
<1> HIDE DEF Q, votes
<1>16. ASSUME n = c + len, ~Installs(Q, n, e, W)
       PROVE  /\ Effective(cp, snap)
              /\ \A k \in EpochMarks(snap) : k = U64_MAX - c \div e
              /\ IsBohr(c + MaxCheckLen)
  <2>1. IsBohr(n) /\ key \in DOMAIN Q
    BY <1>6, <1>16 DEF Installs, ValidatorSets
  <2>2. key \in EpochMarks(snap)
    BY <1>12, <1>15, <2>1
  <2>3. PICK d \in 0..m, g \in EpochLengths : MarkBefore(key, d, g, cp, snap)
    BY <1>14, <2>2
  <2>4. ~(d < c /\ c - d <= g + Slack(g, e))
    <3> SUFFICES ASSUME d < c, c - d <= g + Slack(g, e)
                 PROVE  FALSE
      OBVIOUS
    <3>1. key = U64_MAX - d \div g /\ d % g = 0 /\ IsBohr(d + MaxCheckLen) /\ g <= e
      BY <2>3 DEF MarkBefore
    <3>2. Slack(g, e) <= 2 * MaxCheckLen /\ Slack(g, e) \in Nat /\ g \in Nat \ {0}
      BY <1>8, <3>1, SlackFacts, SnapshotConstants DEF EpochLengths
    <3>3. d \div g = c \div e
      <4>1. d \div g \in Int /\ c \div e \in Int
        BY <1>1, <1>6, <3>2
      <4> HIDE DEF key, c, e
      <4> QED
        BY <1>1, <1>12, <3>1, <4>1
    <3>4. c - d <= g + 2 * MaxCheckLen /\ c \in 0..MaxBlock /\ d \in 0..MaxBlock
      BY <1>1, <1>6, <3>2
    <3> HIDE DEF c, e
    <3> QED
      BY <1>8, <1>10, <3>1, <3>3, <3>4 DEF MarksApart
  <2>5. Effective(cp, snap)
    BY <2>3, <2>4 DEF MarkBefore
  <2>6. \A k \in EpochMarks(snap) : k = key
    BY <2>2 DEF EffectInv
  <2>7. IsBohr(c + MaxCheckLen)
    BY <1>1, <1>5, <1>6, <1>16, <2>1, SnapshotConstants DEF IsBohr
  <2> QED
    BY <1>12, <2>5, <2>6, <2>7
<1>17. CheckpointAhead(cp, snap') = IF (n + 1) % f = 0 THEN n + 1 ELSE c
  <2>1. snap'.block_number = n /\ snap'.epoch_num = f
    BY <1>3 DEF Switched, Unswitched
  <2> QED
    BY <2>1 DEF CheckpointAhead
<1>18. snap'.block_number = n /\ snap'.epoch_num = f
  BY <1>3 DEF Switched, Unswitched
<1>19. InForce(f, CheckpointAhead(cp, snap'))
  <2>1. CASE (n + 1) % f = 0
    BY <1>1, <1>9, <1>17, <2>1, InForceLater
  <2>2. CASE (n + 1) % f # 0
    BY <1>8, <1>9, <1>17, <2>2
  <2> QED
    BY <2>1, <2>2
\* The mark of the checkpoint itself, after the block.
<1>20. ASSUME Effective(cp, snap'), IsBohr(c + MaxCheckLen)
       PROVE  MarkOf(U64_MAX - c \div e, c, e, cp, snap')
  <2>1. e <= f
    BY <1>1, <1>9
  <2>2. CASE (n + 1) % f = 0
    <3>1. Slack(e, f) \in Nat
      BY <1>8, <1>9, <2>1, SlackFacts
    <3>2. c < n + 1 /\ (n + 1) - c <= e + Slack(e, f)
      <4> HIDE DEF c, e, f
      <4> QED
        BY <1>1, <1>6, <1>10, <3>1
    <3> HIDE DEF c, e, f, n
    <3> QED
      BY <1>10, <1>17, <1>18, <1>20, <2>1, <2>2, <3>2 DEF MarkOf
  <2>3. CASE (n + 1) % f # 0
    <3>1. f = e
      BY <1>9, <2>3
    <3> HIDE DEF e, f, n
    <3> QED
      BY <1>10, <1>18, <1>20, <2>1, <2>3, <3>1 DEF MarkOf
  <2> QED
    BY <2>2, <2>3
<1>21. CASE IsEpochBoundary(snap) /\ Installs(Q, n, e, W)
  <2>1. snap' = Switched(snap, cp, votes, Q) /\ n = c + len
    BY <1>3, <1>11, <1>21
  <2>2. Effective(cp, snap')
    BY <2>1 DEF Switched, Effective, NextTurnLength
  <2>3. P = RecentsAtSwitch(Q, n, e, V, W)
    BY <2>1 DEF Switched
  <2>4. CASE IsBohr(n)
    <3>1. IsBohr(c + MaxCheckLen)
      BY <1>1, <1>5, <1>6, <2>1, <2>4, SnapshotConstants DEF IsBohr
    <3>2. P = Insert(<<>>, key, ZeroAddress)
      BY <2>3, <2>4 DEF RecentsAtSwitch
    <3>3. DOMAIN P = {key}
      <4> HIDE DEF P, key
      <4> QED
        BY <3>2 DEF Insert
    <3>4. EpochMarks(snap') = {U64_MAX - c \div e}
      BY <1>12, <3>3 DEF EpochMarks
    <3>5. MarkOf(U64_MAX - c \div e, c, e, cp, snap')
      BY <1>20, <2>2, <3>1
    <3>6. c \in 0..n
      BY <1>1, <1>6
    <3>7. \A k \in EpochMarks(snap') : \E d \in 0..n, g \in EpochLengths : MarkOf(k, d, g, cp, snap')
      BY <1>8, <3>4, <3>5, <3>6
    <3>8. \A j, k \in EpochMarks(snap') : j = k
      BY <3>4
    <3> QED
      BY <1>3, <1>4, <1>9, <1>18, <1>19, <2>2, <3>7, <3>8 DEF EffectInv
  <2>5. CASE ~IsBohr(n)
    <3>1. \A b \in DOMAIN P : b <= n
      BY <1>2, <1>18, <2>5 DEF GoodSnapshot, OnlyWindow
    <3>2. DOMAIN P \subseteq Nat
      BY <1>2, HistoryFacts DEF Snapshots
    <3>3. EpochMarks(snap') = {}
      BY <1>1, <3>1, <3>2 DEF EpochMarks
    <3> QED
      BY <1>3, <1>4, <1>9, <1>18, <1>19, <2>2, <3>3 DEF EffectInv
  <2> QED
    BY <2>4, <2>5
<1>22. CASE ~(IsEpochBoundary(snap) /\ Installs(Q, n, e, W))
  <2>1. snap' = Unswitched(snap, votes, Q)
    BY <1>3, <1>22
  <2>2. snap'.validators = V /\ snap'.turn_length = t /\ P = Q
    BY <2>1 DEF Unswitched
  <2>3. /\ MinerHistoryCheckLen(snap') = len
        /\ Effective(cp, snap') <=> Effective(cp, snap)
    BY <2>2 DEF MinerHistoryCheckLen, Effective
  <2>4. EpochMarks(snap') = EpochMarks(snap)
    <3> HIDE DEF P
    <3> QED
      BY <1>15, <2>2 DEF EpochMarks, P
  <2>5. Effective(cp, snap') \/ n < c + len
    <3>1. CASE n = c + len
      BY <1>11, <1>16, <1>22, <2>3, <3>1
    <3>2. CASE n # c + len
      <4> HIDE DEF len, c, n
      <4> QED
        BY <1>1, <1>5, <1>6, <1>13, <2>3, <3>2
    <3> QED
      BY <3>1, <3>2
  <2>6. ASSUME NEW k \in EpochMarks(snap)
        PROVE  \E d \in 0..n, g \in EpochLengths : MarkOf(k, d, g, cp, snap')
    <3>1. PICK d \in 0..m, g \in EpochLengths : MarkBefore(k, d, g, cp, snap)
      BY <1>14, <2>6
    <3>2. d \in 0..n /\ c \in 0..n /\ d \in Nat
      BY <1>1, <1>6
    <3>3. CASE d = c /\ g = e /\ Effective(cp, snap)
      <4>1. k = U64_MAX - c \div e /\ IsBohr(c + MaxCheckLen)
        BY <3>1, <3>3 DEF MarkBefore
      <4>2. MarkOf(k, c, e, cp, snap')
        BY <1>20, <2>3, <3>3, <4>1
      <4> QED
        BY <1>8, <3>2, <4>2
    <3>4. CASE n = c + len
      <4>1. k = U64_MAX - c \div e /\ IsBohr(c + MaxCheckLen) /\ Effective(cp, snap)
        BY <1>11, <1>16, <1>22, <2>6, <3>4
      <4>2. MarkOf(k, c, e, cp, snap')
        BY <1>20, <2>3, <4>1
      <4> QED
        BY <1>8, <3>2, <4>2
    <3>5. CASE /\ n # c + len
               /\ d < c /\ c - d <= g + Slack(g, e) /\ n <= c + len
      <4>1. k = U64_MAX - d \div g /\ d % g = 0 /\ IsBohr(d + MaxCheckLen) /\ g <= e
        BY <3>1 DEF MarkBefore
      <4>2. n < c + len
        <5> HIDE DEF len, c, n
        <5> QED
          BY <1>1, <1>5, <1>6, <3>5
      <4>3. (n + 1) % f = 0 => d < n + 1 /\ (n + 1) - d <= g + Slack(g, f)
        <5> HIDE DEF len, c, n, e, f
        <5> QED
          BY <1>1, <1>5, <1>6, <1>8, <1>9, <3>2, <3>5, <4>1, <4>2, MarkMoves
      <4>4. g <= f
        <5>1. g \in Nat
          BY SnapshotConstants DEF EpochLengths
        <5> HIDE DEF e, f
        <5> QED
          BY <1>1, <1>9, <4>1, <5>1
      <4>5. (n + 1) % f # 0 => f = e
        BY <1>9
      <4>6. MarkOf(k, d, g, cp, snap')
        <5> HIDE DEF e, f, n, len
        <5>1. CASE (n + 1) % f = 0
          BY <1>17, <1>18, <4>1, <4>3, <4>4, <5>1 DEF MarkOf
        <5>2. CASE (n + 1) % f # 0
          BY <1>17, <1>18, <2>3, <3>5, <4>1, <4>2, <4>4, <4>5, <5>2 DEF MarkOf
        <5> QED
          BY <5>1, <5>2
      <4> QED
        BY <3>2, <4>6
    <3> QED
      BY <3>1, <3>3, <3>4, <3>5 DEF MarkBefore
  <2> QED
    BY <1>3, <1>4, <1>9, <1>18, <1>19, <2>3, <2>4, <2>5, <2>6 DEF EffectInv
<1> QED
  BY <1>21, <1>22

LEMMA EffectInit == EpochsGrow /\ Init => EffectInv
<1> SUFFICES ASSUME EpochsGrow, Init
             PROVE  EffectInv
  OBVIOUS
<1>1. DEFAULT_EPOCH_LENGTH \in Nat \ {0}
  BY SnapshotConstants
<1>2. /\ snap.block_number = 0 /\ snap.turn_length = 1 /\ snap.validators = GenesisValidators
      /\ snap.recent_proposers = <<>> /\ snap.epoch_num = DEFAULT_EPOCH_LENGTH
      /\ checkpoint.validators = GenesisValidators /\ checkpoint.turn = 0
  BY <1>1 DEF Init, GenesisSnapshot
<1>3. EpochMarks(snap) = {}
  <2>1. DOMAIN snap.recent_proposers = {}
    BY <1>2
  <2> QED
    BY <2>1 DEF EpochMarks
<1>4. ElectedInv /\ Effective(checkpoint, snap)
  BY <1>2 DEF ElectedInv, ElectedSets, Effective
<1> QED
  BY <1>2, <1>3, <1>4 DEF EffectInv, EpochLengths, InForce

LEMMA EffectNext ==
  ASSUME EpochsGrow, MarksApart, ChainInv, EffectInv, [Next]_vars
  PROVE  EffectInv'
<1>1. CASE UNCHANGED vars
  <2>1. snap' = snap /\ checkpoint' = checkpoint
    BY <1>1 DEF vars
  <2> QED
    BY <2>1 DEF EffectInv, ElectedInv
<1>2. CASE \E v \in Addresses, att \in Attestations, cp \in Checkpoints(snap) : NewBlock(v, att, cp)
  <2>1. ChainInv'
    BY ChainNext
  <2> QED
    BY <1>2, <2>1, EffectKeeps
<1> QED
  BY <1>1, <1>2 DEF Next, Done

\* A checkpoint's validators and turn length are in force once the limit has passed it,
\* on every chain whose epochs are longer than the limit and whose neighbouring
\* checkpoints have different marks. apply counts marks in the epoch length of the block:
\* where the length changes so early that two neighbours share a mark, the second
\* checkpoint is taken for one that was installed already.
THEOREM CheckpointsTakeEffect == Spec => []CheckpointTakesEffect
<1>1. CASE EpochsGrow /\ MarksApart
  <2>1. Init => EffectInv
    BY <1>1, EffectInit
  <2>2. ChainInv /\ EffectInv /\ [Next]_vars => EffectInv'
    BY <1>1, EffectNext
  <2>3. ChainInv /\ EffectInv => CheckpointTakesEffect
    <3> SUFFICES ASSUME ChainInv, EffectInv, snap.block_number - checkpoint.number >= MaxCheckLen
                 PROVE  Effective(checkpoint, snap)
      BY DEF CheckpointTakesEffect, InEffect, Effective
    <3> DEFINE len == MinerHistoryCheckLen(snap)
    <3>1. snap \in Snapshots /\ snap.block_number \in Nat /\ checkpoint.number \in Nat /\ MaxCheckLen \in Nat
      BY ChainConstants DEF ChainInv, GoodSnapshot, GoodCheckpoint, Snapshots
    <3>2. len \in Nat /\ len <= MaxCheckLen
      BY <3>1, LengthBounded DEF EffectInv, ElectedInv
    <3>3. Effective(checkpoint, snap) \/ snap.block_number < checkpoint.number + len
      BY DEF EffectInv
    <3> HIDE DEF len
    <3> QED
      BY <3>1, <3>2, <3>3
  <2> QED
    BY <2>1, <2>2, <2>3, ChainInvariant, PTL DEF Spec
<1>2. CASE ~(EpochsGrow /\ MarksApart)
  <2>1. CheckpointTakesEffect
    BY <1>2 DEF CheckpointTakesEffect
  <2> QED
    BY <2>1, PTL
<1> QED
  BY <1>1, <1>2

----------------------------------------------------------------------------
(* The shuffled steps. *)

\* The lists of n different members of T.
Arrangements(n, T) == {p \in [1..n -> T] : \A i, j \in 1..n : p[i] = p[j] => i = j}

Swapped(p, i, j) == [p EXCEPT ![i] = p[j], ![j] = p[i]]

LEMMA SwapKeeps ==
  ASSUME NEW n \in Nat, NEW T, NEW p \in Arrangements(n, T), NEW i \in 1..n, NEW j \in 1..n
  PROVE  Swapped(p, i, j) \in Arrangements(n, T)
<1> DEFINE q == Swapped(p, i, j)
<1>1. p \in [1..n -> T] /\ \A a, b \in 1..n : p[a] = p[b] => a = b
  BY DEF Arrangements
<1>2. q \in [1..n -> T]
  BY <1>1 DEF Swapped
<1>3. \A a \in 1..n : q[a] = p[IF a = j THEN i ELSE IF a = i THEN j ELSE a]
  BY <1>1 DEF Swapped
<1> HIDE DEF q
<1>4. \A a, b \in 1..n : q[a] = q[b] => a = b
  <2> SUFFICES ASSUME NEW a \in 1..n, NEW b \in 1..n, q[a] = q[b] PROVE a = b
    OBVIOUS
  <2> DEFINE x == IF a = j THEN i ELSE IF a = i THEN j ELSE a
             y == IF b = j THEN i ELSE IF b = i THEN j ELSE b
  <2>1. x \in 1..n /\ y \in 1..n
    OBVIOUS
  <2>2. p[x] = p[y]
    BY <1>3
  <2>3. x = y
    <3> HIDE DEF x, y
    <3> QED
      BY <1>1, <2>1, <2>2
  <2> QED
    BY <2>3
<1>5. q \in Arrangements(n, T)
  BY <1>2, <1>4 DEF Arrangements
<1> QED
  BY <1>5 DEF q

\* The draws of a seed for up to n positions are in range.
DrawsInRange(seed, n) == \A k, i \in 1..n : int31n(seed, k, i) \in 0..(i - 1)

\* shuffle: every step is still there, in a place of its own.
LEMMA ShuffleKeeps ==
  ASSUME NEW n \in Nat, NEW T, NEW steps \in Arrangements(n, T), NEW seed, DrawsInRange(seed, n)
  PROVE  shuffle(steps, seed) \in Arrangements(n, T)
<1> DEFINE A == Arrangements(n, T)
           pos(k) == n - k + 1
           draw(k) == int31n(seed, k, pos(k)) + 1
           F(f, k) == IF k = 0 THEN steps
                      ELSE [f[k - 1] EXCEPT ![pos(k)] = f[k - 1][draw(k)], ![draw(k)] = f[k - 1][pos(k)]]
           after == CHOOSE f : f = [k \in 0..(n - 1) |-> F(f, k)]
           g == [k \in 1..(n - 1) |-> [p \in A |-> Swapped(p, pos(k), draw(k))]]
<1>1. Len(steps) = n
  <2>1. steps \in [1..n -> T]
    BY DEF Arrangements
  <2>2. steps \in Seq(T)
    BY <2>1, IsASeq
  <2> QED
    BY <2>1, <2>2, LenProperties
<1>2. shuffle(steps, seed) = IF n = 0 THEN steps ELSE after[n - 1]
  BY <1>1 DEF shuffle
<1>3. CASE n = 0
  BY <1>2, <1>3
<1>4. CASE n # 0
  <2>1. n - 1 \in Nat
    BY <1>4
  <2>2. \A k \in 1..(n - 1) : pos(k) \in 1..n /\ draw(k) \in 1..n
    <3> TAKE k \in 1..(n - 1)
    <3>1. pos(k) \in 1..n /\ k \in 1..n
      OBVIOUS
    <3>2. int31n(seed, k, pos(k)) \in 0..(pos(k) - 1)
      BY <3>1, Zenon DEF DrawsInRange
    <3> QED
      BY <3>1, <3>2
  <2> HIDE DEF pos, draw
  <2>3. \A k \in 1..(n - 1) : \A p \in A : Swapped(p, pos(k), draw(k)) \in A
    BY <2>2, SwapKeeps
  <2>4. PICK r : IsRun(r, g, steps, n - 1, A)
    <3>1. IsSteps(g, n - 1, A)
      BY <2>3, Zenon DEF IsSteps
    <3>2. steps \in A
      OBVIOUS
    <3> DEFINE m == n - 1
    <3> HIDE DEF g, A, m
    <3> SUFFICES \E r : IsRun(r, g, steps, m, A)
      BY DEF m
    <3> QED
      BY <2>1, <3>1, <3>2, RunExists DEF m
  <2>5. ASSUME NEW k \in 0..(n - 1) PROVE r[k] = F(r, k)
    <3>1. CASE k = 0
      BY <2>4, <3>1 DEF IsRun
    <3>2. CASE k # 0
      <4>1. k \in 1..(n - 1) /\ k - 1 \in 0..(n - 1)
        BY <2>1, <3>2
      <4>2. r[k - 1] \in A /\ r[k] = g[k][r[k - 1]]
        <5> HIDE DEF g, A
        <5> QED
          BY <2>4, <4>1 DEF IsRun
      <4>3. r[k] = Swapped(r[k - 1], pos(k), draw(k))
        BY <4>1, <4>2, Zenon
      <4> QED
        BY <3>2, <4>3 DEF Swapped
    <3> QED
      BY <3>1, <3>2
  <2>6. r = [k \in 0..(n - 1) |-> F(r, k)]
    <3>1. r = [k \in 0..(n - 1) |-> r[k]]
      <4> HIDE DEF g, A
      <4> QED
        BY <2>4 DEF IsRun
    <3> HIDE DEF F
    <3> QED
      BY <2>5, <3>1, Zenon
  <2>7. after = [k \in 0..(n - 1) |-> F(after, k)]
    <3> HIDE DEF F
    <3> QED
      BY <2>6
  <2> HIDE DEF after
  <2>8. \A k \in 0..(n - 1) : after[k] = F(after, k)
    <3> HIDE DEF F
    <3> QED
      BY <2>7, Zenon
  <2> DEFINE G == {k \in 0..(n - 1) : after[k] \in A}
  <2>9. 0 \in G
    <3>1. 0 \in 0..(n - 1)
      BY <2>1
    <3>2. after[0] = steps
      BY <2>8, <3>1, Zenon
    <3> QED
      BY <3>1, <3>2
  <2>10. ASSUME NEW k \in 1..(n - 1), k - 1 \in G PROVE k \in G
    <3>1. k \in 0..(n - 1) /\ k # 0
      BY <2>1
    <3>2. after[k] = Swapped(after[k - 1], pos(k), draw(k))
      BY <2>8, <3>1 DEF Swapped
    <3>3. after[k - 1] \in A
      BY <2>10
    <3>4. after[k] \in A
      BY <2>3, <3>2, <3>3, Zenon
    <3> QED
      BY <3>1, <3>4
  <2>11. \A k \in 0..(n - 1) : k \in G
    <3> DEFINE m == n - 1
    <3> HIDE DEF G, m
    <3> SUFFICES \A k \in 0..m : k \in G
      BY DEF m
    <3> QED
      BY <2>1, <2>9, <2>10, CountUp DEF m
  <2>12. n - 1 \in G
    BY <2>1, <2>11
  <2> QED
    BY <1>2, <1>4, <2>12
<1> QED
  BY <1>3, <1>4

\* How many members of S come before v.
Before(S, v) == Cardinality({u \in S : u < v})

LEMMA BeforeFacts ==
  ASSUME NEW S \in SUBSET Nat, IsFiniteSet(S), NEW v \in S
  PROVE  /\ Cardinality(S) \in Nat
         /\ Before(S, v) + 1 \in 1..Cardinality(S)
         /\ \A u \in S : u < v => Before(S, u) < Before(S, v)
<1> DEFINE B(x) == {u \in S : u < x}
<1>1. \A x : B(x) \in SUBSET S /\ IsFiniteSet(B(x)) /\ Cardinality(B(x)) \in Nat
  <2> TAKE x
  <2>1. B(x) \in SUBSET S
    OBVIOUS
  <2> HIDE DEF B
  <2>2. IsFiniteSet(B(x))
    BY <2>1, FS_Subset
  <2> QED
    BY <2>1, <2>2, FS_CardinalityType
<1>2. Cardinality(S) \in Nat
  BY FS_CardinalityType
<1>3. Cardinality(B(v)) < Cardinality(S)
  <2>1. B(v) \in SUBSET S /\ B(v) # S
    OBVIOUS
  <2> HIDE DEF B
  <2> QED
    BY <1>1, <1>2, <2>1, FS_Subset
<1>4. ASSUME NEW u \in S, u < v PROVE Cardinality(B(u)) < Cardinality(B(v))
  <2>1. B(u) \in SUBSET B(v) /\ u \in B(v) /\ u \notin B(u)
    <3>1. \A x \in S : x \in Nat /\ (x < u => x < v)
      BY <1>4
    <3>2. u \in B(v) /\ u \notin B(u)
      BY <1>4
    <3>3. \A x \in B(u) : x \in B(v)
      BY <3>1
    <3> QED
      BY <3>2, <3>3
  <2>2. IsFiniteSet(B(v)) /\ Cardinality(B(v)) \in Nat /\ Cardinality(B(u)) \in Nat
    BY <1>1
  <2> HIDE DEF B
  <2>3. Cardinality(B(u)) <= Cardinality(B(v)) /\ (Cardinality(B(v)) = Cardinality(B(u)) => B(v) = B(u))
    BY <2>1, <2>2, FS_Subset
  <2> QED
    BY <2>1, <2>2, <2>3
<1>5. \A x : Before(S, x) = Cardinality(B(x))
  BY DEF Before
<1> HIDE DEF B
<1> QED
  BY <1>1, <1>2, <1>3, <1>4, <1>5

\* The step of v among the validators S that share the steps.
StepOf(S, seed, v) == shuffle([i \in 1..Cardinality(S) |-> i - 1], seed)[Before(S, v) + 1]

\* Every validator has a step, and no two the same.
LEMMA StepsDiffer ==
  ASSUME NEW S \in SUBSET Nat, IsFiniteSet(S), NEW seed, DrawsInRange(seed, Cardinality(S)),
         NEW v \in S
  PROVE  /\ StepOf(S, seed, v) \in Nat
         /\ \A u \in S : u # v => StepOf(S, seed, u) # StepOf(S, seed, v)
<1> DEFINE n == Cardinality(S)
           steps == [i \in 1..n |-> i - 1]
           p == shuffle(steps, seed)
<1>1. n \in Nat
  BY FS_CardinalityType
<1> HIDE DEF n
<1>2. steps \in Arrangements(n, Nat)
  <2>1. steps \in [1..n -> Nat]
    BY <1>1
  <2>2. \A i, j \in 1..n : steps[i] = steps[j] => i = j
    BY <1>1
  <2> QED
    BY <2>1, <2>2 DEF Arrangements
<1>3. p \in Arrangements(n, Nat)
  <2>1. DrawsInRange(seed, n)
    BY DEF n
  <2> HIDE DEF steps
  <2> QED
    BY <1>1, <1>2, <2>1, ShuffleKeeps
<1>4. \A x : StepOf(S, seed, x) = p[Before(S, x) + 1]
  BY DEF StepOf, n
<1> HIDE DEF p
<1>5. p \in [1..n -> Nat] /\ \A i, j \in 1..n : p[i] = p[j] => i = j
  BY <1>3 DEF Arrangements
<1>6. ASSUME NEW x \in S PROVE Before(S, x) + 1 \in 1..n /\ \A y \in S : y < x => Before(S, y) < Before(S, x)
  BY BeforeFacts DEF n
<1>7. ASSUME NEW u \in S, u # v PROVE Before(S, u) + 1 # Before(S, v) + 1
  <2>1. u < v \/ v < u
    BY <1>7
  <2>2. Before(S, u) + 1 \in 1..n /\ Before(S, v) + 1 \in 1..n
    BY <1>6
  <2>3. Before(S, u) < Before(S, v) \/ Before(S, v) < Before(S, u)
    BY <1>6, <2>1
  <2>4. Before(S, u) \in Int /\ Before(S, v) \in Int
    BY BeforeFacts, FS_CardinalityType, FS_Subset DEF Before
  <2> QED
    BY <2>3, <2>4
<1> QED
  BY <1>4, <1>5, <1>6, <1>7

----------------------------------------------------------------------------
(* The back-off. *)

Delays == {0, BACKOFF_TIME_OF_INITIAL, LORENTZ_BACKOFF_TIME_OF_INITIAL}

LEMMA ProductFacts ==
  /\ \A a, w \in Nat : a * w \in Nat
  /\ \A a, b \in Nat, w \in Nat \ {0} : a < b => a * w + w <= b * w
<1>1. \A a, w \in Nat : a * w \in Nat
  OBVIOUS
<1>2. ASSUME NEW a \in Nat, NEW b \in Nat, NEW w \in Nat \ {0}, a < b PROVE a * w + w <= b * w
  <2> DEFINE d == b - a - 1
  <2>1. d \in Nat /\ b = a + 1 + d
    BY <1>2
  <2> HIDE DEF d
  <2>2. b * w = a * w + w + d * w
    BY <2>1
  <2>3. d * w \in Nat /\ a * w \in Nat
    BY <1>1, <2>1
  <2> QED
    BY <2>2, <2>3
<1> QED
  BY <1>1, <1>2

\* BackOffOfStep: a later step is later by more than three lags, and the initial
\* delay comes on top.
LEMMA BackOffGrows ==
  ASSUME NEW d \in Delays, NEW lorentz \in BOOLEAN, NEW a \in Nat
  PROVE  /\ BackOffOfStep(d, a, lorentz) \in Nat
         /\ BackOffOfStep(d, a, lorentz) >= d
         /\ \A b \in Nat : a < b => BackOffOfStep(d, a, lorentz) + 3 * Lag < BackOffOfStep(d, b, lorentz)
<1> DEFINE w == BACKOFF_TIME_OF_WIGGLE
           l == LORENTZ_BACKOFF_TIME_OF_INITIAL
<1>1. w \in Nat \ {0} /\ l \in Nat \ {0} /\ d \in Nat /\ Lag \in Nat
  BY BlockTimeConstants, ProposalConstants DEF Delays
<1>2. 3 * Lag < w /\ 3 * Lag < l
  BY Promptness
<1> HIDE DEF w, l
<1>3. a * w \in Nat /\ (a # 0 => (a - 1) * w \in Nat)
  BY <1>1, ProductFacts
<1>4. ASSUME NEW b \in Nat, a < b
      PROVE  BackOffOfStep(d, a, lorentz) + 3 * Lag < BackOffOfStep(d, b, lorentz)
  <2>1. a * w + w <= b * w /\ a * w \in Nat /\ b * w \in Nat
    BY <1>1, <1>4, ProductFacts
  <2>2. CASE d = 0 /\ lorentz
    <3>1. b # 0 /\ b - 1 \in Nat /\ (b - 1) * w \in Nat
      BY <1>1, <1>4, ProductFacts
    <3>2. BackOffOfStep(d, b, lorentz) = l + (b - 1) * w
      BY <2>2, <3>1 DEF BackOffOfStep, l, w
    <3>3. CASE a = 0
      <4>1. BackOffOfStep(d, a, lorentz) = 0
        BY <2>2, <3>3 DEF BackOffOfStep
      <4> QED
        BY <1>1, <1>2, <3>1, <3>2, <4>1
    <3>4. CASE a # 0
      <4>1. BackOffOfStep(d, a, lorentz) = l + (a - 1) * w
        BY <2>2, <3>4 DEF BackOffOfStep, l, w
      <4>2. (a - 1) * w + w <= (b - 1) * w /\ (a - 1) * w \in Nat
        <5>1. a - 1 \in Nat /\ a - 1 < b - 1
          BY <1>4, <3>4
        <5> QED
          BY <1>1, <3>1, <5>1, ProductFacts
      <4> QED
        BY <1>1, <1>2, <3>1, <3>2, <4>1, <4>2
    <3> QED
      BY <3>3, <3>4
  <2>3. CASE ~(d = 0 /\ lorentz)
    <3>1. BackOffOfStep(d, a, lorentz) = d + a * w /\ BackOffOfStep(d, b, lorentz) = d + b * w
      BY <2>3 DEF BackOffOfStep, w
    <3> QED
      BY <1>1, <1>2, <2>1, <3>1
  <2> QED
    BY <2>2, <2>3
<1>5. BackOffOfStep(d, a, lorentz) \in Nat /\ BackOffOfStep(d, a, lorentz) >= d
  <2>1. CASE d = 0 /\ lorentz
    <3>1. BackOffOfStep(d, a, lorentz) = IF a = 0 THEN 0 ELSE l + (a - 1) * w
      BY <2>1 DEF BackOffOfStep, l, w
    <3> DEFINE m == (a - 1) * w
    <3>2. a # 0 => m \in Nat
      BY <1>3
    <3> HIDE DEF m
    <3>3. BackOffOfStep(d, a, lorentz) = IF a = 0 THEN 0 ELSE l + m
      BY <3>1 DEF m
    <3>4. BackOffOfStep(d, a, lorentz) \in Nat
      BY <1>1, <3>2, <3>3
    <3>5. d = 0
      BY <2>1
    <3> QED
      BY <3>4, <3>5
  <2>2. CASE ~(d = 0 /\ lorentz)
    <3>1. BackOffOfStep(d, a, lorentz) = d + a * w
      BY <2>2 DEF BackOffOfStep, w
    <3> QED
      BY <1>1, <1>3, <3>1
  <2> QED
    BY <2>1, <2>2
<1> QED
  BY <1>4, <1>5

\* The snapshot of a head on which the next block is being made: every validator is
\* still there, and a block of the behaviour is left to make.
RacedOn(s, first) ==
  /\ SoundSnapshot(s)
  /\ s.validators = Addresses
  /\ first \in Starts
  /\ s.turn_length = first.turn_length
  /\ first.block_number <= s.block_number
  /\ s.block_number < first.block_number + MaxBlocks

LEMMA QuotientFacts ==
  ASSUME NEW n \in Nat, NEW t \in Nat \ {0}
  PROVE  n \div t \in Nat /\ n \div t <= n
<1> DEFINE q == n \div t
<1>1. q \in Nat /\ q * t <= n
  OBVIOUS
<1> HIDE DEF q
<1>2. q <= q * t
  <2>1. PICK d \in Nat : t = 1 + d
    <3>1. t - 1 \in Nat /\ t = 1 + (t - 1)
      OBVIOUS
    <3> QED
      BY <3>1
  <2>2. q * t = q + q * d /\ q * d \in Nat
    BY <1>1, <2>1
  <2> QED
    BY <1>1, <2>2
<1>3. q <= n
  BY <1>1, <1>2
<1> QED
  BY <1>1, <1>3 DEF q

LEMMA SeedsDraw ==
  ASSUME NEW s, NEW first, RacedOn(s, first), NEW bohr \in BOOLEAN, NEW S \in SUBSET Addresses
  PROVE  /\ IsFiniteSet(S)
         /\ DrawsInRange(RngSeed(s, s.block_number + 1, bohr), Cardinality(S))
<1> DEFINE seed == RngSeed(s, s.block_number + 1, bohr)
           N == Cardinality(Addresses)
           last == first.block_number + MaxBlocks
<1>1. IsFiniteSet(Addresses) /\ IsFiniteSet(S)
  BY SnapshotConstants, FS_Subset
<1>2. N \in Nat /\ Cardinality(S) \in Nat /\ Cardinality(S) <= N
  BY <1>1, FS_CardinalityType, FS_Subset
<1>3. s.block_number \in Nat /\ s.turn_length \in Nat \ {0} /\ first.block_number \in Nat /\ MaxBlocks \in Nat
  BY ProposalConstants DEF RacedOn, SoundSnapshot, Snapshots
<1>4. s.block_number + 1 <= last /\ last \in Nat
  BY <1>3 DEF RacedOn
<1>5. seed \in 0..last
  <2>1. (s.block_number + 1) \div s.turn_length \in Nat /\ (s.block_number + 1) \div s.turn_length <= s.block_number + 1
    BY <1>3, QuotientFacts
  <2>2. seed = (s.block_number + 1) \div s.turn_length \/ seed = s.block_number
    BY DEF RngSeed
  <2> HIDE DEF seed, last
  <2> QED
    BY <1>3, <1>4, <2>1, <2>2
<1>6. first \in Starts
  BY DEF RacedOn
<1>7. \A k, i \in 1..N : int31n(seed, k, i) \in 0..(i - 1)
  <2> HIDE DEF seed
  <2> QED
    BY <1>5, <1>6, DrawsBelow, Zenon
<1> HIDE DEF seed, N
<1>8. \A k, i \in 1..Cardinality(S) : int31n(seed, k, i) \in 0..(i - 1)
  BY <1>2, <1>7
<1> QED
  BY <1>1, <1>8 DEF DrawsInRange, seed

\* Times that are a number of seconds.
Whole(t) == \E k \in Nat : t = 1000 * k

LEMMA WholeZero == Whole(0)
<1> QED
  BY DEF Whole

LEMMA WholeMultiple ==
  ASSUME NEW t \in Nat, t % 1000 = 0
  PROVE  Whole(t)
<1>1. t \div 1000 \in Nat /\ t = 1000 * (t \div 1000)
  OBVIOUS
<1> QED
  BY <1>1 DEF Whole

LEMMA WholeSum ==
  ASSUME NEW t, NEW u, Whole(t), Whole(u)
  PROVE  Whole(t + u)
<1>1. PICK j \in Nat : t = 1000 * j
  BY DEF Whole
<1>2. PICK k \in Nat : u = 1000 * k
  BY DEF Whole
<1>3. t + u = 1000 * (j + k) /\ j + k \in Nat
  BY <1>1, <1>2
<1> QED
  BY <1>3 DEF Whole

LEMMA WholeProduct ==
  ASSUME NEW a \in Nat, NEW t, Whole(t)
  PROVE  Whole(a * t)
<1>1. PICK k \in Nat : t = 1000 * k
  BY DEF Whole
<1>2. a * t = 1000 * (a * k) /\ a * k \in Nat
  BY <1>1
<1> QED
  BY <1>2 DEF Whole

\* A validator that may sign has no back-off in its turn, and else that of its step.
LEMMA BackOffForm ==
  ASSUME NEW s, s.validators = Addresses, NEW n, NEW bohr \in BOOLEAN,
         NEW v \in Addresses, ~SignRecently(s, v)
  PROVE  /\ v = InturnValidator(s) => back_off_time(s, n, v, bohr) = 0
         /\ v # InturnValidator(s) =>
              /\ v \in BackOffValidators(s, n, bohr)
              /\ back_off_time(s, n, v, bohr) =
                   BackOffOfStep(InitialDelay(s, n),
                                 StepOf(BackOffValidators(s, n, bohr), RngSeed(s, n, bohr), v),
                                 IsLorentz(s.block_number))
<1>1. v = InturnValidator(s) => back_off_time(s, n, v, bohr) = 0
  BY DEF back_off_time
<1>2. ASSUME v # InturnValidator(s) PROVE v \in BackOffValidators(s, n, bohr)
  BY <1>2 DEF BackOffValidators
<1>3. ASSUME v # InturnValidator(s)
      PROVE  back_off_time(s, n, v, bohr) =
               BackOffOfStep(InitialDelay(s, n),
                             StepOf(BackOffValidators(s, n, bohr), RngSeed(s, n, bohr), v),
                             IsLorentz(s.block_number))
  BY <1>2, <1>3, Zenon DEF back_off_time, StepOf, Before
<1> QED
  BY <1>1, <1>2, <1>3

\* The validators that share the steps have different ones.
LEMMA RaceSteps ==
  ASSUME NEW s, NEW first, RacedOn(s, first), NEW bohr \in BOOLEAN
  PROVE  LET S == BackOffValidators(s, s.block_number + 1, bohr)
             seed == RngSeed(s, s.block_number + 1, bohr)
         IN \A v \in S : /\ StepOf(S, seed, v) \in Nat
                         /\ \A u \in S : u # v => StepOf(S, seed, u) # StepOf(S, seed, v)
<1> DEFINE S == BackOffValidators(s, s.block_number + 1, bohr)
           seed == RngSeed(s, s.block_number + 1, bohr)
<1>1. S \in SUBSET Addresses
  BY DEF BackOffValidators, RacedOn
<1>2. Addresses \subseteq Nat
  BY ProposalConstants
<1>3. IsFiniteSet(S) /\ DrawsInRange(seed, Cardinality(S))
  <2> HIDE DEF S
  <2> QED
    BY <1>1, SeedsDraw DEF seed
<1>4. S \in SUBSET Nat
  BY <1>1, <1>2
<1> HIDE DEF S, seed
<1>5. \A v \in S : /\ StepOf(S, seed, v) \in Nat
                   /\ \A u \in S : u # v => StepOf(S, seed, u) # StepOf(S, seed, v)
  BY <1>3, <1>4, StepsDiffer
<1> QED
  BY <1>5 DEF S, seed

LEMMA DelayFacts ==
  ASSUME NEW s, NEW n
  PROVE  /\ InitialDelay(s, n) \in Delays
         /\ ~SignRecently(s, InturnValidator(s)) => InitialDelay(s, n) # 0 /\ 3 * Lag < InitialDelay(s, n)
         /\ ~IsLorentz(s.block_number) => Whole(InitialDelay(s, n))
<1>1. /\ BACKOFF_TIME_OF_INITIAL \in Nat \ {0} /\ LORENTZ_BACKOFF_TIME_OF_INITIAL \in Nat \ {0}
      /\ 3 * Lag < BACKOFF_TIME_OF_INITIAL /\ 3 * Lag < LORENTZ_BACKOFF_TIME_OF_INITIAL
  BY BlockTimeConstants, Promptness
<1>2. Whole(0) /\ Whole(BACKOFF_TIME_OF_INITIAL)
  BY <1>1, WholeZero, WholeMultiple, WholeSeconds
<1> QED
  BY <1>1, <1>2 DEF InitialDelay, Delays

\* The back-off is a time, and before Lorentz whole seconds.
LEMMA BackOffTyped ==
  ASSUME NEW s, NEW first, RacedOn(s, first), NEW bohr \in BOOLEAN,
         NEW v \in Addresses, ~SignRecently(s, v)
  PROVE  /\ back_off_time(s, s.block_number + 1, v, bohr) \in Nat
         /\ ~IsLorentz(s.block_number) => Whole(back_off_time(s, s.block_number + 1, v, bohr))
<1> DEFINE n == s.block_number + 1
           S == BackOffValidators(s, n, bohr)
           d == InitialDelay(s, n)
           a == StepOf(S, RngSeed(s, n, bohr), v)
           l == IsLorentz(s.block_number)
           back == back_off_time(s, n, v, bohr)
<1>1. /\ v = InturnValidator(s) => back = 0
      /\ v # InturnValidator(s) => v \in S /\ back = BackOffOfStep(d, a, l)
  BY BackOffForm DEF RacedOn
<1>2. CASE v = InturnValidator(s)
  BY <1>1, <1>2, WholeZero
<1>3. CASE v # InturnValidator(s)
  <2>1. a \in Nat
    BY <1>1, <1>3, RaceSteps
  <2>2. d \in Delays /\ (~l => Whole(d)) /\ l \in BOOLEAN
    BY DelayFacts DEF IsLorentz
  <2>3. back = BackOffOfStep(d, a, l)
    BY <1>1, <1>3
  <2>4. Whole(BACKOFF_TIME_OF_WIGGLE)
    BY WholeMultiple, WholeSeconds, BlockTimeConstants
  <2> HIDE DEF back, a, d, l
  <2>5. back \in Nat
    BY <2>1, <2>2, <2>3, BackOffGrows
  <2>6. ASSUME ~l PROVE Whole(back)
    <3>1. back = d + a * BACKOFF_TIME_OF_WIGGLE
      BY <2>3, <2>6 DEF BackOffOfStep
    <3>2. Whole(a * BACKOFF_TIME_OF_WIGGLE) /\ Whole(d)
      BY <2>1, <2>2, <2>4, <2>6, WholeProduct
    <3>3. Whole(d + a * BACKOFF_TIME_OF_WIGGLE)
      BY <3>2, WholeSum
    <3> QED
      BY <3>1, <3>3
  <2>7. back \in Nat /\ (~l => Whole(back))
    BY <2>5, <2>6
  <2> QED
    BY <2>7 DEF back, l
<1> QED
  BY <1>2, <1>3

\* back_off_time keeps the validators apart: the one in turn from everybody else,
\* and the others from each other.
LEMMA BackOffApart ==
  ASSUME NEW s, NEW first, RacedOn(s, first), NEW bohr \in BOOLEAN,
         NEW u \in Addresses, ~SignRecently(s, u), NEW v \in Addresses, ~SignRecently(s, v), u # v
  PROVE  LET x == back_off_time(s, s.block_number + 1, u, bohr)
             y == back_off_time(s, s.block_number + 1, v, bohr)
         IN x + 3 * Lag < y \/ y + 3 * Lag < x
<1> DEFINE n == s.block_number + 1
           S == BackOffValidators(s, n, bohr)
           d == InitialDelay(s, n)
           a(w) == StepOf(S, RngSeed(s, n, bohr), w)
           l == IsLorentz(s.block_number)
           back(w) == back_off_time(s, n, w, bohr)
           May(w) == w \in Addresses /\ ~SignRecently(s, w)
<1>1. ASSUME NEW w, May(w)
      PROVE  /\ w = InturnValidator(s) => back(w) = 0
             /\ w # InturnValidator(s) => w \in S /\ back(w) = BackOffOfStep(d, a(w), l)
  BY <1>1, BackOffForm DEF RacedOn
<1>2. \A w \in S : a(w) \in Nat /\ \A x \in S : x # w => a(x) # a(w)
  BY RaceSteps
<1>3. d \in Delays /\ l \in BOOLEAN /\ (~SignRecently(s, InturnValidator(s)) => 3 * Lag < d)
  BY DelayFacts DEF IsLorentz
<1>4. May(u) /\ May(v)
  OBVIOUS
<1>5. d \in Nat /\ Lag \in Nat
  BY <1>3, BlockTimeConstants, ProposalConstants DEF Delays
<1> HIDE DEF S, d, a, l, back
<1>6. ASSUME NEW w, NEW x, May(w), May(x), w # x, w = InturnValidator(s)
      PROVE  back(w) + 3 * Lag < back(x)
  <2>1. back(w) = 0 /\ x \in S /\ back(x) = BackOffOfStep(d, a(x), l)
    BY <1>1, <1>6
  <2>2. 3 * Lag < d
    BY <1>3, <1>6
  <2>3. back(x) \in Nat /\ back(x) >= d
    BY <1>2, <1>3, <2>1, BackOffGrows
  <2> QED
    BY <1>5, <2>1, <2>2, <2>3
<1>7. ASSUME u # InturnValidator(s), v # InturnValidator(s)
      PROVE  back(u) + 3 * Lag < back(v) \/ back(v) + 3 * Lag < back(u)
  <2>1. /\ u \in S /\ back(u) = BackOffOfStep(d, a(u), l)
        /\ v \in S /\ back(v) = BackOffOfStep(d, a(v), l)
    BY <1>1, <1>4, <1>7
  <2>2. a(u) \in Nat /\ a(v) \in Nat /\ a(u) # a(v)
    BY <1>2, <2>1
  <2>3. a(u) < a(v) \/ a(v) < a(u)
    BY <2>2
  <2> QED
    BY <1>3, <2>1, <2>2, <2>3, BackOffGrows
<1>8. back(u) + 3 * Lag < back(v) \/ back(v) + 3 * Lag < back(u)
  BY <1>4, <1>6, <1>7
<1> QED
  BY <1>8 DEF back

----------------------------------------------------------------------------
(* The time of a header. *)

Headers == [timestamp : Nat, ms : Nat]

\* A header of block n: before Lorentz it has no milliseconds.
IsHeaderOf(h, n) == h \in Headers /\ (~IsLorentz(n) => h.ms = 0)

TimeOf(h) == calculate_millisecond_timestamp(h)

LEMMA TimeFacts ==
  ASSUME NEW n, NEW h, IsHeaderOf(h, n)
  PROVE  TimeOf(h) \in Nat /\ (~IsLorentz(n) => Whole(TimeOf(h)))
<1>1. h.timestamp \in Nat /\ h.ms \in Nat
  BY DEF IsHeaderOf, Headers
<1>2. TimeOf(h) = h.timestamp * 1000 + h.ms
  BY DEF TimeOf, calculate_millisecond_timestamp
<1>3. ASSUME ~IsLorentz(n) PROVE Whole(TimeOf(h))
  <2>1. TimeOf(h) = 1000 * h.timestamp
    BY <1>1, <1>2, <1>3 DEF IsHeaderOf
  <2> QED
    BY <1>1, <2>1 DEF Whole
<1> QED
  BY <1>1, <1>2, <1>3

\* The slot of a validator lies after the parent, and before Lorentz on a second.
LEMMA SlotFacts ==
  ASSUME NEW s, NEW first, RacedOn(s, first), NEW bohr \in BOOLEAN,
         NEW v \in Addresses, ~SignRecently(s, v), NEW t \in Nat
  PROVE  /\ Slot(s, t, v, bohr) \in Nat
         /\ Slot(s, t, v, bohr) > t
         /\ ~IsLorentz(s.block_number) /\ Whole(t) => Whole(Slot(s, t, v, bohr))
<1> DEFINE n == s.block_number + 1
           i == BlockInterval(s.block_number)
           b == IF IsRamanujan(n) THEN back_off_time(s, n, v, bohr) ELSE 0
           l == IsLorentz(s.block_number)
<1>1. Slot(s, t, v, bohr) = t + i + b
  BY DEF Slot
<1>2. b \in Nat /\ (~l => Whole(b))
  <2> DEFINE back == back_off_time(s, n, v, bohr)
  <2>1. back \in Nat /\ (~l => Whole(back))
    BY BackOffTyped
  <2>2. Whole(0)
    BY WholeZero
  <2> HIDE DEF back
  <2>3. b = IF IsRamanujan(n) THEN back ELSE 0
    BY DEF back
  <2> QED
    BY <2>1, <2>2, <2>3
<1>3. i \in Nat \ {0} /\ (~l => Whole(i))
  <2>1. /\ BlockIntervals["fermi"] \in Nat \ {0} /\ BlockIntervals["maxwell"] \in Nat \ {0}
        /\ BlockIntervals["lorentz"] \in Nat \ {0} /\ BlockIntervals["default"] \in Nat \ {0}
    BY BlockTimeConstants
  <2>2. Whole(BlockIntervals["default"])
    <3>1. BlockIntervals["default"] % 1000 = 0
      BY WholeSeconds
    <3> QED
      BY <2>1, <3>1, WholeMultiple
  <2>3. s.block_number \in Nat
    BY DEF RacedOn, SoundSnapshot, Snapshots
  <2>4. ASSUME ~l PROVE ~IsFermi(s.block_number) /\ ~IsMaxwell(s.block_number)
    BY <2>3, <2>4, ProposalConstants, SnapshotConstants DEF IsFermi, IsMaxwell, IsLorentz
  <2>5. ~l => i = BlockIntervals["default"]
    BY <2>4 DEF BlockInterval
  <2>6. i \in Nat \ {0}
    BY <2>1 DEF BlockInterval
  <2> QED
    BY <2>2, <2>5, <2>6
<1> HIDE DEF b, i, l
<1>4. t + i + b \in Nat /\ t + i + b > t
  BY <1>2, <1>3
<1>5. ASSUME ~l, Whole(t) PROVE Whole(t + i + b)
  <2>1. Whole(t + i)
    BY <1>3, <1>5, WholeSum
  <2> QED
    BY <1>2, <1>5, <2>1, WholeSum
<1> QED
  BY <1>1, <1>4, <1>5 DEF l

LEMMA CeilFacts ==
  ASSUME NEW t \in Nat
  PROVE  CeilTo(t, MILLISECONDS_UNIT) \in Nat /\ CeilTo(t, MILLISECONDS_UNIT) >= t
<1> DEFINE u == MILLISECONDS_UNIT
           x == t + u - 1
           q == x \div u
<1>1. u \in Nat \ {0}
  BY BlockTimeConstants
<1> HIDE DEF u
<1>2. x \in Nat
  BY <1>1
<1> HIDE DEF x
<1>3. q \in Nat /\ x < q * u + u
  BY <1>1, <1>2
<1> HIDE DEF q
<1>4. q * u \in Nat
  BY <1>1, <1>3, ProductFacts
<1>5. q * u >= t
  BY <1>1, <1>3, <1>4 DEF x
<1> QED
  BY <1>4, <1>5 DEF CeilTo, q, x, u

\* prepare_timestamp: the header is not before the slot it was made for, although
\* before Lorentz it leaves the milliseconds out, and in time it is the slot.
LEMMA HeaderFacts ==
  ASSUME NEW s, NEW first, RacedOn(s, first), NEW bohr \in BOOLEAN,
         NEW v \in Addresses, ~SignRecently(s, v), NEW t \in Nat, NEW present \in Nat,
         ~IsLorentz(s.block_number) => Whole(t)
  PROVE  LET n == s.block_number + 1
             h == prepare_timestamp(n, block_time(s, t, v, bohr, present))
             slot == Slot(s, t, v, bohr)
         IN /\ IsHeaderOf(h, n)
            /\ slot \in Nat /\ slot > t
            /\ TimeOf(h) >= slot
            /\ ~(slot < present) => TimeOf(h) <= slot
<1> DEFINE n == s.block_number + 1
           slot == Slot(s, t, v, bohr)
           bt == block_time(s, t, v, bohr, present)
           h == prepare_timestamp(n, bt)
<1>1. slot \in Nat /\ slot > t /\ (~IsLorentz(s.block_number) => Whole(slot))
  BY SlotFacts
<1>2. bt = IF slot < present THEN CeilTo(present, MILLISECONDS_UNIT) ELSE slot
  BY DEF block_time
<1> HIDE DEF slot, bt
<1>3. bt \in Nat /\ bt >= slot /\ (~(slot < present) => bt = slot)
  BY <1>1, <1>2, CeilFacts
<1>4. h.timestamp = bt \div 1000 /\ h.ms = (IF IsLorentz(n) THEN bt % 1000 ELSE 0)
  BY DEF prepare_timestamp
<1>5. h = [timestamp |-> bt \div 1000, ms |-> IF IsLorentz(n) THEN bt % 1000 ELSE 0]
  BY DEF prepare_timestamp
<1>6. bt \div 1000 \in Nat /\ bt % 1000 \in Nat /\ (bt \div 1000) * 1000 + (bt % 1000) = bt
  <2>1. \A x \in Nat : x \div 1000 \in Nat /\ x % 1000 \in Nat /\ (x \div 1000) * 1000 + (x % 1000) = x
    OBVIOUS
  <2> QED
    BY <1>3, <2>1
<1> HIDE DEF h, n
<1>7. IsHeaderOf(h, n)
  BY <1>4, <1>5, <1>6 DEF IsHeaderOf, Headers
<1>8. TimeOf(h) = h.timestamp * 1000 + h.ms
  BY DEF TimeOf, calculate_millisecond_timestamp
<1>9. CASE IsLorentz(n)
  <2>1. TimeOf(h) = bt
    <3>1. h.timestamp = bt \div 1000 /\ h.ms = bt % 1000
      BY <1>4, <1>9
    <3>2. TimeOf(h) = (bt \div 1000) * 1000 + (bt % 1000)
      BY <1>8, <3>1
    <3> QED
      BY <1>6, <3>2
  <2> QED
    BY <1>1, <1>3, <1>7, <2>1 DEF slot, n, h, bt
<1>10. CASE ~IsLorentz(n)
  <2>1. TimeOf(h) = (bt \div 1000) * 1000
    BY <1>4, <1>6, <1>8, <1>10
  <2>2. Whole(slot)
    <3>1. s.block_number \in Nat
      BY DEF RacedOn, SoundSnapshot, Snapshots
    <3>2. ~IsLorentz(s.block_number)
      BY <1>10, <3>1, SnapshotConstants DEF IsLorentz, n
    <3> QED
      BY <1>1, <3>2
  <2>3. PICK k \in Nat : slot = 1000 * k
    BY <2>2 DEF Whole
  <2>4. (bt \div 1000) * 1000 >= slot /\ (bt \div 1000) * 1000 <= bt
    BY <1>3, <2>3
  <2>5. TimeOf(h) >= slot /\ (~(slot < present) => TimeOf(h) <= slot)
    BY <1>3, <2>1, <2>4
  <2> QED
    BY <1>1, <1>7, <2>5 DEF slot, n, h, bt
<1> QED
  BY <1>9, <1>10

----------------------------------------------------------------------------
(* What the race keeps. *)

Works == [at : {"building", "held"}, header : Headers, due : Nat, late : BOOLEAN, provisional : BOOLEAN]

\* The slot of v on a head, as the others work it out.
OwnSlot(s, hd, v) == Slot(s, TimeOf(hd), v, IsBohr(s.block_number + 1))

\* Work for the validator's own slot that it began in time.
OnTime(w) == ~w.late /\ ~w.provisional

\* Where there are slots.
HasSlots(s) == IsRamanujan(s.block_number + 1)

\* What a header promises from the moment it is made.
Made(s, hd, v, w) ==
  /\ w \in Works
  /\ v \in s.validators /\ ~SignRecently(s, v)
  /\ IsHeaderOf(w.header, s.block_number + 1)
  /\ TimeOf(w.header) > TimeOf(hd)
  /\ ~w.provisional => TimeOf(w.header) >= OwnSlot(s, hd, v)
  /\ OnTime(w) => TimeOf(w.header) <= OwnSlot(s, hd, v)

\* When the next step with it is due.
Due(s, hd, v, w, present) ==
  /\ present <= w.due + Lag
  /\ w.at = "building" /\ OnTime(w) => w.due <= OwnSlot(s, hd, v)
  /\ w.at = "held" => /\ TimeOf(w.header) <= w.due
                      /\ OnTime(w) /\ HasSlots(s) => w.due <= OwnSlot(s, hd, v) + Lag

\* When it was offered; `at` is the time of the first block offered.
Announced(s, hd, v, w, present, at) ==
  /\ TimeOf(w.header) <= present
  /\ OnTime(w) /\ HasSlots(s) => at <= OwnSlot(s, hd, v) + 2 * Lag

\* The head and its snapshot.
RaceTip ==
  /\ start \in Starts
  /\ SoundSnapshot(tip)
  /\ tip.validators = Addresses
  /\ tip.turn_length = start.turn_length
  /\ start.block_number <= tip.block_number
  /\ tip.block_number <= start.block_number + MaxBlocks
  /\ IsHeaderOf(head, tip.block_number)
  /\ now \in Nat /\ offeredAt \in Nat /\ offeredAt <= now

RaceWork ==
  /\ work \in [Addresses -> {Idle, Sent} \cup Works]
  /\ \A v \in Addresses : work[v] \in Works =>
       /\ v \in up /\ ~RaceOver
       /\ Made(tip, head, v, work[v])
       /\ Due(tip, head, v, work[v], now)

RaceOffers ==
  /\ DOMAIN offered \subseteq Addresses
  /\ offered # <<>> => now <= offeredAt + Lag
  /\ \A v \in DOMAIN offered :
       /\ ~RaceOver
       /\ Made(tip, head, v, offered[v])
       /\ Announced(tip, head, v, offered[v], now, offeredAt)

RaceInv == RaceTip /\ RaceWork /\ RaceOffers /\ OwnTimeAccepted

LEMMA WorkForm ==
  ASSUME NEW w \in Works
  PROVE  /\ w.at \in {"building", "held"} /\ w.header \in Headers /\ w.due \in Nat
         /\ w.late \in BOOLEAN /\ w.provisional \in BOOLEAN
         /\ w = [at |-> w.at, header |-> w.header, due |-> w.due, late |-> w.late,
                 provisional |-> w.provisional]
<1> QED
  BY DEF Works

LEMMA IdleIsNoWork == Idle \notin Works /\ Sent \notin Works
<1>1. \A w \in Works : w.at \in {"building", "held"}
  BY DEF Works
<1>2. Idle.at = "idle" /\ Sent.at = "sent"
  BY DEF Idle, Sent
<1> QED
  BY <1>1, <1>2

\* How long a block is held back and how long it is built.
LEMMA HoldFacts ==
  ASSUME NEW s, NEW h, TimeOf(h) \in Nat, NEW difficulty, NEW present \in Nat, NEW random \in Nat
  PROVE  LET d == delay_for_ramanujan(s, h, difficulty, present, random)
         IN /\ d \in Nat
            /\ TimeOf(h) <= present + d
            /\ HasSlots(s) => present + d = (IF TimeOf(h) > present THEN TimeOf(h) ELSE present)
<1> DEFINE t == TimeOf(h)
           early == IF t > present THEN t - present ELSE 0
           d == delay_for_ramanujan(s, h, difficulty, present, random)
           f == FIXED_BACKOFF_TIME_BEFORE_FORK_MILLIS
<1>1. f \in Nat
  BY BlockTimeConstants
<1>2. d = early \/ (~HasSlots(s) /\ d = early + f + random)
  BY DEF delay_for_ramanujan, HasSlots, TimeOf
<1> HIDE DEF d, t, f
<1>3. early \in Nat /\ t <= present + early
      /\ present + early = (IF t > present THEN t ELSE present)
  BY DEF t
<1> HIDE DEF early
<1>4. d \in Nat /\ t <= present + d /\ (HasSlots(s) => present + d = (IF t > present THEN t ELSE present))
  <2>1. t \in Nat
    BY DEF t
  <2> QED
    BY <1>1, <1>2, <1>3, <2>1
<1> QED
  BY <1>4 DEF d, t

LEMMA BuildFacts ==
  ASSUME NEW s, s.block_number \in Nat, NEW h, TimeOf(h) \in Nat, NEW present \in Nat
  PROVE  LET d == delay_for_mining(s, h, present, DELAY_LEFT_OVER)
         IN /\ d \in Nat
            /\ present + d <= (IF TimeOf(h) > present THEN TimeOf(h) ELSE present)
<1> DEFINE t == TimeOf(h)
           period == BlockInterval(s.block_number)
           delay == delay_for_ramanujan(s, h, 0, present, 0)
           over == DELAY_LEFT_OVER
           rest == IF over >= period THEN delay ELSE IF over >= delay THEN 0 ELSE delay - over
           cap == IF last_block_in_one_turn(s, s.block_number + 1) THEN period \div 2 ELSE period
           d == delay_for_mining(s, h, present, DELAY_LEFT_OVER)
<1>1. delay = IF t > present THEN t - present ELSE 0
  BY DEF delay_for_ramanujan, TimeOf, DIFF_NOTURN
<1>2. over \in Nat
  BY ProposalConstants
<1>3. period \in Nat
  BY BlockTimeConstants DEF BlockInterval
<1>4. d = IF rest > cap THEN cap ELSE rest
  BY DEF delay_for_mining
<1>5. t \in Nat
  OBVIOUS
<1> HIDE DEF d, delay, period, over, t
<1>6. delay \in Nat /\ present + delay = (IF t > present THEN t ELSE present)
  BY <1>1, <1>5
<1>7. cap \in Nat
  BY <1>3
<1> HIDE DEF cap
<1>8. rest \in Nat /\ rest <= delay
  BY <1>2, <1>3, <1>6
<1> HIDE DEF rest
<1>9. d \in Nat /\ d <= delay
  BY <1>4, <1>6, <1>7, <1>8
<1>10. d \in Nat /\ present + d <= (IF t > present THEN t ELSE present)
  <2>1. present + d <= present + delay
    BY <1>6, <1>9
  <2> QED
    BY <1>6, <1>9, <2>1
<1> QED
  BY <1>10 DEF d, t

LEMMA OwnSlotFacts ==
  ASSUME NEW s, NEW first, RacedOn(s, first), NEW hd, IsHeaderOf(hd, s.block_number),
         NEW v \in Addresses, ~SignRecently(s, v)
  PROVE  OwnSlot(s, hd, v) \in Nat /\ OwnSlot(s, hd, v) > TimeOf(hd) /\ TimeOf(hd) \in Nat
<1>1. TimeOf(hd) \in Nat
  BY TimeFacts
<1>2. IsBohr(s.block_number + 1) \in BOOLEAN
  BY DEF IsBohr
<1> DEFINE t == TimeOf(hd)
           b == IsBohr(s.block_number + 1)
<1> HIDE DEF t, b
<1>3. Slot(s, t, v, b) \in Nat /\ Slot(s, t, v, b) > t
  BY <1>1, <1>2, SlotFacts DEF t, b
<1> QED
  BY <1>1, <1>3 DEF OwnSlot, t, b

\* prepare_new_attributes and BscPayloadJob::new.
LEMMA PrepareMakes ==
  ASSUME NEW s, NEW first, RacedOn(s, first), NEW hd, IsHeaderOf(hd, s.block_number),
         NEW v \in Addresses, ~SignRecently(s, v), NEW bohr \in BOOLEAN, NEW present \in Nat, NEW w,
         LET n == s.block_number + 1
             h == prepare_timestamp(n, block_time(s, TimeOf(hd), v, bohr, present))
         IN w = [at |-> "building", header |-> h,
                 due |-> present + delay_for_mining(s, h, present, DELAY_LEFT_OVER),
                 late |-> Slot(s, TimeOf(hd), v, bohr) < present, provisional |-> bohr # IsBohr(n)]
  PROVE  Made(s, hd, v, w) /\ Due(s, hd, v, w, present)
<1> DEFINE n == s.block_number + 1
           t == TimeOf(hd)
           slot == Slot(s, t, v, bohr)
           h == prepare_timestamp(n, block_time(s, t, v, bohr, present))
           d == delay_for_mining(s, h, present, DELAY_LEFT_OVER)
<1>1. t \in Nat /\ (~IsLorentz(s.block_number) => Whole(t))
  BY TimeFacts
<1> HIDE DEF t
<1>2. IsHeaderOf(h, n) /\ slot \in Nat /\ slot > t /\ TimeOf(h) >= slot
      /\ (~(slot < present) => TimeOf(h) <= slot)
  BY <1>1, HeaderFacts
<1>3. TimeOf(h) \in Nat
  BY <1>2, TimeFacts
<1>4. s.block_number \in Nat /\ Lag \in Nat
  BY ProposalConstants DEF RacedOn, SoundSnapshot, Snapshots
<1>5. w = [at |-> "building", header |-> h, due |-> present + d, late |-> slot < present,
           provisional |-> bohr # IsBohr(n)]
  BY Zenon DEF t
<1> HIDE DEF h, slot
<1>6. d \in Nat /\ present + d <= (IF TimeOf(h) > present THEN TimeOf(h) ELSE present)
  BY <1>3, <1>4, BuildFacts
<1> HIDE DEF d
<1>7. w.at = "building" /\ w.header = h /\ w.due = present + d
      /\ w.late = (slot < present) /\ w.provisional = (bohr # IsBohr(n))
  BY <1>5
<1>8. w \in Works
  BY <1>2, <1>5, <1>6 DEF Works, IsHeaderOf
<1>9. ~w.provisional => slot = OwnSlot(s, hd, v)
  BY <1>7 DEF OwnSlot, slot, t, n, IsBohr
<1> DEFINE own == OwnSlot(s, hd, v)
<1> HIDE DEF own
<1>10. ~w.provisional => slot = own
  BY <1>9 DEF own
<1>11. OnTime(w) => ~(slot < present) /\ ~w.provisional
  BY <1>7 DEF OnTime
<1>12. Made(s, hd, v, w)
  <2>1. TimeOf(w.header) > t /\ (~w.provisional => TimeOf(w.header) >= own)
        /\ (OnTime(w) => TimeOf(w.header) <= own)
    BY <1>1, <1>2, <1>3, <1>7, <1>10, <1>11
  <2>2. IsHeaderOf(w.header, s.block_number + 1)
    BY <1>2, <1>7
  <2>3. v \in s.validators
    BY DEF RacedOn
  <2> QED
    BY <1>8, <2>1, <2>2, <2>3 DEF Made, own, t
<1>13. Due(s, hd, v, w, present)
  <2>1. present <= w.due + Lag
    BY <1>4, <1>6, <1>7
  <2>2. OnTime(w) => w.due <= own
    BY <1>1, <1>2, <1>3, <1>6, <1>7, <1>10, <1>11
  <2>3. w.at # "held"
    BY <1>7
  <2> QED
    BY <2>1, <2>2, <2>3 DEF Due, own
<1> QED
  BY <1>12, <1>13

\* The job returns and the block is held back.
LEMMA BuiltHolds ==
  ASSUME NEW s, NEW first, RacedOn(s, first), NEW hd, IsHeaderOf(hd, s.block_number),
         NEW v \in Addresses, NEW w, NEW present \in Nat, Made(s, hd, v, w), Due(s, hd, v, w, present),
         w.at = "building", NEW random \in Nat, NEW difficulty, NEW x,
         x = [w EXCEPT !.at = "held",
                       !.due = present + delay_for_ramanujan(s, w.header, difficulty, present, random)]
  PROVE  Made(s, hd, v, x) /\ Due(s, hd, v, x, present)
<1> DEFINE d == delay_for_ramanujan(s, w.header, difficulty, present, random)
           own == OwnSlot(s, hd, v)
           t == TimeOf(w.header)
<1>1. w \in Works /\ t \in Nat
  BY TimeFacts DEF Made
<1>2. own \in Nat
  BY OwnSlotFacts DEF Made
<1>3. Lag \in Nat
  BY ProposalConstants
<1>4. d \in Nat /\ t <= present + d
      /\ (HasSlots(s) => present + d = (IF t > present THEN t ELSE present))
  BY <1>1, HoldFacts
<1>5. x = [w EXCEPT !.at = "held", !.due = present + d]
  OBVIOUS
<1> HIDE DEF d
<1>6. x \in Works /\ x.at = "held" /\ x.header = w.header /\ x.due = present + d
      /\ x.late = w.late /\ x.provisional = w.provisional
  <2> DEFINE e == present + d
  <2>1. e \in Nat
    BY <1>4
  <2>2. x = [w EXCEPT !.at = "held", !.due = e]
    BY <1>5
  <2> HIDE DEF e
  <2>3. /\ w \in [at : {"building", "held"}, header : Headers, due : Nat, late : BOOLEAN, provisional : BOOLEAN]
    BY <1>1 DEF Works
  <2>4. x \in Works /\ x.at = "held" /\ x.header = w.header /\ x.due = e
        /\ x.late = w.late /\ x.provisional = w.provisional
    BY <2>1, <2>2, <2>3 DEF Works
  <2> QED
    BY <2>4 DEF e
<1>7. OnTime(x) = OnTime(w) /\ x.header = w.header
  BY <1>6 DEF OnTime
<1>8. Made(s, hd, v, x)
  BY <1>6, <1>7 DEF Made
<1>9. Due(s, hd, v, x, present)
  <2>1. present <= x.due + Lag
    BY <1>3, <1>4, <1>6
  <2>2. TimeOf(x.header) <= x.due
    BY <1>4, <1>6
  <2>3. ASSUME OnTime(x), HasSlots(s) PROVE x.due <= own + Lag
    <3>1. w.due <= own /\ present <= w.due + Lag /\ t <= own /\ w.due \in Nat
      BY <1>1, <1>7, <2>3, WorkForm DEF Due, Made
    <3>2. x.due = IF t > present THEN t ELSE present
      BY <1>4, <1>6, <2>3
    <3> HIDE DEF own, t
    <3> QED
      BY <1>1, <1>2, <1>3, <3>1, <3>2
  <2>4. x.at # "building"
    BY <1>6
  <2> QED
    BY <2>1, <2>2, <2>3, <2>4 DEF Due
<1> QED
  BY <1>8, <1>9

\* The others take the block unless it was made for another slot, and a block they
\* take is offered within two lags of its slot.
LEMMA OfferTaken ==
  ASSUME NEW s, NEW first, RacedOn(s, first), NEW hd, IsHeaderOf(hd, s.block_number),
         NEW v \in Addresses, NEW w, NEW present \in Nat, Made(s, hd, v, w), Due(s, hd, v, w, present),
         w.at = "held", present >= w.due
  PROVE  /\ ~w.provisional => TimeAccepted(s, hd, w.header, v, present)
         /\ \A at \in Nat : at <= present => Announced(s, hd, v, w, present, at)
<1> DEFINE own == OwnSlot(s, hd, v)
           t == TimeOf(w.header)
           p == TimeOf(hd)
           n == s.block_number + 1
<1>1. w \in Works /\ t \in Nat /\ w.due \in Nat
  BY TimeFacts, WorkForm DEF Made
<1>2. own \in Nat /\ p \in Nat
  BY OwnSlotFacts DEF Made
<1>3. Lag \in Nat
  BY ProposalConstants
<1>4. t <= w.due /\ present <= w.due + Lag /\ (OnTime(w) /\ HasSlots(s) => w.due <= own + Lag)
  BY DEF Due
<1>5. t > p /\ (~w.provisional => t >= own)
  BY DEF Made
<1> HIDE DEF own, t, p
<1>6. t <= present
  BY <1>1, <1>4
<1>7. ASSUME ~w.provisional PROVE TimeAccepted(s, hd, w.header, v, present)
  <2>1. IsRamanujan(n) => own = p + BlockInterval(s.block_number) + back_off_time(s, n, v, IsBohr(n))
    BY DEF own, OwnSlot, Slot, p
  <2>2. t >= own
    BY <1>5, <1>7
  <2>3. IsRamanujan(n) => t >= p + BlockInterval(s.block_number) + back_off_time(s, n, v, IsBohr(n))
    BY <2>1, <2>2
  <2> QED
    BY <1>5, <1>6, <2>3, Zenon DEF TimeAccepted, t, p, n, TimeOf
<1>8. ASSUME NEW at \in Nat, at <= present PROVE Announced(s, hd, v, w, present, at)
  <2>1. ASSUME OnTime(w), HasSlots(s) PROVE at <= own + 2 * Lag
    <3>1. w.due <= own + Lag
      BY <1>4, <2>1
    <3> QED
      BY <1>1, <1>2, <1>3, <1>4, <1>8, <3>1
  <2> QED
    BY <1>6, <2>1 DEF Announced, own, t
<1> QED
  BY <1>7, <1>8

\* Two blocks that were begun in time are not both on offer.
LEMMA OffersApart ==
  ASSUME NEW s, NEW first, RacedOn(s, first), NEW hd, IsHeaderOf(hd, s.block_number), HasSlots(s),
         NEW present \in Nat, NEW at \in Nat, present <= at + Lag,
         NEW u \in Addresses, NEW x, Made(s, hd, u, x), Announced(s, hd, u, x, present, at), OnTime(x),
         NEW v \in Addresses, NEW y, Made(s, hd, v, y), Announced(s, hd, v, y, present, at), OnTime(y)
  PROVE  u = v
<1> SUFFICES ASSUME u # v PROVE FALSE
  OBVIOUS
<1> DEFINE n == s.block_number + 1
           b == IsBohr(n)
           base == TimeOf(hd) + BlockInterval(s.block_number)
           own(w) == OwnSlot(s, hd, w)
           back(w) == back_off_time(s, n, w, b)
<1>1. ~SignRecently(s, u) /\ ~SignRecently(s, v) /\ b \in BOOLEAN
  BY DEF Made, IsBohr
<1>2. own(u) \in Nat /\ own(v) \in Nat
  BY <1>1, OwnSlotFacts
<1>3. back(u) \in Nat /\ back(v) \in Nat
  BY <1>1, BackOffTyped
<1>4. back(u) + 3 * Lag < back(v) \/ back(v) + 3 * Lag < back(u)
  BY <1>1, BackOffApart
<1>5. own(u) = base + back(u) /\ own(v) = base + back(v)
  BY DEF OwnSlot, Slot, HasSlots
<1>6. base \in Nat
  <2>1. TimeOf(hd) \in Nat
    BY TimeFacts
  <2>2. BlockInterval(s.block_number) \in Nat
    BY BlockTimeConstants DEF BlockInterval
  <2> QED
    BY <2>1, <2>2
<1>7. /\ own(u) <= present /\ at <= own(u) + 2 * Lag
      /\ own(v) <= present /\ at <= own(v) + 2 * Lag
  <2>1. TimeOf(x.header) >= own(u) /\ TimeOf(x.header) <= present /\ at <= own(u) + 2 * Lag
    BY DEF Made, Announced, OnTime
  <2>2. TimeOf(y.header) >= own(v) /\ TimeOf(y.header) <= present /\ at <= own(v) + 2 * Lag
    BY DEF Made, Announced, OnTime
  <2>3. TimeOf(x.header) \in Nat /\ TimeOf(y.header) \in Nat
    BY TimeFacts DEF Made
  <2> HIDE DEF own
  <2> QED
    BY <1>2, <2>1, <2>2, <2>3
<1>8. Lag \in Nat
  BY ProposalConstants
<1> HIDE DEF own, back, base
<1> QED
  BY <1>2, <1>3, <1>4, <1>5, <1>6, <1>7, <1>8

\* Snapshot::apply on a block of a validator that may sign: no checkpoint is read, so
\* the validators stay, and the snapshot is again sound.
LEMMA TipMoves ==
  ASSUME NEW s, SoundSnapshot(s), NEW v \in Addresses, v \in s.validators, ~SignRecently(s, v), NEW x,
         x = Apply(s, v, NoAttestation, {}, 0)
  PROVE  /\ SoundSnapshot(x)
         /\ x.block_number = s.block_number + 1
         /\ x.validators = s.validators
         /\ x.turn_length = s.turn_length
<1> DEFINE n == s.block_number + 1
           R == s.recent_proposers
           votes == VotesAfter(s, NoAttestation)
           Q == RecentsAfter(s, v, votes.source)
           e == NextEpochNum(s.epoch_num, n)
           gone == s.block_number - MinerHistoryCheckLen(s)
           M == MoveWindow(s)
           I == Insert(M, n, v)
           F == {b \in DOMAIN I : b <= votes.source}
<1>1. /\ s \in Snapshots /\ IsFiniteSet(DOMAIN R) /\ R \in Histories
      /\ s.block_number \in Nat /\ s.epoch_num \in Nat \ {0} /\ s.vote_data \in Votes
      /\ s.turn_length \in Nat \ {0} /\ s.validators \in ValidatorSets
      /\ \A b \in DOMAIN R : b > 0
  BY DEF SoundSnapshot, Snapshots
<1>2. votes = s.vote_data
  BY DEF VotesAfter, UpdateAttestation
<1>3. x = [block_number |-> n, epoch_num |-> e, validators |-> s.validators,
           turn_length |-> s.turn_length, vote_data |-> votes, recent_proposers |-> Q]
  <2>1. MayPropose(Moved(s), v)
    BY ProposerAllowed
  <2>2. ~Installs(Q, n, s.epoch_num, {})
    BY DEF Installs
  <2> QED
    BY <1>1, <2>1, <2>2, ApplyForm, Zenon
<1>4. e \in Nat \ {0}
  BY <1>1, SnapshotConstants DEF NextEpochNum
<1>5. /\ M \in Histories /\ IsFiniteSet(DOMAIN M) /\ DOMAIN M = DOMAIN R \ {gone}
  BY <1>1, MovedFacts, Zenon
<1>6. /\ I \in Histories /\ IsFiniteSet(DOMAIN I) /\ DOMAIN I = DOMAIN M \cup {n}
  <2>1. n \in Nat /\ v \in Addresses \cup {ZeroAddress}
    BY <1>1
  <2> HIDE DEF n, M
  <2> QED
    BY <1>5, <2>1, InsertFacts
<1>7. Q = IF IsMaxwell(n) THEN Without(I, F) ELSE I
  BY DEF RecentsAfter, ForgetFinalized
<1>8. MinerHistoryCheckLen(s) \in Nat
  BY <1>1, LengthFacts
<1> HIDE DEF Q, I, F, M
<1>9. Q \in Histories /\ IsFiniteSet(DOMAIN Q) /\ DOMAIN Q \subseteq DOMAIN I
  <2>1. /\ Without(I, F) \in Histories /\ IsFiniteSet(DOMAIN Without(I, F))
        /\ DOMAIN Without(I, F) = DOMAIN I \ F
    BY <1>6, WithoutFacts
  <2> QED
    BY <1>6, <1>7, <2>1
<1>10. \A b \in DOMAIN Q : b = n \/ (b \in DOMAIN R /\ b # gone)
  BY <1>5, <1>6, <1>9
<1>11. DOMAIN R \subseteq Nat
  BY <1>1, HistoryFacts
<1> HIDE DEF e, votes
<1>12. /\ x.block_number = n /\ x.validators = s.validators /\ x.turn_length = s.turn_length
       /\ x.recent_proposers = Q
       /\ x \in Snapshots
  BY <1>1, <1>2, <1>3, <1>4, <1>9 DEF Snapshots
<1>13. MinerHistoryCheckLen(x) = MinerHistoryCheckLen(s)
  BY <1>12 DEF MinerHistoryCheckLen
<1>14. \A b \in DOMAIN Q : b > 0
  BY <1>1, <1>10
<1>15. ASSUME ~IsBohr(n)
       PROVE  s.turn_length = 1 /\ OnlyWindow(Q, n, MinerHistoryCheckLen(s))
  <2>1. ~IsBohr(s.block_number)
    BY <1>1, <1>15, SnapshotConstants DEF IsBohr
  <2>2. s.turn_length = 1 /\ \A b \in DOMAIN R : gone <= b /\ b <= s.block_number
    BY <2>1 DEF SoundSnapshot, OnlyWindow
  <2>3. \A b \in DOMAIN Q : n - MinerHistoryCheckLen(s) <= b /\ b <= n
    BY <1>1, <1>8, <1>10, <1>11, <2>2
  <2> QED
    BY <2>2, <2>3 DEF OnlyWindow
<1> HIDE DEF n
<1>16. SoundSnapshot(x)
  BY <1>9, <1>12, <1>13, <1>14, <1>15 DEF SoundSnapshot
<1> QED
  BY <1>12, <1>16 DEF n

----------------------------------------------------------------------------
(* The race. *)

LEMMA RaceStarts == RaceInit => RaceInv
<1> SUFFICES ASSUME RaceInit PROVE RaceInv
  OBVIOUS
<1> DEFINE g == GenesisSnapshot(Addresses, DEFAULT_EPOCH_LENGTH)
<1>1. start \in Starts /\ start \in [block_number : Nat, turn_length : Nat \ {0}]
      /\ (IsBohr(start.block_number) \/ start.turn_length = 1) /\ MaxBlocks \in Nat
  BY ProposalConstants DEF RaceInit
<1>2. tip = [g EXCEPT !.block_number = start.block_number, !.turn_length = start.turn_length]
  BY DEF RaceInit, Validators
<1>3. g = [block_number |-> 0, epoch_num |-> DEFAULT_EPOCH_LENGTH, validators |-> Addresses, turn_length |-> 1,
           vote_data |-> [source |-> 0, target |-> 0], recent_proposers |-> <<>>]
  BY SnapshotConstants DEF GenesisSnapshot
<1> HIDE DEF g
<1>4. tip = [block_number |-> start.block_number, epoch_num |-> DEFAULT_EPOCH_LENGTH, validators |-> Addresses,
             turn_length |-> start.turn_length, vote_data |-> [source |-> 0, target |-> 0],
             recent_proposers |-> <<>>]
  BY <1>2, <1>3
<1>5. DOMAIN <<>> = {} /\ IsFiniteSet({})
  BY FS_EmptySet
<1>6. <<>> \in Histories
  <2>1. <<>> \in [{} -> Addresses \cup {ZeroAddress}]
    BY <1>5
  <2> QED
    BY <2>1 DEF Histories
<1>7. SoundSnapshot(tip)
  <2>1. tip \in Snapshots
    <3>1. Addresses \in ValidatorSets /\ DEFAULT_EPOCH_LENGTH \in Nat \ {0}
      BY SnapshotConstants, ProposalConstants DEF ValidatorSets
    <3>2. [source |-> 0, target |-> 0] \in Votes
      BY DEF Votes
    <3> QED
      BY <1>1, <1>4, <1>6, <3>1, <3>2 DEF Snapshots
  <2>2. tip.recent_proposers = <<>> /\ tip.block_number = start.block_number /\ tip.turn_length = start.turn_length
    BY <1>4
  <2>3. DOMAIN tip.recent_proposers = {}
    BY <1>5, <2>2
  <2> QED
    BY <1>1, <1>5, <2>1, <2>2, <2>3 DEF SoundSnapshot, OnlyWindow
<1>8. RaceTip
  <2>1. tip.validators = Addresses /\ tip.block_number = start.block_number /\ tip.turn_length = start.turn_length
    BY <1>4
  <2>2. head \in Headers /\ head.ms = 0 /\ now = 0 /\ offeredAt = 0
    BY DEF RaceInit, Headers
  <2> QED
    BY <1>1, <1>7, <2>1, <2>2 DEF RaceTip, IsHeaderOf
<1>9. RaceWork
  <2>1. work = [v \in Addresses |-> Idle]
    BY DEF RaceInit, Validators
  <2> QED
    BY <2>1, IdleIsNoWork DEF RaceWork
<1>10. RaceOffers
  <2>1. offered = <<>> /\ DOMAIN offered = {}
    BY <1>5 DEF RaceInit
  <2> QED
    BY <2>1 DEF RaceOffers
<1>11. OwnTimeAccepted
  BY DEF RaceInit, OwnTimeAccepted
<1> QED
  BY <1>8, <1>9, <1>10, <1>11 DEF RaceInv

LEMMA RaceGoesOn ==
  ASSUME RaceTip, ~RaceOver
  PROVE  RacedOn(tip, start)
<1>1. tip.block_number \in Nat /\ start.block_number \in Nat /\ MaxBlocks \in Nat
  BY ProposalConstants DEF RaceTip, SoundSnapshot, Snapshots
<1> QED
  BY <1>1 DEF RaceTip, RaceOver, RacedOn

LEMMA TickKeeps ==
  ASSUME RaceInv, Tick
  PROVE  RaceInv'
<1>1. now' = now + Step /\ Step \in Nat /\ Lag \in Nat /\ now \in Nat /\ now' \in Nat /\ now <= now'
  BY ProposalConstants DEF Tick, RaceInv, RaceTip
<1>2. UNCHANGED <<tip, head, work, offered, seen, up, offeredAt, refused, start, stops>>
  BY DEF Tick
<1>3. RaceTip'
  BY <1>1, <1>2 DEF RaceInv, RaceTip
<1>4. RaceOver' = RaceOver
  BY <1>2 DEF RaceOver
<1>5. RaceWork'
  <2>1. work' \in [Addresses -> {Idle, Sent} \cup Works]
    BY <1>2 DEF RaceInv, RaceWork
  <2>2. ASSUME NEW v \in Addresses, work[v] \in Works
        PROVE  v \in up /\ ~RaceOver /\ Made(tip, head, v, work[v]) /\ Due(tip, head, v, work[v], now')
    <3>1. v \in up /\ ~RaceOver /\ Made(tip, head, v, work[v]) /\ Due(tip, head, v, work[v], now)
      BY <2>2 DEF RaceInv, RaceWork
    <3>2. work[v].at \in {"building", "held"}
      BY <2>2, WorkForm
    <3>3. now' <= work[v].due + Lag
      BY <1>1, <3>1, <3>2 DEF Tick, InTime
    <3> QED
      BY <3>1, <3>3 DEF Due
  <2> QED
    BY <1>2, <1>4, <2>1, <2>2 DEF RaceWork
<1>6. RaceOffers'
  <2>1. ASSUME NEW v \in DOMAIN offered
        PROVE  /\ ~RaceOver /\ Made(tip, head, v, offered[v])
               /\ Announced(tip, head, v, offered[v], now', offeredAt)
    <3>1. /\ ~RaceOver /\ Made(tip, head, v, offered[v])
          /\ Announced(tip, head, v, offered[v], now, offeredAt)
      BY DEF RaceInv, RaceOffers
    <3>2. TimeOf(offered[v].header) \in Nat
      BY <3>1, TimeFacts DEF Made
    <3> QED
      BY <1>1, <3>1, <3>2 DEF Announced
  <2>2. offered # <<>> => now' <= offeredAt + Lag
    BY <1>1 DEF Tick, InTime
  <2> QED
    BY <1>2, <1>4, <2>1, <2>2 DEF RaceInv, RaceOffers
<1>7. OwnTimeAccepted'
  BY <1>2 DEF RaceInv, OwnTimeAccepted
<1> QED
  BY <1>3, <1>5, <1>6, <1>7 DEF RaceInv

\* Steps that change the work of one validator and neither the head nor the time.
LEMMA WorkStep ==
  ASSUME RaceInv, NEW v \in Addresses, NEW w \in {Idle, Sent} \cup Works,
         work' = [work EXCEPT ![v] = w],
         w \in Works => /\ v \in up' /\ ~RaceOver /\ Made(tip, head, v, w) /\ Due(tip, head, v, w, now),
         \A u \in Addresses \ {v} : u \in up => u \in up',
         UNCHANGED <<now, tip, head, start>>
  PROVE  RaceWork' /\ RaceOver' = RaceOver
<1>1. RaceOver' = RaceOver
  BY DEF RaceOver
<1>2. work \in [Addresses -> {Idle, Sent} \cup Works]
  BY DEF RaceInv, RaceWork
<1>3. work' \in [Addresses -> {Idle, Sent} \cup Works] /\ work'[v] = w
      /\ \A u \in Addresses \ {v} : work'[u] = work[u]
  BY <1>2
<1>4. ASSUME NEW u \in Addresses, work'[u] \in Works
      PROVE  /\ u \in up' /\ ~RaceOver /\ Made(tip, head, u, work'[u]) /\ Due(tip, head, u, work'[u], now)
  <2>1. CASE u = v
    BY <1>3, <1>4, <2>1
  <2>2. CASE u # v
    <3>1. work'[u] = work[u] /\ work[u] \in Works
      BY <1>3, <1>4, <2>2
    <3> QED
      BY <2>2, <3>1 DEF RaceInv, RaceWork
  <2> QED
    BY <2>1, <2>2
<1>5. RaceWork'
  BY <1>1, <1>3, <1>4 DEF RaceWork
<1> QED
  BY <1>1, <1>5

LEMMA PrepareKeeps ==
  ASSUME RaceInv, NEW v \in Addresses, NEW bohr \in BOOLEAN, Prepare(v, bohr)
  PROVE  RaceInv'
<1> DEFINE n == tip.block_number + 1
           h == prepare_timestamp(n, block_time(tip, TimeOf(head), v, bohr, now))
           w == [at |-> "building", header |-> h,
                 due |-> now + delay_for_mining(tip, h, now, DELAY_LEFT_OVER),
                 late |-> Slot(tip, TimeOf(head), v, bohr) < now, provisional |-> bohr # IsBohr(n)]
<1>1. /\ v \in up /\ MaySign(v) /\ ~RaceOver /\ work' = [work EXCEPT ![v] = w]
      /\ UNCHANGED <<now, tip, head, offered, seen, up, offeredAt, refused, start, stops>>
  BY DEF Prepare, TimeOf
<1>2. RacedOn(tip, start) /\ IsHeaderOf(head, tip.block_number) /\ now \in Nat
  BY <1>1, RaceGoesOn DEF RaceInv, RaceTip
<1>3. Made(tip, head, v, w) /\ Due(tip, head, v, w, now)
  BY <1>1, <1>2, PrepareMakes DEF MaySign
<1> HIDE DEF w
<1>4. w \in Works
  BY <1>3 DEF Made
<1>5. RaceWork' /\ RaceOver' = RaceOver
  BY <1>1, <1>3, <1>4, WorkStep
<1> QED
  BY <1>1, <1>5 DEF RaceInv, RaceTip, RaceOffers, OwnTimeAccepted

LEMMA WiggleFacts ==
  ASSUME RaceTip
  PROVE  Wiggle(tip) - 1 \in Nat
<1>1. tip.validators \in ValidatorSets
  BY DEF RaceTip, SoundSnapshot, Snapshots
<1> DEFINE k == Cardinality(tip.validators) \div 2 + 1
           w == WIGGLE_TIME_BEFORE_FORK_MILLIS
<1>2. k \in Nat \ {0}
  BY <1>1, MajorityFacts
<1>3. w \in Nat \ {0}
  BY BlockTimeConstants
<1> HIDE DEF k, w
<1>4. 0 * w + w <= k * w /\ k * w \in Nat
  BY <1>2, <1>3, ProductFacts
<1>5. k * w - 1 \in Nat
  BY <1>3, <1>4
<1> QED
  BY <1>5 DEF Wiggle, k, w

LEMMA BuiltKeeps ==
  ASSUME RaceInv, NEW v \in Addresses, NEW random \in Nat, Built(v, random)
  PROVE  RaceInv'
<1> DEFINE w == work[v]
           d == delay_for_ramanujan(tip, w.header, calculate_difficulty(tip, v), now, random)
           x == [w EXCEPT !.at = "held", !.due = now + d]
<1>1. work \in [Addresses -> {Idle, Sent} \cup Works]
  BY DEF RaceInv, RaceWork
<1>2. w \in Works
  <2>1. w.at = "building"
    BY DEF Built
  <2> QED
    BY <1>1, <2>1 DEF Idle, Sent
<1>3. work' = [work EXCEPT ![v] = x]
  BY <1>1 DEF Built
<1>4. /\ w.at = "building"
      /\ UNCHANGED <<now, tip, head, offered, seen, up, offeredAt, refused, start, stops>>
  BY DEF Built
<1>5. v \in up /\ ~RaceOver /\ Made(tip, head, v, w) /\ Due(tip, head, v, w, now)
  BY <1>2 DEF RaceInv, RaceWork
<1>6. RacedOn(tip, start) /\ IsHeaderOf(head, tip.block_number) /\ now \in Nat
  BY <1>5, RaceGoesOn DEF RaceInv, RaceTip
<1>7. Made(tip, head, v, x) /\ Due(tip, head, v, x, now)
  BY <1>4, <1>5, <1>6, BuiltHolds
<1> HIDE DEF x
<1>8. x \in Works
  BY <1>7 DEF Made
<1>9. RaceWork' /\ RaceOver' = RaceOver
  BY <1>3, <1>4, <1>5, <1>7, <1>8, WorkStep
<1> QED
  BY <1>4, <1>9 DEF RaceInv, RaceTip, RaceOffers, OwnTimeAccepted

LEMMA OfferKeeps ==
  ASSUME RaceInv, NEW v \in Addresses, Offer(v)
  PROVE  RaceInv'
<1> DEFINE w == work[v]
           accepted == TimeAccepted(tip, head, w.header, v, now)
<1>1. work \in [Addresses -> {Idle, Sent} \cup Works]
  BY DEF RaceInv, RaceWork
<1>2. /\ w.at = "held" /\ now >= w.due /\ work' = [work EXCEPT ![v] = Sent]
      /\ UNCHANGED <<now, tip, head, seen, up, start, stops>>
  BY DEF Offer
<1>3. w \in Works
  BY <1>1, <1>2 DEF Idle, Sent
<1>4. v \in up /\ ~RaceOver /\ Made(tip, head, v, w) /\ Due(tip, head, v, w, now)
  BY <1>3 DEF RaceInv, RaceWork
<1>5. RacedOn(tip, start) /\ IsHeaderOf(head, tip.block_number) /\ now \in Nat
  BY <1>4, RaceGoesOn DEF RaceInv, RaceTip
<1>6. /\ ~w.provisional => accepted
      /\ \A at \in Nat : at <= now => Announced(tip, head, v, w, now, at)
  BY <1>2, <1>4, <1>5, OfferTaken
<1>7. Sent \notin Works /\ Sent \in {Idle, Sent} \cup Works
  BY IdleIsNoWork
<1>8. RaceWork' /\ RaceOver' = RaceOver
  BY <1>2, <1>7, WorkStep
<1>9. offeredAt \in Nat /\ offeredAt <= now /\ Lag \in Nat
  BY ProposalConstants DEF RaceInv, RaceTip
<1> HIDE DEF accepted
<1>10. CASE accepted
  <2>1. /\ offered' = Insert(offered, v, w) /\ offeredAt' = (IF offered = <<>> THEN now ELSE offeredAt)
        /\ refused' = refused
    BY <1>10 DEF Offer, accepted
  <2>2. offeredAt' \in Nat /\ offeredAt' <= now /\ (offered # <<>> => offeredAt' = offeredAt)
    BY <1>5, <1>9, <2>1
  <2>3. RaceTip'
    BY <1>2, <2>2 DEF RaceInv, RaceTip
  <2>4. DOMAIN offered' = DOMAIN offered \cup {v} /\ offered'[v] = w
        /\ \A u \in DOMAIN offered \ {v} : offered'[u] = offered[u]
    BY <2>1 DEF Insert
  <2>5. ASSUME NEW u \in DOMAIN offered'
        PROVE  /\ ~RaceOver
               /\ Made(tip, head, u, offered'[u])
               /\ Announced(tip, head, u, offered'[u], now, offeredAt')
    <3>1. CASE u = v
      BY <1>4, <1>6, <2>2, <2>4, <3>1
    <3>2. CASE u # v
      <4>1. u \in DOMAIN offered /\ offered'[u] = offered[u]
        BY <2>4, <3>2
      <4>2. offered # <<>>
        BY <4>1
      <4> QED
        BY <1>4, <2>2, <4>1, <4>2 DEF RaceInv, RaceOffers
    <3> QED
      BY <3>1, <3>2
  <2>6. DOMAIN offered' \subseteq Addresses
    BY <2>4 DEF RaceInv, RaceOffers
  <2>7. now <= offeredAt' + Lag
    <3>1. CASE offered = <<>>
      BY <1>5, <1>9, <2>1, <3>1
    <3>2. CASE offered # <<>>
      BY <2>2, <3>2 DEF RaceInv, RaceOffers
    <3> QED
      BY <3>1, <3>2
  <2>8. RaceOffers'
    BY <1>2, <1>8, <2>5, <2>6, <2>7 DEF RaceOffers
  <2> QED
    BY <1>8, <2>1, <2>3, <2>8 DEF RaceInv, OwnTimeAccepted
<1>11. CASE ~accepted
  <2>1. /\ refused' = refused \cup {IF w.provisional THEN "bohr" ELSE "time"}
        /\ UNCHANGED <<offered, offeredAt>>
    BY <1>11 DEF Offer, accepted
  <2>2. w.provisional
    BY <1>6, <1>11
  <2>3. "time" \notin refused'
    BY <2>1, <2>2 DEF RaceInv, OwnTimeAccepted
  <2> QED
    BY <1>2, <1>8, <2>1, <2>3 DEF RaceInv, RaceTip, RaceOffers, OwnTimeAccepted
<1> QED
  BY <1>10, <1>11

LEMMA AdoptKeeps ==
  ASSUME RaceInv, NEW v \in Addresses, Adopt(v)
  PROVE  RaceInv'
<1>1. /\ v \in DOMAIN offered /\ head' = offered[v].header
      /\ tip' = Apply(tip, v, NoAttestation, {}, 0)
      /\ work' = [u \in Addresses |-> Idle] /\ offered' = <<>> /\ offeredAt' = 0
      /\ UNCHANGED <<now, up, refused, start, stops>>
  BY DEF Adopt, Validators
<1>2. ~RaceOver /\ Made(tip, head, v, offered[v])
  BY <1>1 DEF RaceInv, RaceOffers
<1>3. SoundSnapshot(tip) /\ v \in tip.validators /\ ~SignRecently(tip, v)
  BY <1>2 DEF Made, RaceInv, RaceTip
<1>4. /\ SoundSnapshot(tip') /\ tip'.block_number = tip.block_number + 1
      /\ tip'.validators = tip.validators /\ tip'.turn_length = tip.turn_length
  BY <1>1, <1>3, TipMoves
<1>5. RacedOn(tip, start) /\ tip.block_number \in Nat /\ start.block_number \in Nat /\ MaxBlocks \in Nat
  BY <1>2, RaceGoesOn, ProposalConstants DEF RaceInv, RaceTip, SoundSnapshot, Snapshots
<1>6. RaceTip'
  <2>1. IsHeaderOf(head', tip'.block_number)
    BY <1>1, <1>2, <1>4 DEF Made
  <2>2. start.block_number <= tip.block_number + 1 /\ tip.block_number + 1 <= start.block_number + MaxBlocks
    BY <1>5 DEF RacedOn
  <2>3. now' \in Nat /\ offeredAt' \in Nat /\ offeredAt' <= now'
    BY <1>1 DEF RaceInv, RaceTip
  <2> QED
    BY <1>1, <1>4, <2>1, <2>2, <2>3 DEF RaceInv, RaceTip
<1>7. RaceWork'
  <2>1. work' \in [Addresses -> {Idle, Sent} \cup Works] /\ \A u \in Addresses : work'[u] = Idle
    BY <1>1
  <2> QED
    BY <2>1, IdleIsNoWork DEF RaceWork
<1>8. RaceOffers'
  <2>1. DOMAIN offered' = {}
    BY <1>1
  <2> QED
    BY <1>1, <2>1 DEF RaceOffers
<1>9. OwnTimeAccepted'
  BY <1>1 DEF RaceInv, OwnTimeAccepted
<1> QED
  BY <1>6, <1>7, <1>8, <1>9 DEF RaceInv

LEMMA StopKeeps ==
  ASSUME RaceInv, NEW v \in Addresses, Stop(v)
  PROVE  RaceInv'
<1>1. /\ up' = up \ {v} /\ work' = [work EXCEPT ![v] = Idle]
      /\ UNCHANGED <<now, tip, head, offered, seen, offeredAt, refused, start>>
  BY DEF Stop
<1>2. Idle \notin Works /\ Idle \in {Idle, Sent} \cup Works
  BY IdleIsNoWork
<1>3. RaceWork' /\ RaceOver' = RaceOver
  BY <1>1, <1>2, WorkStep
<1> QED
  BY <1>1, <1>3 DEF RaceInv, RaceTip, RaceOffers, OwnTimeAccepted

LEMMA ReturnKeeps ==
  ASSUME RaceInv, NEW v \in Addresses, Return(v)
  PROVE  RaceInv'
<1>1. /\ up' = up \cup {v}
      /\ UNCHANGED <<now, tip, head, work, offered, offeredAt, refused, start, stops>>
  BY DEF Return
<1>2. RaceOver' = RaceOver
  BY <1>1 DEF RaceOver
<1> QED
  BY <1>1, <1>2 DEF RaceInv, RaceTip, RaceWork, RaceOffers, OwnTimeAccepted

\* Every step of the race keeps the invariant.
LEMMA RaceStep ==
  ASSUME RaceInv, [RaceNext]_raceVars
  PROVE  RaceInv'
<1>1. CASE Tick
  BY <1>1, TickKeeps
<1>2. ASSUME NEW v \in Addresses, NEW bohr \in Provisional, Prepare(v, bohr) PROVE RaceInv'
  <2>1. bohr \in BOOLEAN
    <3>1. bohr \in BOOLEAN \/ bohr = IsBohr(tip.block_number + 1)
      BY DEF Provisional
    <3>2. IsBohr(tip.block_number + 1) \in BOOLEAN
      BY DEF IsBohr
    <3> QED
      BY <3>1, <3>2
  <2> QED
    BY <1>2, <2>1, PrepareKeeps
<1>3. ASSUME NEW v \in Addresses, NEW random \in {0, Wiggle(tip) - 1}, Built(v, random) PROVE RaceInv'
  <2>1. random \in Nat
    BY WiggleFacts DEF RaceInv
  <2> QED
    BY <1>3, <2>1, BuiltKeeps
<1>4. ASSUME NEW v \in Addresses, Offer(v) PROVE RaceInv'
  BY <1>4, OfferKeeps
<1>5. ASSUME NEW v \in Addresses, Adopt(v) PROVE RaceInv'
  BY <1>5, AdoptKeeps
<1>6. ASSUME NEW v \in Addresses, Stop(v) PROVE RaceInv'
  BY <1>6, StopKeeps
<1>7. ASSUME NEW v \in Addresses, Return(v) PROVE RaceInv'
  BY <1>7, ReturnKeeps
<1>8. CASE UNCHANGED raceVars
  <2>1. UNCHANGED <<now, tip, head, work, offered, seen, up, offeredAt, refused, start, stops>>
    BY <1>8 DEF raceVars
  <2>2. RaceOver' = RaceOver
    BY <2>1 DEF RaceOver
  <2> QED
    BY <2>1, <2>2 DEF RaceInv, RaceTip, RaceWork, RaceOffers, OwnTimeAccepted
<1>9. CASE RaceNext
  BY <1>1, <1>2, <1>3, <1>4, <1>5, <1>6, <1>7, <1>9, Zenon DEF RaceNext, Act, Validators
<1> QED
  BY <1>8, <1>9

\* A head with two offers has one from a validator that was late for its slot.
LEMMA RaceSeparate == RaceInv => SlotsSeparate
<1> SUFFICES ASSUME RaceInv, HasSlots(tip), Cardinality(DOMAIN offered) > 1,
                    \A v \in DOMAIN offered : ~offered[v].late /\ ~offered[v].provisional
             PROVE  FALSE
  BY DEF SlotsSeparate, HasSlots
<1> DEFINE D == DOMAIN offered
<1>1. D \in SUBSET Addresses /\ IsFiniteSet(D)
  BY SnapshotConstants, FS_Subset DEF RaceInv, RaceOffers
<1>2. ASSUME NEW u \in D, NEW v \in D PROVE u = v
  <2>1. u \in Addresses /\ v \in Addresses /\ OnTime(offered[u]) /\ OnTime(offered[v])
    BY <1>1 DEF OnTime
  <2>2. /\ ~RaceOver
        /\ Made(tip, head, u, offered[u]) /\ Announced(tip, head, u, offered[u], now, offeredAt)
        /\ Made(tip, head, v, offered[v]) /\ Announced(tip, head, v, offered[v], now, offeredAt)
    BY DEF RaceInv, RaceOffers
  <2>3. offered # <<>>
    OBVIOUS
  <2>4. RacedOn(tip, start) /\ IsHeaderOf(head, tip.block_number) /\ now \in Nat /\ offeredAt \in Nat
        /\ now <= offeredAt + Lag
    BY <2>2, <2>3, RaceGoesOn DEF RaceInv, RaceTip, RaceOffers
  <2> QED
    BY <2>1, <2>2, <2>4, OffersApart
<1> HIDE DEF D
<1>3. Cardinality(D) = 0 \/ Cardinality(D) = 1
  <2>1. CASE D = {}
    BY <2>1, FS_EmptySet
  <2>2. CASE D # {}
    <3>1. PICK v : v \in D
      BY <2>2
    <3>2. D = {v}
      BY <1>2, <3>1
    <3> QED
      BY <3>2, FS_Singleton
  <2> QED
    BY <2>1, <2>2
<1> QED
  BY <1>3 DEF D

\* The race: headers keep to their slots, and what is due is taken within Lag.
THEOREM RaceInvariant == RaceSpec => []RaceInv
<1>1. RaceInit => RaceInv
  BY RaceStarts
<1>2. RaceInv /\ [RaceNext]_raceVars => RaceInv'
  BY RaceStep
<1> QED
  BY <1>1, <1>2, PTL DEF RaceSpec

\* prepare_timestamp and block_time_verify_for_ramanujan_fork: for any validators,
\* intervals and fork heights, nobody is refused for the time it gave its block,
\* however late it prepared it (the first block after Bohr apart).
THEOREM OwnTimesAccepted == RaceSpec => []OwnTimeAccepted
<1>1. RaceInv => OwnTimeAccepted
  BY DEF RaceInv
<1> QED
  BY <1>1, RaceInvariant, PTL

\* back_off_time: whatever the generator draws, two validators never have a block on
\* offer on the same head unless one of them came too late for its own slot.
THEOREM SlotsKeptApart == RaceSpec => []SlotsSeparate
<1>1. RaceInv => SlotsSeparate
  BY RaceSeparate
<1> QED
  BY <1>1, RaceInvariant, PTL
============================================================================
