----------------------- MODULE SnapshotProviderProofs ----------------------
(***************************************************************************)
(* Proofs about the snapshot provider, for any tree of blocks, any number  *)
(* of callers and any order of their steps, of evictions, reorganisations, *)
(* failed writes and restarts.                                             *)
(***************************************************************************)
EXTENDS SnapshotProvider, SequenceFacts

----------------------------------------------------------------------------
(* The operators of the service and of the provider are the same. *)

LEMMA SameApply ==
  ASSUME NEW s, NEW v, NEW vals, NEW turn
  PROVE  /\ Service!Apply(s, v, Service!NoAttestation, vals, turn)
              = Apply(s, v, NoAttestation, vals, turn)
         /\ Service!MinerHistoryCheckLen(s) = MinerHistoryCheckLen(s)
<1>1. \A S : Service!Cardinality(S) = Cardinality(S)
  BY DEF Service!Cardinality, Cardinality
<1>2. \A q : Service!MinerHistoryCheckLen(q) = MinerHistoryCheckLen(q)
  BY <1>1 DEF Service!MinerHistoryCheckLen, MinerHistoryCheckLen
<1>3. \A f, S : Service!Without(f, S) = Without(f, S)
  BY DEF Service!Without, Without, Service!Restrict, Restrict
<1>4. \A f, k, x : Service!Insert(f, k, x) = Insert(f, k, x)
  BY DEF Service!Insert, Insert
<1>5. Service!MoveWindow(s) = MoveWindow(s)
  BY <1>2, <1>3 DEF Service!MoveWindow, MoveWindow
<1>6. Service!NoAttestation = NoAttestation
  BY DEF Service!NoAttestation, NoAttestation
<1>7. \A d, n, a : Service!UpdateAttestation(d, n, a) = UpdateAttestation(d, n, a)
  BY <1>6 DEF Service!UpdateAttestation, UpdateAttestation, Service!IsFermi, IsFermi
<1>8. \A r, n, f : Service!ForgetFinalized(r, n, f) = ForgetFinalized(r, n, f)
  BY <1>3 DEF Service!ForgetFinalized, ForgetFinalized, Service!IsMaxwell, IsMaxwell
<1>9. \A e, n : Service!NextEpochNum(e, n) = NextEpochNum(e, n)
  BY DEF Service!NextEpochNum, NextEpochNum, Service!IsMaxwell, IsMaxwell, Service!IsLorentz, IsLorentz
<1>10. \A q, u : Service!MayPropose(q, u) = MayPropose(q, u)
  BY <1>1, <1>2 DEF Service!MayPropose, MayPropose, Service!IsBohr, IsBohr, Service!Range, Range,
    Service!SignRecently, SignRecently, Service!CountRecent, CountRecent
<1>11. \A r, n, e, w : Service!Installs(r, n, e, w) = Installs(r, n, e, w)
  BY DEF Service!Installs, Installs, Service!IsBohr, IsBohr, Service!EpochKey, EpochKey
<1>12. \A r, n, e, o, w : Service!RecentsAtSwitch(r, n, e, o, w) = RecentsAtSwitch(r, n, e, o, w)
  <2> SUFFICES ASSUME NEW r, NEW n, NEW e, NEW o, NEW w
               PROVE  Service!RecentsAtSwitch(r, n, e, o, w) = RecentsAtSwitch(r, n, e, o, w)
    OBVIOUS
  <2>1. Service!EpochKey(n, e) = EpochKey(n, e) /\ Service!IsBohr(n) = IsBohr(n)
    BY DEF Service!IsBohr, IsBohr, Service!EpochKey, EpochKey
  <2>2. Service!Cardinality(o) = Cardinality(o) /\ Service!Cardinality(w) = Cardinality(w)
    BY <1>1
  <2> QED
    BY <1>3, <1>4, <2>1, <2>2 DEF Service!RecentsAtSwitch, RecentsAtSwitch
<1>13. \A l : Service!NextTurnLength(l, turn) = NextTurnLength(l, turn)
  BY DEF Service!NextTurnLength, NextTurnLength
<1>14. Service!NoSnapshot = NoSnapshot
  BY DEF Service!NoSnapshot, NoSnapshot
<1>15. Service!Apply(s, v, NoAttestation, vals, turn) = Apply(s, v, NoAttestation, vals, turn)
  BY <1>4, <1>5, <1>7, <1>8, <1>9, <1>10, <1>11, <1>12, <1>13, <1>14 DEF Service!Apply, Apply
<1> QED
  BY <1>2, <1>6, <1>15

\* The checkpoints of a snapshot's epoch, of all blocks and of some.
CheckpointsIn(s, C) == {c \in C : tree[c].number = CheckpointNumber(s) /\ tree[c].validators # {}}
Checkpoints(s) == CheckpointsIn(s, DOMAIN tree)

\* The snapshots of a block, given one of its parent, in the provider's terms.
LEMMA SuccessorsAre ==
  ASSUME NEW s, NEW h, NEW C
  PROVE  Service!Successors(s, h, C) =
           IF ~is_epoch_boundary(s) THEN {Apply(s, tree[h].proposer, NoAttestation, {}, 0)}
           ELSE {Apply(s, tree[h].proposer, NoAttestation, tree[c].validators, tree[c].turn) :
                   c \in CheckpointsIn(s, C)}
<1>1. Service!Apply(s, tree[h].proposer, Service!NoAttestation, {}, 0)
        = Apply(s, tree[h].proposer, NoAttestation, {}, 0)
  BY SameApply
<1>2. \A c : Service!Apply(s, tree[h].proposer, Service!NoAttestation, tree[c].validators, tree[c].turn)
               = Apply(s, tree[h].proposer, NoAttestation, tree[c].validators, tree[c].turn)
  BY SameApply
<1>3. Service!MinerHistoryCheckLen(s) = MinerHistoryCheckLen(s)
  BY SameApply
<1>4. Service!CheckpointsFor(s, C) = CheckpointsIn(s, C)
  BY <1>3 DEF Service!CheckpointsFor, CheckpointsIn, CheckpointNumber
<1> QED
  BY <1>1, <1>2, <1>3, <1>4 DEF Service!Successors, is_epoch_boundary

----------------------------------------------------------------------------
(* Recursion and induction over a tree. *)

\* What holds for the first block, and for a block with its parent, holds for every block.
LEMMA TreeInduction ==
  ASSUME IsTree(tree), NEW G, Genesis \in G,
         \A h \in DOMAIN tree \ {Genesis} : tree[h].parent \in G => h \in G
  PROVE  \A h \in DOMAIN tree : h \in G
<1> DEFINE S == {tree[h].number : h \in DOMAIN tree \ G}
<1> SUFFICES ASSUME NEW b \in DOMAIN tree \ G PROVE FALSE
  OBVIOUS
<1>1. S \in SUBSET Nat /\ S # {}
  <2>1. \A h \in DOMAIN tree : tree[h].number \in Nat
    BY SnapshotConstants DEF IsTree
  <2> QED
    BY <2>1
<1>2. PICK m \in S : \A k \in S : m <= k
  <2> HIDE DEF S
  <2> QED
    BY <1>1, LeastNumber
<1>3. PICK h \in DOMAIN tree \ G : m = tree[h].number
  OBVIOUS
<1>4. /\ h # Genesis /\ tree[h].parent \in DOMAIN tree
      /\ tree[h].number = tree[tree[h].parent].number + 1
  BY <1>3 DEF IsTree
<1>5. tree[h].parent \notin G
  BY <1>3, <1>4
<1>6. tree[tree[h].parent].number \in S
  BY <1>4, <1>5
<1> DEFINE k == tree[tree[h].parent].number
<1>7. k \in Nat /\ m <= k /\ m = k + 1
  BY <1>1, <1>2, <1>3, <1>4, <1>6
<1> HIDE DEF k, S
<1> QED
  BY <1>7

\* The snapshots of a block, given those of its parent.
After(h, S, C) == (UNION {Service!Successors(s, h, C) : s \in S}) \ {NoSnapshot}

\* Snapshots is what its equations say.
LEMMA SnapshotsUnfold ==
  ASSUME IsTree(tree), NEW C
  PROVE  /\ Service!Snapshots(Genesis, C) = {GenesisSnapshot(tree[Genesis].validators, DEFAULT_EPOCH_LENGTH)}
         /\ \A h \in DOMAIN tree \ {Genesis} :
              Service!Snapshots(h, C) = After(h, Service!Snapshots(tree[h].parent, C), C)
<1> DEFINE D == DOMAIN tree
           First == {GenesisSnapshot(tree[Genesis].validators, DEFAULT_EPOCH_LENGTH)}
           F(f, b) == IF b = Genesis THEN First ELSE After(b, f[tree[b].parent], C)
           Good(f, n) == \A b \in D : tree[b].number <= n => f[b] = F(f, b)
           right == CHOOSE f : f = [b \in D |-> F(f, b)]
           S == {n \in Nat : ~\E f : Good(f, n)}
<1>1. /\ Genesis \in D /\ tree[Genesis].number = 0
      /\ \A b \in D : tree[b].number \in Nat /\ tree[b].number <= U64_MAX
      /\ \A b \in D \ {Genesis} : tree[b].parent \in D /\ tree[b].number = tree[tree[b].parent].number + 1
  BY SnapshotConstants DEF IsTree
<1>2. ASSUME NEW h PROVE Service!Snapshots(h, C) = right[h]
  <2>1. Service!NoSnapshot = NoSnapshot
    BY DEF Service!NoSnapshot, NoSnapshot
  <2>2. Service!GenesisSnapshot(tree[Genesis].validators, DEFAULT_EPOCH_LENGTH)
          = GenesisSnapshot(tree[Genesis].validators, DEFAULT_EPOCH_LENGTH)
    BY DEF Service!GenesisSnapshot, GenesisSnapshot
  <2>3. \A f : \A b \in D :
          F(f, b) = IF b = Genesis
                    THEN {Service!GenesisSnapshot(tree[b].validators, DEFAULT_EPOCH_LENGTH)}
                    ELSE (UNION {Service!Successors(s, b, C) : s \in f[tree[b].parent]}) \ {Service!NoSnapshot}
    BY <2>1, <2>2 DEF After
  <2> HIDE DEF F
  <2>4. \A f : [b \in D |-> F(f, b)]
          = [b \in D |-> IF b = Genesis
                    THEN {Service!GenesisSnapshot(tree[b].validators, DEFAULT_EPOCH_LENGTH)}
                    ELSE (UNION {Service!Successors(s, b, C) : s \in f[tree[b].parent]}) \ {Service!NoSnapshot}]
    BY <2>3
  <2> QED
    BY <2>4 DEF Service!Snapshots
<1> HIDE DEF First
<1>3. ASSUME NEW f, NEW g, NEW b \in D, b # Genesis => f[tree[b].parent] = g[tree[b].parent]
      PROVE  F(f, b) = F(g, b)
  BY <1>3
<1>4. \E f : Good(f, U64_MAX)
  <2> SUFFICES ASSUME S # {} PROVE FALSE
    <3> HIDE DEF Good
    <3> QED
      BY SnapshotConstants
  <2>1. PICK m \in Nat : ~(\E f : Good(f, m)) /\ \A k \in Nat : k < m => \E f : Good(f, k)
    <3> HIDE DEF Good
    <3>1. S \in SUBSET Nat
      OBVIOUS
    <3>2. \E m \in S : \A k \in S : m <= k
      <4> HIDE DEF S
      <4> QED
        BY <3>1, LeastNumber
    <3>3. PICK m \in S : \A k \in S : m <= k
      BY <3>2
    <3>4. m \in Nat /\ ~(\E f : Good(f, m))
      OBVIOUS
    <3>5. ASSUME NEW k \in Nat, k < m PROVE \E f : Good(f, k)
      BY <3>3, <3>4, <3>5
    <3> QED
      BY <3>4, <3>5
  <2> HIDE DEF S
  <2>2. m # 0
    <3>1. ASSUME NEW b \in D, tree[b].number <= 0 PROVE b = Genesis
      <4> SUFFICES ASSUME b # Genesis PROVE FALSE
        OBVIOUS
      <4> DEFINE k == tree[tree[b].parent].number
      <4>1. k \in Nat /\ tree[b].number = k + 1
        BY <1>1
      <4> HIDE DEF k
      <4> QED
        BY <3>1, <4>1
    <3>2. Good([b \in D |-> First], 0)
      BY <1>1, <3>1
    <3> HIDE DEF Good
    <3> QED
      BY <2>1, <3>2
  <2>3. m - 1 \in Nat /\ m - 1 < m
    BY <2>2
  <2>4. PICK f : Good(f, m - 1)
    <3> HIDE DEF Good
    <3> QED
      BY <2>1, <2>3
  <2> DEFINE g == [b \in D |-> IF tree[b].number < m THEN f[b] ELSE F(f, b)]
  <2>5. ASSUME NEW b \in D, tree[b].number <= m PROVE g[b] = F(g, b)
    <3>1. F(f, b) = F(g, b)
      <4>1. CASE b = Genesis
        BY <4>1
      <4>2. CASE b # Genesis
        <5>1. tree[b].parent \in D /\ tree[tree[b].parent].number < m
          <6> DEFINE k == tree[tree[b].parent].number
          <6>1. tree[b].parent \in D /\ k \in Nat /\ tree[b].number = k + 1
            BY <1>1, <4>2
          <6>2. k < m
            <7> HIDE DEF k
            <7> QED
              BY <2>5, <6>1
          <6> QED
            BY <6>1, <6>2
        <5>2. g[tree[b].parent] = f[tree[b].parent]
          BY <5>1
        <5> HIDE DEF F, g
        <5> QED
          BY <1>3, <5>2
      <4> QED
        BY <4>1, <4>2
    <3>2. g[b] = F(f, b)
      <4>1. tree[b].number \in Nat
        BY <1>1
      <4>2. tree[b].number < m => tree[b].number <= m - 1
        BY <4>1
      <4>3. tree[b].number < m => f[b] = F(f, b)
        <5> HIDE DEF F
        <5> QED
          BY <2>4, <4>2
      <4> HIDE DEF F
      <4> QED
        BY <4>3
    <3> QED
      BY <3>1, <3>2
  <2>6. Good(g, m)
    <3> HIDE DEF g, F
    <3> QED
      BY <2>5
  <2> HIDE DEF Good, g
  <2> QED
    BY <2>1, <2>6
<1>5. PICK f : Good(f, U64_MAX)
  BY <1>4
<1> DEFINE g == [b \in D |-> f[b]]
<1>6. g = [b \in D |-> F(g, b)]
  <2>1. ASSUME NEW b \in D PROVE f[b] = F(g, b)
    <3>1. f[b] = F(f, b)
      BY <1>1, <1>5
    <3>2. b # Genesis => g[tree[b].parent] = f[tree[b].parent]
      BY <1>1
    <3> HIDE DEF F, g
    <3> QED
      BY <1>3, <3>1, <3>2
  <2> HIDE DEF F
  <2> QED
    BY <2>1
<1>7. right = [b \in D |-> F(right, b)]
  <2> HIDE DEF F, g
  <2> QED
    BY <1>6
<1>8. \A b \in D : right[b] = F(right, b)
  <2> HIDE DEF F, right
  <2> QED
    BY <1>7
<1> HIDE DEF right
<1> QED
  BY <1>1, <1>2, <1>8 DEF First

\* So is Ancestors, by the same argument.
LEMMA AncestorsUnfold ==
  ASSUME IsTree(tree)
  PROVE  /\ Ancestors(Genesis) = {Genesis}
         /\ \A h \in DOMAIN tree \ {Genesis} : Ancestors(h) = {h} \cup Ancestors(tree[h].parent)
<1> DEFINE D == DOMAIN tree
           F(f, b) == IF b = Genesis THEN {b} ELSE {b} \cup f[tree[b].parent]
           Good(f, n) == \A b \in D : tree[b].number <= n => f[b] = F(f, b)
           up == CHOOSE f : f = [b \in D |-> F(f, b)]
           S == {n \in Nat : ~\E f : Good(f, n)}
<1>1. /\ Genesis \in D /\ tree[Genesis].number = 0
      /\ \A b \in D : tree[b].number \in Nat /\ tree[b].number <= U64_MAX
      /\ \A b \in D \ {Genesis} : tree[b].parent \in D /\ tree[b].number = tree[tree[b].parent].number + 1
  BY SnapshotConstants DEF IsTree
<1>2. ASSUME NEW h PROVE Ancestors(h) = up[h]
  BY DEF Ancestors
<1>3. ASSUME NEW f, NEW g, NEW b \in D, b # Genesis => f[tree[b].parent] = g[tree[b].parent]
      PROVE  F(f, b) = F(g, b)
  BY <1>3
<1>4. \E f : Good(f, U64_MAX)
  <2> SUFFICES ASSUME S # {} PROVE FALSE
    <3> HIDE DEF Good
    <3> QED
      BY SnapshotConstants
  <2>1. PICK m \in Nat : ~(\E f : Good(f, m)) /\ \A k \in Nat : k < m => \E f : Good(f, k)
    <3> HIDE DEF Good
    <3>1. S \in SUBSET Nat
      OBVIOUS
    <3>2. \E m \in S : \A k \in S : m <= k
      <4> HIDE DEF S
      <4> QED
        BY <3>1, LeastNumber
    <3>3. PICK m \in S : \A k \in S : m <= k
      BY <3>2
    <3>4. m \in Nat /\ ~(\E f : Good(f, m))
      OBVIOUS
    <3>5. ASSUME NEW k \in Nat, k < m PROVE \E f : Good(f, k)
      BY <3>3, <3>4, <3>5
    <3> QED
      BY <3>4, <3>5
  <2> HIDE DEF S
  <2>2. m # 0
    <3>1. ASSUME NEW b \in D, tree[b].number <= 0 PROVE b = Genesis
      <4> SUFFICES ASSUME b # Genesis PROVE FALSE
        OBVIOUS
      <4> DEFINE k == tree[tree[b].parent].number
      <4>1. k \in Nat /\ tree[b].number = k + 1
        BY <1>1
      <4> HIDE DEF k
      <4> QED
        BY <3>1, <4>1
    <3>2. Good([b \in D |-> {b}], 0)
      BY <1>1, <3>1
    <3> HIDE DEF Good
    <3> QED
      BY <2>1, <3>2
  <2>3. m - 1 \in Nat /\ m - 1 < m
    BY <2>2
  <2>4. PICK f : Good(f, m - 1)
    <3> HIDE DEF Good
    <3> QED
      BY <2>1, <2>3
  <2> DEFINE g == [b \in D |-> IF tree[b].number < m THEN f[b] ELSE F(f, b)]
  <2>5. ASSUME NEW b \in D, tree[b].number <= m PROVE g[b] = F(g, b)
    <3>1. F(f, b) = F(g, b)
      <4>1. CASE b = Genesis
        BY <4>1
      <4>2. CASE b # Genesis
        <5>1. tree[b].parent \in D /\ tree[tree[b].parent].number < m
          <6> DEFINE k == tree[tree[b].parent].number
          <6>1. tree[b].parent \in D /\ k \in Nat /\ tree[b].number = k + 1
            BY <1>1, <4>2
          <6>2. k < m
            <7> HIDE DEF k
            <7> QED
              BY <2>5, <6>1
          <6> QED
            BY <6>1, <6>2
        <5>2. g[tree[b].parent] = f[tree[b].parent]
          BY <5>1
        <5> HIDE DEF F, g
        <5> QED
          BY <1>3, <5>2
      <4> QED
        BY <4>1, <4>2
    <3>2. g[b] = F(f, b)
      <4>1. tree[b].number \in Nat
        BY <1>1
      <4>2. tree[b].number < m => tree[b].number <= m - 1
        BY <4>1
      <4>3. tree[b].number < m => f[b] = F(f, b)
        <5> HIDE DEF F
        <5> QED
          BY <2>4, <4>2
      <4> HIDE DEF F
      <4> QED
        BY <4>3
    <3> QED
      BY <3>1, <3>2
  <2>6. Good(g, m)
    <3> HIDE DEF g, F
    <3> QED
      BY <2>5
  <2> HIDE DEF Good, g
  <2> QED
    BY <2>1, <2>6
<1>5. PICK f : Good(f, U64_MAX)
  BY <1>4
<1> DEFINE g == [b \in D |-> f[b]]
<1>6. g = [b \in D |-> F(g, b)]
  <2>1. ASSUME NEW b \in D PROVE f[b] = F(g, b)
    <3>1. f[b] = F(f, b)
      BY <1>1, <1>5
    <3>2. b # Genesis => g[tree[b].parent] = f[tree[b].parent]
      BY <1>1
    <3> HIDE DEF F, g
    <3> QED
      BY <1>3, <3>1, <3>2
  <2> HIDE DEF F
  <2> QED
    BY <2>1
<1>7. up = [b \in D |-> F(up, b)]
  <2> HIDE DEF F, g
  <2> QED
    BY <1>6
<1>8. \A b \in D : up[b] = F(up, b)
  <2> HIDE DEF F, up
  <2> QED
    BY <1>7
<1> HIDE DEF up
<1> QED
  BY <1>1, <1>2, <1>8

\* The tree is fixed, and with it what is computed from it.
LEMMA TreeStays ==
  ASSUME tree' = tree, NEW h
  PROVE  /\ (Service!Possible(h))' = Service!Possible(h) /\ Ancestors(h)' = Ancestors(h)
         /\ (Service!Own(h))' = Service!Own(h)
<1>1. Ancestors(h)' = Ancestors(h) /\ (Service!Ancestors(h))' = Service!Ancestors(h)
  BY DEF Ancestors, Service!Ancestors
<1>2. (Service!Possible(h))' = Service!Possible(h)
  BY DEF Service!Possible, Service!Snapshots, Service!Successors, Service!CheckpointsFor
<1>3. (Service!Own(h))' = Service!Own(h)
  BY DEF Service!Own, Service!Snapshots, Service!Successors, Service!CheckpointsFor, Service!Ancestors
<1> QED
  BY <1>1, <1>2, <1>3

\* The ancestors of a block are blocks, with their ancestors, one at every height.
LEMMA AncestorFacts ==
  ASSUME IsTree(tree), NEW h \in DOMAIN tree
  PROVE  /\ Ancestors(h) \subseteq DOMAIN tree /\ h \in Ancestors(h)
         /\ \A a \in Ancestors(h) :
              /\ tree[a].number <= tree[h].number /\ Ancestors(a) \subseteq Ancestors(h)
              /\ a # Genesis => tree[a].parent \in Ancestors(h)
         /\ \A n \in 0..tree[h].number : \E a \in Ancestors(h) : tree[a].number = n
<1> DEFINE Closed(b) == /\ Ancestors(b) \subseteq DOMAIN tree /\ b \in Ancestors(b)
                        /\ \A a \in Ancestors(b) : tree[a].number <= tree[b].number
                        /\ \A a \in Ancestors(b) : Ancestors(a) \subseteq Ancestors(b)
           Full(b) == \A n \in 0..tree[b].number : \E a \in Ancestors(b) : tree[a].number = n
           G == {b \in DOMAIN tree : Closed(b) /\ Full(b)}
<1>1. /\ Genesis \in DOMAIN tree /\ tree[Genesis].number = 0
      /\ \A b \in DOMAIN tree : tree[b].number \in Nat
      /\ \A b \in DOMAIN tree \ {Genesis} :
           tree[b].parent \in DOMAIN tree /\ tree[b].number = tree[tree[b].parent].number + 1
  BY SnapshotConstants DEF IsTree
<1>2. Genesis \in G
  <2>1. Ancestors(Genesis) = {Genesis}
    BY AncestorsUnfold
  <2> QED
    BY <1>1, <2>1
<1>3. ASSUME NEW b \in DOMAIN tree \ {Genesis}, tree[b].parent \in G PROVE b \in G
  <2> DEFINE p == tree[b].parent
  <2>1. p \in DOMAIN tree /\ tree[b].number = tree[p].number + 1 /\ tree[p].number \in Nat
    BY <1>1
  <2>2. Ancestors(b) = {b} \cup Ancestors(p)
    BY AncestorsUnfold
  <2>3. Closed(p) /\ Full(p)
    BY <1>3
  <2> HIDE DEF p
  <2>4. Closed(b)
    <3>1. Ancestors(b) \subseteq DOMAIN tree /\ b \in Ancestors(b)
      BY <2>2, <2>3
    <3>2. ASSUME NEW a \in Ancestors(b) PROVE tree[a].number <= tree[b].number
      <4>1. a = b \/ a \in Ancestors(p)
        BY <2>2
      <4>2. tree[a].number \in Nat
        BY <1>1, <3>1
      <4>3. a = b \/ tree[a].number <= tree[p].number
        BY <2>3, <4>1
      <4> QED
        BY <2>1, <4>2, <4>3
    <3>3. \A a \in Ancestors(b) : Ancestors(a) \subseteq Ancestors(b)
      BY <2>2, <2>3
    <3> QED
      BY <3>1, <3>2, <3>3
  <2>5. Full(b)
    <3> SUFFICES ASSUME NEW n \in 0..tree[b].number PROVE \E a \in Ancestors(b) : tree[a].number = n
      OBVIOUS
    <3>1. n = tree[b].number \/ n \in 0..tree[p].number
      BY <2>1
    <3> QED
      BY <2>2, <2>3, <3>1
  <2> HIDE DEF Closed, Full
  <2> QED
    BY <2>4, <2>5
<1>4. h \in G
  <2> HIDE DEF G
  <2> QED
    BY <1>2, <1>3, TreeInduction
<1>5. ASSUME NEW a \in Ancestors(h), a # Genesis PROVE tree[a].parent \in Ancestors(h)
  <2>1. a \in DOMAIN tree /\ Ancestors(a) \subseteq Ancestors(h)
    BY <1>4
  <2>2. tree[a].parent \in G
    <3> HIDE DEF G
    <3> QED
      BY <1>1, <1>2, <1>3, <1>5, <2>1, TreeInduction
  <2>3. tree[a].parent \in Ancestors(tree[a].parent)
    BY <2>2
  <2>4. Ancestors(a) = {a} \cup Ancestors(tree[a].parent)
    BY <1>5, <2>1, AncestorsUnfold
  <2> QED
    BY <2>1, <2>3, <2>4
<1> QED
  BY <1>4, <1>5

----------------------------------------------------------------------------
(* What a snapshot of a block is. *)

\* A snapshot of height n.
IsSnapshot(s, n) ==
  /\ s = [block_number |-> n, epoch_num |-> s.epoch_num, validators |-> s.validators,
          turn_length |-> s.turn_length, vote_data |-> s.vote_data,
          recent_proposers |-> s.recent_proposers]
  /\ s.validators \in SUBSET Addresses /\ s.turn_length \in Nat \ {0}

LEMMA SnapshotFacts ==
  ASSUME NEW s, NEW n \in Nat, IsSnapshot(s, n)
  PROVE  s # NoSnapshot /\ s.block_number = n /\ MinerHistoryCheckLen(s) \in Nat
<1>1. s.block_number = n
  BY DEF IsSnapshot
<1>2. s # NoSnapshot
  BY <1>1 DEF NoSnapshot
<1>3. Cardinality(s.validators) \in Nat /\ s.turn_length \in Nat \ {0}
  <2>1. IsFiniteSet(s.validators)
    BY SnapshotConstants, FS_Subset DEF IsSnapshot
  <2> QED
    BY <2>1, FS_CardinalityType DEF IsSnapshot
<1> DEFINE c == Cardinality(s.validators) \div 2 + 1
<1>4. c \in Nat /\ c >= 1
  BY <1>3
<1> HIDE DEF c
<1>5. c * s.turn_length \in Nat /\ c * s.turn_length >= 1
  BY <1>3, <1>4
<1> QED
  BY <1>1, <1>2, <1>5 DEF MinerHistoryCheckLen, c

\* A block applied.
LEMMA ApplyFacts ==
  ASSUME NEW s, NEW n \in Nat, IsSnapshot(s, n), NEW v, NEW att, NEW vals \in SUBSET Addresses,
         NEW turn \in TurnLengths \cup {0}
  PROVE  Apply(s, v, att, vals, turn) = NoSnapshot \/ IsSnapshot(Apply(s, v, att, vals, turn), n + 1)
<1> DEFINE moved == [s EXCEPT !.block_number = n + 1, !.recent_proposers = MoveWindow(s)]
           vote_data == UpdateAttestation(s.vote_data, n + 1, att)
           recents == ForgetFinalized(Insert(moved.recent_proposers, n + 1, v), n + 1, vote_data.source)
           next == [moved EXCEPT !.vote_data = vote_data,
                            !.recent_proposers = recents,
                            !.epoch_num = NextEpochNum(s.epoch_num, n + 1)]
           after == RecentsAtSwitch(recents, n + 1, s.epoch_num, s.validators, vals)
           longer == [next EXCEPT !.turn_length = NextTurnLength(@, turn)]
           emptied == [longer EXCEPT !.recent_proposers = after]
           installed == [emptied EXCEPT !.validators = vals]
<1>1. s.block_number + 1 = n + 1
  BY DEF IsSnapshot
<1>2. Apply(s, v, att, vals, turn) \in {NoSnapshot, next, installed}
  BY <1>1 DEF Apply
<1>3. IsSnapshot(next, n + 1)
  <2> DEFINE window == MoveWindow(s)
             epoch == NextEpochNum(s.epoch_num, n + 1)
             e == s.epoch_num
             V == s.validators
             t == s.turn_length
             d == s.vote_data
             r == s.recent_proposers
             m == n + 1
  <2>1. s = [block_number |-> n, epoch_num |-> e, validators |-> V, turn_length |-> t,
             vote_data |-> d, recent_proposers |-> r]
    BY DEF IsSnapshot
  <2>2. V \in SUBSET Addresses /\ t \in Nat \ {0}
    BY DEF IsSnapshot
  <2>3. moved = [s EXCEPT !.block_number = m, !.recent_proposers = window]
    OBVIOUS
  <2>4. next = [moved EXCEPT !.vote_data = vote_data, !.recent_proposers = recents, !.epoch_num = epoch]
    OBVIOUS
  <2>5. next = [block_number |-> m, epoch_num |-> epoch, validators |-> V, turn_length |-> t,
                vote_data |-> vote_data, recent_proposers |-> recents]
    <3> HIDE DEF window, epoch, vote_data, recents, e, V, t, d, r, m, next, moved
    <3>1. moved = [block_number |-> m, epoch_num |-> e, validators |-> V, turn_length |-> t,
                   vote_data |-> d, recent_proposers |-> window]
      BY <2>1, <2>3
    <3> QED
      BY <2>4, <3>1
  <2> HIDE DEF next, window, epoch, vote_data, recents, e, V, t, d, r
  <2> QED
    BY <2>2, <2>5 DEF IsSnapshot
<1> HIDE DEF next, after
<1>4. IsSnapshot(installed, n + 1)
  <2> DEFINE len == NextTurnLength(next.turn_length, turn)
             e == next.epoch_num
             V == next.validators
             l == next.turn_length
             d == next.vote_data
             r == next.recent_proposers
             m == n + 1
  <2>1. len \in Nat \ {0}
    BY <1>3, SnapshotConstants DEF NextTurnLength, IsSnapshot
  <2>2. next = [block_number |-> m, epoch_num |-> e, validators |-> V, turn_length |-> l,
                vote_data |-> d, recent_proposers |-> r]
    BY <1>3 DEF IsSnapshot
  <2>3. longer = [next EXCEPT !.turn_length = len]
    OBVIOUS
  <2>4. installed = [block_number |-> m, epoch_num |-> e, validators |-> vals, turn_length |-> len,
                     vote_data |-> d, recent_proposers |-> after]
    <3> HIDE DEF len, e, V, l, d, r, m
    <3>1. longer = [block_number |-> m, epoch_num |-> e, validators |-> V, turn_length |-> len,
                    vote_data |-> d, recent_proposers |-> r]
      BY <2>2, <2>3
    <3> HIDE DEF longer
    <3>2. emptied = [block_number |-> m, epoch_num |-> e, validators |-> V, turn_length |-> len,
                     vote_data |-> d, recent_proposers |-> after]
      BY <3>1
    <3> HIDE DEF emptied
    <3> QED
      BY <3>2
  <2> HIDE DEF installed, len, e, d
  <2> QED
    BY <2>1, <2>4 DEF IsSnapshot
<1> HIDE DEF installed
<1> QED
  BY <1>2, <1>3, <1>4

\* What can follow a snapshot of the parent is a snapshot of the block, and nothing else is.
LEMMA SnapshotsStep ==
  ASSUME IsTree(tree), NEW h \in DOMAIN tree \ {Genesis}, NEW C, NEW s
  PROVE  s \in Service!Snapshots(h, C)
           <=> /\ s # NoSnapshot
               /\ \E u \in Service!Snapshots(tree[h].parent, C) : s \in Service!Successors(u, h, C)
<1> DEFINE R == Service!Snapshots(tree[h].parent, C)
<1>1. Service!Snapshots(h, C) = After(h, R, C)
  BY SnapshotsUnfold
<1> HIDE DEF R
<1>2. s \in After(h, R, C) <=> s # NoSnapshot /\ \E u \in R : s \in Service!Successors(u, h, C)
  <2> DEFINE K == {Service!Successors(u, h, C) : u \in R}
  <2>1. After(h, R, C) = (UNION K) \ {NoSnapshot}
    BY DEF After
  <2>2. s \in UNION K <=> \E X \in K : s \in X
    OBVIOUS
  <2>3. (\E X \in K : s \in X) <=> \E u \in R : s \in Service!Successors(u, h, C)
    OBVIOUS
  <2> HIDE DEF K
  <2> QED
    BY <2>1, <2>2, <2>3
<1> QED
  BY <1>1, <1>2 DEF R

\* The same for checkpoints from anywhere.
LEMMA PossibleStep ==
  ASSUME IsTree(tree), NEW h \in DOMAIN tree \ {Genesis}, NEW s
  PROVE  s \in Service!Possible(h)
           <=> /\ s # NoSnapshot
               /\ \E u \in Service!Possible(tree[h].parent) : s \in Service!Successors(u, h, DOMAIN tree)
  BY SnapshotsStep DEF Service!Possible

LEMMA PossibleUnfolds ==
  ASSUME IsTree(tree)
  PROVE  Service!Possible(Genesis) = {GenesisSnapshot(tree[Genesis].validators, DEFAULT_EPOCH_LENGTH)}
  BY SnapshotsUnfold DEF Service!Possible

\* A snapshot that a block can have is one of its height.
LEMMA PossibleTyped ==
  ASSUME IsTree(tree)
  PROVE  \A h \in DOMAIN tree : \A s \in Service!Possible(h) : IsSnapshot(s, tree[h].number)
<1> DEFINE G == {h \in DOMAIN tree : \A s \in Service!Possible(h) : IsSnapshot(s, tree[h].number)}
<1>1. /\ Genesis \in DOMAIN tree /\ tree[Genesis].number = 0
      /\ \A b \in DOMAIN tree : /\ tree[b].number \in Nat /\ tree[b].validators \in SUBSET Addresses
                                /\ tree[b].turn \in TurnLengths \cup {0}
      /\ \A b \in DOMAIN tree \ {Genesis} :
           tree[b].parent \in DOMAIN tree /\ tree[b].number = tree[tree[b].parent].number + 1
  BY SnapshotConstants DEF IsTree
<1>2. Genesis \in G
  <2>1. IsSnapshot(GenesisSnapshot(tree[Genesis].validators, DEFAULT_EPOCH_LENGTH), 0)
    BY <1>1 DEF IsSnapshot, GenesisSnapshot
  <2> QED
    BY <1>1, <2>1, PossibleUnfolds
<1>3. ASSUME NEW h \in DOMAIN tree \ {Genesis}, tree[h].parent \in G PROVE h \in G
  <2> DEFINE p == tree[h].parent
  <2>1. tree[h].number = tree[p].number + 1 /\ tree[p].number \in Nat
    BY <1>1, <1>3
  <2>2. ASSUME NEW s \in Service!Possible(h) PROVE IsSnapshot(s, tree[h].number)
    <3>1. PICK u \in Service!Possible(p) : s \in Service!Successors(u, h, DOMAIN tree) /\ s # NoSnapshot
      BY PossibleStep
    <3>2. IsSnapshot(u, tree[p].number)
      BY <1>3, <3>1
    <3>3. PICK vals \in SUBSET Addresses, turn \in TurnLengths \cup {0} :
            s = Apply(u, tree[h].proposer, NoAttestation, vals, turn)
      <4>1. CASE ~is_epoch_boundary(u)
        BY <3>1, <4>1, SuccessorsAre DEF Checkpoints
      <4>2. CASE is_epoch_boundary(u)
        <5>1. PICK c \in Checkpoints(u) :
                s = Apply(u, tree[h].proposer, NoAttestation, tree[c].validators, tree[c].turn)
          BY <3>1, <4>2, SuccessorsAre DEF Checkpoints
        <5> QED
          BY <1>1, <5>1 DEF Checkpoints, CheckpointsIn
      <4> QED
        BY <4>1, <4>2
    <3> HIDE DEF p
    <3> QED
      BY <2>1, <3>1, <3>2, <3>3, ApplyFacts
  <2> QED
    BY <2>2
<1> HIDE DEF G
<1>4. \A h \in DOMAIN tree : h \in G
  BY <1>2, <1>3, TreeInduction
<1> QED
  BY <1>4 DEF G

\* The caller's "no snapshot" is never one of them.
LEMMA PossibleIsSnapshot ==
  ASSUME IsTree(tree), NEW h \in DOMAIN tree, NEW s \in Service!Possible(h)
  PROVE  s # NoSnapshot /\ s.block_number = tree[h].number /\ MinerHistoryCheckLen(s) \in Nat
<1>1. tree[h].number \in Nat /\ IsSnapshot(s, tree[h].number)
  BY PossibleTyped, SnapshotConstants DEF IsTree
<1> QED
  BY <1>1, SnapshotFacts

\* Its own ancestors are among the blocks that may serve as checkpoints.
LEMMA OwnIsPossible ==
  ASSUME IsTree(tree), NEW C \in SUBSET DOMAIN tree
  PROVE  \A h \in DOMAIN tree : Service!Snapshots(h, C) \subseteq Service!Possible(h)
<1> DEFINE G == {h \in DOMAIN tree : Service!Snapshots(h, C) \subseteq Service!Possible(h)}
<1>1. Genesis \in G
  BY SnapshotsUnfold, PossibleUnfolds DEF IsTree
<1>2. ASSUME NEW h \in DOMAIN tree \ {Genesis}, tree[h].parent \in G PROVE h \in G
  <2> SUFFICES ASSUME NEW s \in Service!Snapshots(h, C) PROVE s \in Service!Possible(h)
    OBVIOUS
  <2>1. PICK u \in Service!Snapshots(tree[h].parent, C) :
          s # NoSnapshot /\ s \in Service!Successors(u, h, C)
    BY SnapshotsStep
  <2>2. u \in Service!Possible(tree[h].parent)
    BY <1>2
  <2>3. s \in Service!Successors(u, h, DOMAIN tree)
    <3>1. CASE ~is_epoch_boundary(u)
      BY <2>1, <3>1, SuccessorsAre
    <3>2. CASE is_epoch_boundary(u)
      <4>1. PICK c \in CheckpointsIn(u, C) :
              s = Apply(u, tree[h].proposer, NoAttestation, tree[c].validators, tree[c].turn)
        BY <2>1, <3>2, SuccessorsAre
      <4>2. c \in CheckpointsIn(u, DOMAIN tree)
        BY DEF CheckpointsIn
      <4> QED
        BY <3>2, <4>1, <4>2, SuccessorsAre
    <3> QED
      BY <3>1, <3>2
  <2> QED
    BY <2>1, <2>2, <2>3, PossibleStep
<1> HIDE DEF G
<1>3. \A h \in DOMAIN tree : h \in G
  BY <1>1, <1>2, TreeInduction
<1> QED
  BY <1>3 DEF G

LEMMA SameAncestors ==
  ASSUME NEW h
  PROVE  Service!Ancestors(h) = Ancestors(h)
BY DEF Service!Ancestors, Ancestors

\* A valid block has a snapshot.
LEMMA ValidIsPossible ==
  ASSUME IsTree(tree), NEW h \in DOMAIN tree, Service!Own(h) # {}
  PROVE  Service!Possible(h) # {}
<1>1. Ancestors(h) \subseteq DOMAIN tree
  BY AncestorFacts
<1>2. Service!Own(h) = Service!Snapshots(h, Ancestors(h))
  BY SameAncestors DEF Service!Own
<1> QED
  BY <1>1, <1>2, OwnIsPossible

\* Where no other block stands in for an ancestor, the block has its own snapshot or none.
LEMMA UndisputedIsOwn ==
  ASSUME IsTree(tree), NEW h \in DOMAIN tree, Service!Undisputed(h)
  PROVE  Service!Possible(h) \subseteq Service!Own(h)
<1> DEFINE A == Ancestors(h)
           G == {b \in DOMAIN tree : b \in A => Service!Possible(b) \subseteq Service!Snapshots(b, A)}
<1>1. /\ A \subseteq DOMAIN tree /\ h \in A
      /\ \A a \in A : a # Genesis => tree[a].parent \in A
      /\ \A a \in A : tree[a].number <= tree[h].number
      /\ \A n \in 0..tree[h].number : \E a \in A : tree[a].number = n
  BY AncestorFacts
<1>2. \A a \in A, b \in DOMAIN tree :
        tree[b].number = tree[a].number
        => tree[b].validators = tree[a].validators /\ tree[b].turn = tree[a].turn
  BY SameAncestors DEF Service!Undisputed
<1>3. \A b \in DOMAIN tree : tree[b].number \in Nat
  BY SnapshotConstants DEF IsTree
<1> HIDE DEF A
<1>4. Genesis \in G
  BY SnapshotsUnfold, PossibleUnfolds DEF IsTree
<1>5. ASSUME NEW b \in DOMAIN tree \ {Genesis}, tree[b].parent \in G PROVE b \in G
  <2> SUFFICES ASSUME b \in A, NEW s \in Service!Possible(b) PROVE s \in Service!Snapshots(b, A)
    OBVIOUS
  <2> DEFINE p == tree[b].parent
  <2>1. p \in A /\ p \in DOMAIN tree /\ tree[b].number = tree[p].number + 1
    BY <1>1 DEF IsTree
  <2>2. PICK u \in Service!Possible(p) : s # NoSnapshot /\ s \in Service!Successors(u, b, DOMAIN tree)
    BY PossibleStep
  <2>3. u \in Service!Snapshots(p, A)
    BY <1>5, <2>1
  <2>4. s \in Service!Successors(u, b, A)
    <3>1. CASE ~is_epoch_boundary(u)
      BY <2>2, <3>1, SuccessorsAre
    <3>2. CASE is_epoch_boundary(u)
      <4>1. PICK c \in CheckpointsIn(u, DOMAIN tree) :
              s = Apply(u, tree[b].proposer, NoAttestation, tree[c].validators, tree[c].turn)
        BY <2>2, <3>2, SuccessorsAre
      <4>2. c \in DOMAIN tree /\ tree[c].number = CheckpointNumber(u) /\ tree[c].validators # {}
        BY DEF CheckpointsIn
      <4>3. u.block_number = tree[p].number /\ MinerHistoryCheckLen(u) \in Nat
        BY <2>1, PossibleIsSnapshot
      <4>4. tree[c].number = tree[p].number + 1 - MinerHistoryCheckLen(u)
        BY <4>2, <4>3 DEF CheckpointNumber
      <4>5. tree[c].number \in 0..tree[h].number
        <5> DEFINE n == tree[c].number
                   k == tree[p].number
                   m == tree[b].number
                   top == tree[h].number
                   len == MinerHistoryCheckLen(u)
        <5>1. n \in Nat /\ k \in Nat /\ m \in Nat /\ top \in Nat /\ len \in Nat
          BY <1>3, <2>1, <4>2, <4>3
        <5>2. m = k + 1 /\ m <= top /\ n = k + 1 - len
          BY <1>1, <2>1, <4>4
        <5> HIDE DEF n, k, m, top, len
        <5>3. n \in 0..top
          BY <5>1, <5>2
        <5> QED
          BY <5>3 DEF n, top
      <4>6. PICK a \in A : tree[a].number = tree[c].number
        BY <1>1, <4>5
      <4>7. tree[a].validators = tree[c].validators /\ tree[a].turn = tree[c].turn
        BY <1>2, <4>2, <4>6
      <4>8. a \in CheckpointsIn(u, A)
        BY <4>2, <4>6, <4>7 DEF CheckpointsIn
      <4>9. s = Apply(u, tree[b].proposer, NoAttestation, tree[a].validators, tree[a].turn)
        BY <4>1, <4>7
      <4> QED
        BY <3>2, <4>8, <4>9, SuccessorsAre
    <3> QED
      BY <3>1, <3>2
  <2> QED
    BY <2>2, <2>3, <2>4, SnapshotsStep
<1> HIDE DEF G
<1>6. h \in G
  BY <1>4, <1>5, TreeInduction
<1>7. Service!Own(h) = Service!Snapshots(h, A)
  BY SameAncestors DEF Service!Own, A
<1> QED
  BY <1>1, <1>6, <1>7 DEF G

\* Where no height has two elected sets, a block has one snapshot at most.
LEMMA PossibleUnique ==
  ASSUME IsTree(tree), Uncontested
  PROVE  \A h \in DOMAIN tree : \A s, u \in Service!Possible(h) : s = u
<1> DEFINE G == {h \in DOMAIN tree : \A s, u \in Service!Possible(h) : s = u}
<1>1. Genesis \in G
  BY PossibleUnfolds DEF IsTree
<1>2. ASSUME NEW h \in DOMAIN tree \ {Genesis}, tree[h].parent \in G PROVE h \in G
  <2> SUFFICES ASSUME NEW s \in Service!Possible(h), NEW u \in Service!Possible(h) PROVE s = u
    OBVIOUS
  <2>1. PICK r \in Service!Possible(tree[h].parent) : s \in Service!Successors(r, h, DOMAIN tree)
    BY PossibleStep
  <2>2. PICK r2 \in Service!Possible(tree[h].parent) : u \in Service!Successors(r2, h, DOMAIN tree)
    BY PossibleStep
  <2>3. r2 = r
    BY <1>2
  <2>4. CASE ~is_epoch_boundary(r)
    BY <2>1, <2>2, <2>3, <2>4, SuccessorsAre DEF Checkpoints
  <2>5. CASE is_epoch_boundary(r)
    <3>1. PICK c \in Checkpoints(r) :
            s = Apply(r, tree[h].proposer, NoAttestation, tree[c].validators, tree[c].turn)
      BY <2>1, <2>5, SuccessorsAre DEF Checkpoints
    <3>2. PICK d \in Checkpoints(r) :
            u = Apply(r, tree[h].proposer, NoAttestation, tree[d].validators, tree[d].turn)
      BY <2>2, <2>3, <2>5, SuccessorsAre DEF Checkpoints
    <3>3. tree[c].validators = tree[d].validators /\ tree[c].turn = tree[d].turn
      BY DEF Checkpoints, CheckpointsIn, Uncontested
    <3> QED
      BY <3>1, <3>2, <3>3
  <2> QED
    BY <2>4, <2>5
<1> HIDE DEF G
<1>3. \A h \in DOMAIN tree : h \in G
  BY <1>1, <1>2, TreeInduction
<1> QED
  BY <1>3 DEF G

----------------------------------------------------------------------------
(* The inductive invariant. *)

\* A map from blocks to snapshots holds the right ones.
CacheOk(c) == \A h \in DOMAIN c : h \in DOMAIN tree /\ c[h] \in Service!Possible(h)

\* Blocks to apply again, from a child of the one with a snapshot up to the one asked about.
Path(todo, block) ==
  /\ todo \in Seq(DOMAIN tree \ {Genesis}) /\ todo # <<>> /\ todo[Len(todo)] = block
  /\ \A i \in 1..Len(todo) : todo[i] \in Ancestors(block)
  /\ \A i \in 1..(Len(todo) - 1) : tree[todo[i + 1]].parent = todo[i]

\* Where a thread may be: it works its way along the ancestors of its block, from a right snapshot.
Walking(q) == q.stage = "walk" /\ Path(q.todo, q.block) /\ q.at = tree[q.todo[1]].parent
Applying(q) ==
  q.stage = "apply" /\ Path(q.todo, q.block) /\ q.work \in Service!Possible(tree[q.todo[1]].parent)
Asking(q) ==
  /\ q = Ask(q.block, q.stage, q.at, q.todo, q.work, q.steady)
  /\ q.block \in DOMAIN tree
  /\ q.stage = "lookup" \/ Walking(q) \/ Applying(q)
Answered(q) ==
  /\ q = [stage |-> "done", block |-> q.block, work |-> q.work, steady |-> q.steady]
  /\ q.block \in DOMAIN tree /\ q.work \in Service!Possible(q.block) \cup {NoSnapshot}
ThreadOk(q) == q = Rest \/ Asking(q) \/ Answered(q)

HeadersOk ==
  /\ tree \in Trees /\ ValidTree
  /\ canon \in DOMAIN tree /\ Valid(canon) /\ disk \in DOMAIN tree /\ Valid(disk)
  /\ headers \subseteq DOMAIN tree
  /\ \A n \in DOMAIN numbers : numbers[n] \in DOMAIN tree /\ tree[numbers[n]].number = n

Kinds == {"header", "canon", "ask", "evict", "dbError", "restart"}

ThreadsOk == threads = [t \in Callers |-> threads[t]] /\ \A t \in Callers : ThreadOk(threads[t])

\* A question counts as steady only while its block is canonical.
SteadyOk == \A t \in Callers : Busy(t) /\ threads[t].steady => threads[t].block \in Ancestors(canon)

Inv ==
  /\ HeadersOk /\ CacheOk(cache) /\ CacheOk(db) /\ ThreadsOk /\ SteadyOk
  /\ budget \in [Kinds -> Nat]

LEMMA TreesAreTrees == ASSUME HeadersOk PROVE IsTree(tree)
BY ProviderConstants DEF HeadersOk

\* The fixed tree again: what was said of the new values with the old tree is said with the new one.
LEMMA CacheStays == ASSUME tree' = tree PROVE /\ CacheOk(cache') => CacheOk(cache)'
                                              /\ CacheOk(db') => CacheOk(db)'
<1>1. \A h : (Service!Possible(h))' = Service!Possible(h)
  BY TreeStays
<1> QED
  BY <1>1 DEF CacheOk

LEMMA ThreadStays ==
  ASSUME tree' = tree, NEW t, ThreadOk(threads'[t])
  PROVE  ThreadOk(threads[t])'
<1>1. \A h : (Service!Possible(h))' = Service!Possible(h)
  BY TreeStays
<1>2. \A h : Ancestors(h)' = Ancestors(h)
  BY TreeStays
<1>3. (ThreadOk(threads[t]))' <=> ThreadOk(threads'[t])
  BY <1>1, <1>2 DEF ThreadOk, Answered, Asking, Walking, Applying, Path, Rest, Ask
<1> QED
  BY <1>3

\* A snapshot filed under its block, or forgotten.
LEMMA InsertOk ==
  ASSUME NEW c, CacheOk(c), NEW h \in DOMAIN tree, NEW s \in Service!Possible(h)
  PROVE  CacheOk(Insert(c, h, s)) /\ Insert(c, h, s)[h] = s
BY DEF CacheOk, Insert

LEMMA WithoutOk ==
  ASSUME NEW c, CacheOk(c), NEW S
  PROVE  CacheOk(Without(c, S))
BY DEF CacheOk, Without, Restrict

LEMMA LookupOk ==
  ASSUME CacheOk(cache), CacheOk(db), NEW h, Known(h)
  PROVE  h \in DOMAIN tree /\ Lookup(h) \in Service!Possible(h)
BY DEF CacheOk, Known, Lookup

\* The blocks of a path.
LEMMA PathHead ==
  ASSUME NEW todo, NEW b, Path(todo, b)
  PROVE  /\ Head(todo) = todo[1] /\ todo[1] \in DOMAIN tree \ {Genesis} /\ todo[1] \in Ancestors(b)
         /\ Len(todo) = 1 => todo[1] = b
<1>1. Len(todo) \in Nat /\ Len(todo) # 0 /\ \A i \in 1..Len(todo) : todo[i] \in DOMAIN tree \ {Genesis}
  BY EmptySeq, LenProperties, ElementOfSeq DEF Path
<1>2. Head(todo) = todo[1]
  BY HeadTailProperties DEF Path
<1> QED
  BY <1>1, <1>2 DEF Path

LEMMA PathStart ==
  ASSUME IsTree(tree), NEW h \in DOMAIN tree \ {Genesis}
  PROVE  Path(<<h>>, h) /\ <<h>>[1] = h
<1>1. h \in Ancestors(h)
  BY AncestorFacts
<1> QED
  BY <1>1 DEF Path

LEMMA PathLonger ==
  ASSUME IsTree(tree), NEW b \in DOMAIN tree, NEW todo, Path(todo, b),
         NEW h \in DOMAIN tree \ {Genesis}, h = tree[todo[1]].parent
  PROVE  Path(<<h>> \o todo, b) /\ (<<h>> \o todo)[1] = h
<1> DEFINE n == Len(todo)
           longer == <<h>> \o todo
           D == DOMAIN tree \ {Genesis}
<1>1. n \in Nat /\ n # 0 /\ todo \in Seq(D) /\ <<h>> \in Seq(D) /\ Len(<<h>>) = 1 /\ <<h>>[1] = h
  BY EmptySeq, LenProperties DEF Path
<1>2. /\ longer \in Seq(D) /\ Len(longer) = n + 1
      /\ \A i \in 1..(n + 1) : longer[i] = IF i <= 1 THEN <<h>>[i] ELSE todo[i - 1]
  BY <1>1, ConcatProperties
<1>3. h \in Ancestors(b)
  BY PathHead, AncestorFacts
<1>4. /\ \A i \in 1..n : todo[i] \in Ancestors(b)
      /\ \A i \in 1..(n - 1) : tree[todo[i + 1]].parent = todo[i]
      /\ todo[n] = b
  BY DEF Path
<1> HIDE DEF n, D, longer
<1>5. longer # <<>> /\ longer[n + 1] = b /\ longer[1] = h
  <2>1. Len(longer) # 0
    BY <1>1, <1>2
  <2>2. 1 \in 1..(n + 1) /\ n + 1 \in 1..(n + 1) /\ ~(n + 1 <= 1) /\ (n + 1) - 1 = n
    BY <1>1
  <2>3. longer[1] = h
    BY <1>1, <1>2, <2>2
  <2>4. longer[n + 1] = todo[n]
    BY <1>2, <2>2
  <2> QED
    BY <1>4, <2>1, <2>3, <2>4
<1>6. ASSUME NEW i \in 1..(n + 1) PROVE longer[i] \in Ancestors(b)
  <2>1. CASE i = 1
    BY <1>3, <1>5, <2>1
  <2>2. CASE i # 1
    <3>1. ~(i <= 1) /\ i - 1 \in 1..n
      BY <1>1, <2>2
    <3> QED
      BY <1>2, <1>4, <3>1
  <2> QED
    BY <2>1, <2>2
<1>7. ASSUME NEW i \in 1..n PROVE tree[longer[i + 1]].parent = longer[i]
  <2>1. longer[i + 1] = todo[i]
    BY <1>1, <1>2
  <2>2. CASE i = 1
    BY <1>5, <2>1, <2>2
  <2>3. CASE i # 1
    <3>1. longer[i] = todo[i - 1] /\ i - 1 \in 1..(n - 1) /\ (i - 1) + 1 = i
      BY <1>1, <1>2, <2>3
    <3> QED
      BY <1>4, <2>1, <3>1
  <2> QED
    BY <2>2, <2>3
<1> QED
  BY <1>1, <1>2, <1>5, <1>6, <1>7 DEF Path, D, longer

LEMMA PathShorter ==
  ASSUME NEW b, NEW todo, Path(todo, b), Len(todo) # 1
  PROVE  Path(Tail(todo), b) /\ tree[Tail(todo)[1]].parent = todo[1]
<1> DEFINE n == Len(todo)
           rest == Tail(todo)
           D == DOMAIN tree \ {Genesis}
<1>1. n \in Nat /\ n > 1 /\ todo \in Seq(D)
  <2>1. todo \in Seq(D) /\ todo # <<>>
    BY DEF Path
  <2>2. n \in Nat /\ n # 0 /\ n # 1
    BY <2>1, EmptySeq
  <2>3. n > 1
    <3> HIDE DEF n
    <3> QED
      BY <2>2
  <2> QED
    BY <2>1, <2>2, <2>3
<1>2. rest \in Seq(D) /\ Len(rest) = n - 1 /\ \A i \in 1..(n - 1) : rest[i] = todo[i + 1]
  <2>1. todo # <<>>
    BY DEF Path
  <2> QED
    BY <1>1, <2>1, HeadTailProperties
<1>3. /\ \A i \in 1..n : todo[i] \in Ancestors(b)
      /\ \A i \in 1..(n - 1) : tree[todo[i + 1]].parent = todo[i]
      /\ todo[n] = b
  BY DEF Path
<1> HIDE DEF n, D, rest
<1>4. rest # <<>> /\ rest[n - 1] = b /\ tree[rest[1]].parent = todo[1]
  BY <1>1, <1>2, <1>3
<1>5. \A i \in 1..(n - 1) : rest[i] \in Ancestors(b)
  BY <1>1, <1>2, <1>3
<1>6. \A i \in 1..((n - 1) - 1) : tree[rest[i + 1]].parent = rest[i]
  BY <1>1, <1>2, <1>3
<1> QED
  BY <1>2, <1>4, <1>5, <1>6 DEF Path, D, rest

----------------------------------------------------------------------------
(* One block applied again. *)

LEMMA HeaderByNumber ==
  ASSUME HeadersOk, NEW n, NEW c \in get_header_by_number(n)
  PROVE  c \in DOMAIN tree /\ tree[c].number = n
<1>1. canon \in DOMAIN tree /\ IsTree(tree)
  BY TreesAreTrees DEF HeadersOk
<1>2. Ancestors(canon) \subseteq DOMAIN tree
  BY <1>1, AncestorFacts
<1>3. CASE n \in DOMAIN numbers
  BY <1>3 DEF get_header_by_number, HeadersOk
<1>4. CASE n \notin DOMAIN numbers
  BY <1>2, <1>4 DEF get_header_by_number
<1> QED
  BY <1>3, <1>4

\* The checkpoint headers that a rebuild finds.
FoundCheckpoints(s) == {c \in get_header_by_number(CheckpointNumber(s)) : tree[c].validators # {}}

LEMMA FoundAreCheckpoints ==
  ASSUME HeadersOk, NEW s
  PROVE  FoundCheckpoints(s) \subseteq Checkpoints(s)
BY HeaderByNumber DEF FoundCheckpoints, Checkpoints, CheckpointsIn

LEMMA RebuiltIs ==
  ASSUME NEW q, Applying(q)
  PROVE  LET h == q.todo[1]
         IN Rebuilt(q) =
              IF ~get_header_by_hash(h) THEN {NoSnapshot}
              ELSE IF ~is_epoch_boundary(q.work)
              THEN {Apply(q.work, tree[h].proposer, NoAttestation, {}, 0)}
              ELSE IF FoundCheckpoints(q.work) = {} THEN {NoSnapshot}
              ELSE {Apply(q.work, tree[h].proposer, NoAttestation, tree[c].validators, tree[c].turn) :
                      c \in FoundCheckpoints(q.work)}
<1>1. Head(q.todo) = q.todo[1]
  BY PathHead DEF Applying
<1> QED
  BY <1>1 DEF Rebuilt, FoundCheckpoints

\* A rebuild only makes snapshots that the block can have.
LEMMA RebuiltOk ==
  ASSUME HeadersOk, NEW q, Applying(q), NEW s \in Rebuilt(q), s # NoSnapshot
  PROVE  s \in Service!Possible(q.todo[1])
<1> DEFINE h == q.todo[1]
           u == q.work
<1>1. h \in DOMAIN tree \ {Genesis} /\ IsTree(tree) /\ u \in Service!Possible(tree[h].parent)
  BY PathHead, TreesAreTrees DEF Applying
<1>2. s \in Service!Successors(u, h, DOMAIN tree)
  <2>1. CASE ~is_epoch_boundary(u)
    <3>1. s = Apply(u, tree[h].proposer, NoAttestation, {}, 0)
      BY <2>1, RebuiltIs
    <3> QED
      BY <2>1, <3>1, SuccessorsAre DEF Checkpoints
  <2>2. CASE is_epoch_boundary(u)
    <3>1. PICK c \in FoundCheckpoints(u) :
            s = Apply(u, tree[h].proposer, NoAttestation, tree[c].validators, tree[c].turn)
      BY <2>2, RebuiltIs
    <3>2. c \in Checkpoints(u)
      BY FoundAreCheckpoints
    <3> QED
      BY <2>2, <3>1, <3>2, SuccessorsAre DEF Checkpoints
  <2> QED
    BY <2>1, <2>2
<1> QED
  BY <1>1, <1>2, PossibleStep

\* The ancestors of a block with a snapshot have one.
LEMMA PossibleDown ==
  ASSUME IsTree(tree), NEW b \in DOMAIN tree, Service!Possible(b) # {}, NEW a \in Ancestors(b)
  PROVE  Service!Possible(a) # {}
<1> DEFINE G == {h \in DOMAIN tree : Service!Possible(h) # {} => \A d \in Ancestors(h) : Service!Possible(d) # {}}
<1>1. Genesis \in G
  BY AncestorsUnfold DEF IsTree
<1>2. ASSUME NEW h \in DOMAIN tree \ {Genesis}, tree[h].parent \in G PROVE h \in G
  <2> SUFFICES ASSUME Service!Possible(h) # {}, NEW d \in Ancestors(h) PROVE Service!Possible(d) # {}
    OBVIOUS
  <2>1. PICK s : s \in Service!Possible(h)
    OBVIOUS
  <2>2. Service!Possible(tree[h].parent) # {}
    BY <2>1, PossibleStep
  <2>3. d = h \/ d \in Ancestors(tree[h].parent)
    BY AncestorsUnfold
  <2> QED
    BY <1>2, <2>2, <2>3
<1> HIDE DEF G
<1>3. b \in G
  BY <1>1, <1>2, TreeInduction
<1> QED
  BY <1>3 DEF G

\* A rebuild along the canonical chain always finds the headers it needs, and applies them, as
\* long as no height has two elected sets.
LEMMA RebuiltFound ==
  ASSUME HeadersOk, Uncontested, NEW q, Applying(q), q.block \in Ancestors(canon)
  PROVE  NoSnapshot \notin Rebuilt(q)
<1> DEFINE h == q.todo[1]
           p == tree[h].parent
           u == q.work
           n == CheckpointNumber(u)
<1>1. IsTree(tree) /\ canon \in DOMAIN tree /\ Service!Possible(canon) # {}
  <2>1. IsTree(tree) /\ canon \in DOMAIN tree /\ Service!Own(canon) # {}
    BY TreesAreTrees DEF HeadersOk, ValidTree
  <2> QED
    BY <2>1, ValidIsPossible
<1>2. /\ h \in DOMAIN tree \ {Genesis} /\ h \in Ancestors(canon) /\ p \in DOMAIN tree
      /\ tree[h].number = tree[p].number + 1 /\ tree[h].number <= tree[canon].number
  <2>1. h \in DOMAIN tree \ {Genesis} /\ h \in Ancestors(q.block)
    BY PathHead DEF Applying
  <2>2. h \in Ancestors(canon)
    BY <1>1, <2>1, AncestorFacts
  <2>3. tree[h].number <= tree[canon].number
    BY <1>1, <2>2, AncestorFacts
  <2> QED
    BY <1>1, <2>1, <2>2, <2>3 DEF IsTree
<1>3. PICK x \in Service!Possible(h) : TRUE
  BY <1>1, <1>2, PossibleDown
<1>4. u \in Service!Possible(p) /\ x # NoSnapshot /\ x \in Service!Successors(u, h, DOMAIN tree)
  <2>1. u \in Service!Possible(p)
    BY DEF Applying
  <2>2. x # NoSnapshot /\ \E r \in Service!Possible(p) : x \in Service!Successors(r, h, DOMAIN tree)
    BY <1>1, <1>2, <1>3, PossibleStep
  <2>3. \A r \in Service!Possible(p) : r = u
    BY <1>1, <1>2, <2>1, PossibleUnique
  <2> QED
    BY <2>1, <2>2, <2>3
<1>5. get_header_by_hash(h)
  BY <1>2 DEF get_header_by_hash
<1>6. CASE ~is_epoch_boundary(u)
  <2>1. x = Apply(u, tree[h].proposer, NoAttestation, {}, 0)
    BY <1>4, <1>6, SuccessorsAre DEF Checkpoints
  <2>2. Rebuilt(q) = {Apply(u, tree[h].proposer, NoAttestation, {}, 0)}
    BY <1>5, <1>6, RebuiltIs
  <2> QED
    BY <1>4, <2>1, <2>2
<1>7. CASE is_epoch_boundary(u)
  <2>1. PICK c \in Checkpoints(u) :
          x = Apply(u, tree[h].proposer, NoAttestation, tree[c].validators, tree[c].turn)
    BY <1>4, <1>7, SuccessorsAre DEF Checkpoints
  <2>2. c \in DOMAIN tree /\ tree[c].number = n /\ tree[c].validators # {}
    BY DEF Checkpoints, CheckpointsIn
  <2>3. n \in 0..tree[canon].number
    <3>1. /\ u.block_number = tree[p].number /\ MinerHistoryCheckLen(u) \in Nat
      BY <1>1, <1>2, <1>4, PossibleIsSnapshot
    <3>2. n \in Nat /\ tree[p].number \in Nat /\ tree[canon].number \in Nat
      BY <1>1, <1>2, <2>2, SnapshotConstants DEF IsTree
    <3>3. n = tree[p].number + 1 - MinerHistoryCheckLen(u)
      BY <3>1 DEF CheckpointNumber
    <3> HIDE DEF n, p, u, h
    <3> QED
      BY <1>2, <3>1, <3>2, <3>3
  <2>4. PICK d \in get_header_by_number(n) : TRUE
    <3>1. \E a \in Ancestors(canon) : tree[a].number = n
      BY <1>1, <2>3, AncestorFacts
    <3> QED
      BY <3>1 DEF get_header_by_number
  <2>5. ASSUME NEW e \in get_header_by_number(n)
        PROVE  tree[e].validators = tree[c].validators /\ tree[e].turn = tree[c].turn
    <3>1. e \in DOMAIN tree /\ tree[e].number = n
      BY HeaderByNumber
    <3> QED
      BY <2>2, <3>1 DEF Uncontested
  <2>6. d \in FoundCheckpoints(u)
    BY <2>2, <2>4, <2>5 DEF FoundCheckpoints
  <2>7. Rebuilt(q) = {Apply(u, tree[h].proposer, NoAttestation, tree[e].validators, tree[e].turn) :
                        e \in FoundCheckpoints(u)}
    BY <1>5, <1>7, <2>6, RebuiltIs
  <2>8. \A e \in FoundCheckpoints(u) :
          Apply(u, tree[h].proposer, NoAttestation, tree[e].validators, tree[e].turn) = x
    BY <2>1, <2>5 DEF FoundCheckpoints
  <2> QED
    BY <1>4, <2>7, <2>8
<1> QED
  BY <1>6, <1>7

----------------------------------------------------------------------------
(* The steps of a thread. *)

\* A thread goes on to q: it holds a right snapshot, or none, and none to a steady question only
\* if a write failed or a height is contested.
Moves(t, q) ==
  /\ threads' = [threads EXCEPT ![t] = q] /\ UNCHANGED <<tree, canon, disk, headers, numbers>>
  /\ Asking(threads[t]) /\ (Asking(q) \/ Answered(q))
  /\ q.block = threads[t].block /\ q.steady = threads[t].steady
  /\ CacheOk(cache') /\ CacheOk(db') /\ budget' \in [Kinds -> Nat]
  /\ Uncontested /\ Answered(q) /\ q.steady /\ budget' = budget => q.work # NoSnapshot

LEMMA SpendOk ==
  ASSUME budget \in [Kinds -> Nat], NEW k \in Kinds, Spend(k)
  PROVE  budget' \in [Kinds -> Nat] /\ budget' # budget
<1>1. budget[k] \in Nat /\ budget[k] > 0 /\ budget' = [budget EXCEPT ![k] = @ - 1]
  BY DEF Spend
<1>2. budget[k] - 1 \in Nat /\ budget[k] - 1 # budget[k]
  BY <1>1
<1>3. budget'[k] = budget[k] - 1
  BY <1>1
<1> HIDE DEF Kinds
<1> QED
  BY <1>1, <1>2, <1>3

\* Writing a snapshot.
LEMMA PersistedOk ==
  ASSUME CacheOk(db), budget \in [Kinds -> Nat], NEW h \in DOMAIN tree, NEW s \in Service!Possible(h),
         Persisted(h, s) \/ NotPersisted(s)
  PROVE  CacheOk(db') /\ budget' \in [Kinds -> Nat]
<1>1. CASE Persisted(h, s)
  BY <1>1, InsertOk DEF Persisted
<1>2. CASE NotPersisted(s)
  <2>1. db' = db /\ (Spend("dbError") \/ budget' = budget) /\ "dbError" \in Kinds
    BY <1>2 DEF NotPersisted, Kinds
  <2> QED
    BY <2>1, SpendOk
<1> QED
  BY <1>1, <1>2

LEMMA InsertedOk ==
  ASSUME CacheOk(cache), CacheOk(db), budget \in [Kinds -> Nat], NEW h \in DOMAIN tree,
         NEW s \in Service!Possible(h), insert(h, s)
  PROVE  CacheOk(cache') /\ CacheOk(db') /\ budget' \in [Kinds -> Nat] /\ cache'[h] = s
<1>1. CacheOk(cache') /\ cache'[h] = s
  BY InsertOk DEF insert
<1>2. CacheOk(db') /\ budget' \in [Kinds -> Nat]
  BY PersistedOk DEF insert
<1> QED
  BY <1>1, <1>2

LEMMA GenesisOk ==
  ASSUME HeadersOk, CacheOk(cache), CacheOk(db), budget \in [Kinds -> Nat], init_genesis_snapshot(Genesis)
  PROVE  /\ CacheOk(cache') /\ CacheOk(db') /\ budget' \in [Kinds -> Nat]
         /\ cache'[Genesis] \in Service!Possible(Genesis)
<1> DEFINE s == GenesisSnapshot(tree[Genesis].validators, DEFAULT_EPOCH_LENGTH)
<1>1. Genesis \in DOMAIN tree /\ s \in Service!Possible(Genesis) /\ insert(Genesis, s)
  BY TreesAreTrees, PossibleUnfolds DEF IsTree, init_genesis_snapshot
<1> HIDE DEF s
<1> QED
  BY <1>1, InsertedOk

\* An answer.
LEMMA ToldOk ==
  ASSUME NEW q, Asking(q), NEW s \in Service!Possible(q.block) \cup {NoSnapshot}
  PROVE  /\ Answered(Told(q, s)) /\ Told(q, s).block = q.block /\ Told(q, s).steady = q.steady
         /\ Told(q, s).work = s
BY DEF Told, Answered, Asking

\* A thread that is not done is busy, and if its question is steady the block is canonical.
LEMMA BusyFacts ==
  ASSUME Inv, NEW t \in Callers, threads[t].stage \in {"lookup", "walk", "apply"}
  PROVE  /\ Asking(threads[t]) /\ threads[t].block \in DOMAIN tree
         /\ threads[t].steady => threads[t].block \in Ancestors(canon)
<1>1. ThreadOk(threads[t]) /\ threads[t] # Rest /\ ~Answered(threads[t]) /\ Busy(t)
  BY DEF Inv, ThreadsOk, Rest, Answered, Busy
<1>2. Asking(threads[t])
  BY <1>1 DEF ThreadOk
<1> QED
  BY <1>1, <1>2 DEF Inv, SteadyOk, Asking

\* A record of a thread that is asking.
LEMMA AskIs ==
  ASSUME NEW b, NEW stage, NEW at, NEW todo, NEW work, NEW steady
  PROVE  LET q == Ask(b, stage, at, todo, work, steady)
         IN /\ q.block = b /\ q.stage = stage /\ q.at = at /\ q.todo = todo /\ q.work = work
            /\ q.steady = steady /\ q = Ask(q.block, q.stage, q.at, q.todo, q.work, q.steady)
            /\ stage # "done" => ~Answered(q)
BY DEF Ask, Answered

\* The changes that a step makes to it.
StartWalk(q, at, todo) == [q EXCEPT !.stage = "walk", !.at = at, !.todo = todo]
WalkOn(q, at, h) == [q EXCEPT !.at = at, !.todo = <<h>> \o @]
StartApply(q, work) == [q EXCEPT !.stage = "apply", !.work = work]
ApplyOn(q, work) == [q EXCEPT !.work = work, !.todo = Tail(@)]

LEMMA AskExcept ==
  ASSUME NEW b, NEW o, NEW a, NEW d, NEW w, NEW e, NEW q, q = Ask(b, o, a, d, w, e),
         NEW at, NEW todo, NEW work, NEW h
  PROVE  /\ StartWalk(q, at, todo) = Ask(b, "walk", at, todo, w, e)
         /\ WalkOn(q, at, h) = Ask(b, o, at, <<h>> \o d, w, e)
         /\ StartApply(q, work) = Ask(b, "apply", a, d, work, e)
         /\ ApplyOn(q, work) = Ask(b, o, a, Tail(d), work, e)
<1> DEFINE longer == <<h>> \o d
           rest == Tail(d)
           q1 == [q EXCEPT !.stage = "walk"]
           q2 == [q EXCEPT !.at = at]
           q3 == [q EXCEPT !.work = work]
           q4 == [q1 EXCEPT !.at = at]
           q5 == [q EXCEPT !.stage = "apply"]
<1>1. q1 = Ask(b, "walk", a, d, w, e) /\ q2 = Ask(b, o, at, d, w, e)
  BY DEF Ask
<1>2. q3 = Ask(b, o, a, d, work, e) /\ q5 = Ask(b, "apply", a, d, w, e) /\ q.todo = d
  BY DEF Ask
<1> HIDE DEF q1, q2, q3, q5, longer, rest
<1>3. q4 = Ask(b, "walk", at, d, w, e)
  BY <1>1 DEF Ask
<1> HIDE DEF q4
<1>4. [q4 EXCEPT !.todo = todo] = Ask(b, "walk", at, todo, w, e)
  BY <1>3 DEF Ask
<1>5. [q2 EXCEPT !.todo = longer] = Ask(b, o, at, longer, w, e)
  BY <1>1 DEF Ask
<1>6. [q5 EXCEPT !.work = work] = Ask(b, "apply", a, d, work, e)
  BY <1>2 DEF Ask
<1>7. [q3 EXCEPT !.todo = rest] = Ask(b, o, a, rest, work, e)
  BY <1>2 DEF Ask
<1>8. q2.todo = d /\ q3.todo = d
  BY <1>1, <1>2 DEF Ask
<1>9. StartWalk(q, at, todo) = [q4 EXCEPT !.todo = todo] /\ StartApply(q, work) = [q5 EXCEPT !.work = work]
  BY DEF StartWalk, StartApply, q1, q4, q5
<1>10. WalkOn(q, at, h) = [q2 EXCEPT !.todo = longer] /\ ApplyOn(q, work) = [q3 EXCEPT !.todo = rest]
  BY <1>2, <1>8 DEF WalkOn, ApplyOn, q2, q3, longer, rest
<1> QED
  BY <1>4, <1>5, <1>6, <1>7, <1>9, <1>10 DEF longer, rest

LEMMA AskChanges ==
  ASSUME NEW q, Asking(q)
  PROVE  /\ \A at, todo : StartWalk(q, at, todo) = Ask(q.block, "walk", at, todo, q.work, q.steady)
         /\ \A at, h : WalkOn(q, at, h) = Ask(q.block, q.stage, at, <<h>> \o q.todo, q.work, q.steady)
         /\ \A work : StartApply(q, work) = Ask(q.block, "apply", q.at, q.todo, work, q.steady)
         /\ \A work : ApplyOn(q, work) = Ask(q.block, q.stage, q.at, Tail(q.todo), work, q.steady)
<1>1. q = Ask(q.block, q.stage, q.at, q.todo, q.work, q.steady)
  BY DEF Asking
<1>2. ASSUME NEW at, NEW todo, NEW work, NEW h
      PROVE  /\ StartWalk(q, at, todo) = Ask(q.block, "walk", at, todo, q.work, q.steady)
             /\ WalkOn(q, at, h) = Ask(q.block, q.stage, at, <<h>> \o q.todo, q.work, q.steady)
             /\ StartApply(q, work) = Ask(q.block, "apply", q.at, q.todo, work, q.steady)
             /\ ApplyOn(q, work) = Ask(q.block, q.stage, q.at, Tail(q.todo), work, q.steady)
  BY <1>1, AskExcept
<1>3. \A at, todo : StartWalk(q, at, todo) = Ask(q.block, "walk", at, todo, q.work, q.steady)
  BY <1>2
<1>4. \A at, h : WalkOn(q, at, h) = Ask(q.block, q.stage, at, <<h>> \o q.todo, q.work, q.steady)
  BY <1>2
<1>5. \A work : /\ StartApply(q, work) = Ask(q.block, "apply", q.at, q.todo, work, q.steady)
                /\ ApplyOn(q, work) = Ask(q.block, q.stage, q.at, Tail(q.todo), work, q.steady)
  BY <1>2
<1> QED
  BY <1>3, <1>4, <1>5

LEMMA StepIs ==
  ASSUME NEW t, NEW q, Step(t, q)
  PROVE  threads' = [threads EXCEPT ![t] = q] /\ UNCHANGED <<tree, canon, disk, headers, numbers>>
BY DEF Step, chain

\* The lookup.
LEMMA LookupMoves ==
  ASSUME Inv, NEW t \in Callers, snapshot_by_hash(t)
  PROVE  \E q : Moves(t, q)
<1> DEFINE q == threads[t]
           h == q.block
<1>1. /\ HeadersOk /\ CacheOk(cache) /\ CacheOk(db) /\ budget \in [Kinds -> Nat] /\ IsTree(tree)
      /\ canon \in DOMAIN tree
  BY TreesAreTrees DEF Inv, HeadersOk
<1>2. q.stage = "lookup" /\ Asking(q) /\ h \in DOMAIN tree /\ (q.steady => h \in Ancestors(canon))
  BY BusyFacts DEF snapshot_by_hash
<1>3. CASE Known(h) /\ CacheHit(h) /\ Step(t, Told(q, Lookup(h))) /\ UNCHANGED <<db, budget>>
  <2>1. Lookup(h) \in Service!Possible(h) /\ Lookup(h) # NoSnapshot
    BY <1>1, <1>2, <1>3, LookupOk, PossibleIsSnapshot
  <2>2. CacheOk(cache') /\ db' = db /\ budget' = budget
    BY <1>1, <1>2, <1>3, <2>1, InsertOk DEF CacheHit
  <2>3. /\ Answered(Told(q, Lookup(h))) /\ Told(q, Lookup(h)).block = q.block
        /\ Told(q, Lookup(h)).steady = q.steady /\ Told(q, Lookup(h)).work = Lookup(h)
    BY <1>2, <2>1, ToldOk
  <2>4. Moves(t, Told(q, Lookup(h)))
    BY <1>1, <1>2, <1>3, <2>1, <2>2, <2>3, StepIs DEF Moves
  <2> QED
    BY <2>4
<1>4. CASE ~get_header_by_hash(h) /\ Step(t, Told(q, NoSnapshot)) /\ UNCHANGED <<cache, db, budget>>
  <2>1. ~q.steady
    BY <1>2, <1>4 DEF get_header_by_hash
  <2>2. /\ Answered(Told(q, NoSnapshot)) /\ Told(q, NoSnapshot).block = q.block
        /\ Told(q, NoSnapshot).steady = q.steady
    BY <1>2, ToldOk
  <2>3. Moves(t, Told(q, NoSnapshot))
    BY <1>1, <1>2, <1>4, <2>1, <2>2, StepIs DEF Moves
  <2> QED
    BY <2>3
<1>5. CASE h = Genesis /\ init_genesis_snapshot(h) /\ Step(t, Told(q, cache'[h]))
  <2>1. /\ CacheOk(cache') /\ CacheOk(db') /\ budget' \in [Kinds -> Nat]
        /\ cache'[h] \in Service!Possible(h)
    BY <1>1, <1>5, GenesisOk
  <2>2. cache'[h] # NoSnapshot
    BY <1>1, <1>2, <2>1, PossibleIsSnapshot
  <2>3. /\ Answered(Told(q, cache'[h])) /\ Told(q, cache'[h]).block = q.block
        /\ Told(q, cache'[h]).steady = q.steady /\ Told(q, cache'[h]).work = cache'[h]
    BY <1>2, <2>1, ToldOk
  <2>4. Moves(t, Told(q, cache'[h]))
    BY <1>2, <1>5, <2>1, <2>2, <2>3, StepIs DEF Moves
  <2> QED
    BY <2>4
<1>6. CASE /\ h # Genesis
           /\ Step(t, [q EXCEPT !.stage = "walk", !.at = tree[h].parent, !.todo = <<h>>])
           /\ UNCHANGED <<cache, db, budget>>
  <2> DEFINE r == Ask(h, "walk", tree[h].parent, <<h>>, q.work, q.steady)
  <2>1. StartWalk(q, tree[h].parent, <<h>>) = r
    BY <1>2, AskChanges
  <2>2. Path(<<h>>, h) /\ <<h>>[1] = h
    BY <1>1, <1>2, <1>6, PathStart
  <2>3. Asking(r) /\ ~Answered(r) /\ r.block = q.block /\ r.steady = q.steady
    <3>1. /\ r.block = q.block /\ r.stage = "walk" /\ r.at = tree[h].parent /\ r.todo = <<h>>
          /\ r.steady = q.steady /\ r = Ask(r.block, r.stage, r.at, r.todo, r.work, r.steady)
          /\ ~Answered(r)
      BY AskIs
    <3> HIDE DEF r
    <3> QED
      BY <1>2, <2>2, <3>1 DEF Asking, Walking
  <2>4. Step(t, r) /\ cache' = cache /\ db' = db /\ budget' = budget
    BY <1>6, <2>1 DEF StartWalk, StartApply
  <2> HIDE DEF r
  <2>5. Moves(t, r)
    BY <1>1, <1>2, <2>3, <2>4, StepIs DEF Moves
  <2> QED
    BY <2>5
<1> QED
  BY <1>3, <1>4, <1>5, <1>6 DEF snapshot_by_hash

\* One turn of the walk to an ancestor with a snapshot.
LEMMA WalkMoves ==
  ASSUME Inv, NEW t \in Callers, walk(t)
  PROVE  \E q : Moves(t, q)
<1> DEFINE q == threads[t]
           h == q.at
           first == q.todo[1]
<1>1. /\ HeadersOk /\ CacheOk(cache) /\ CacheOk(db) /\ budget \in [Kinds -> Nat] /\ IsTree(tree)
      /\ canon \in DOMAIN tree
  BY TreesAreTrees DEF Inv, HeadersOk
<1>2. /\ q.stage = "walk" /\ Asking(q) /\ q.block \in DOMAIN tree
      /\ q.steady => q.block \in Ancestors(canon)
  BY BusyFacts DEF walk
<1>3. Path(q.todo, q.block) /\ h = tree[first].parent
  BY <1>2 DEF Asking, Walking, Applying
<1>4. first \in DOMAIN tree \ {Genesis} /\ first \in Ancestors(q.block) /\ h \in DOMAIN tree
  BY <1>1, <1>3, PathHead DEF IsTree
<1>5. CASE ~get_header_by_hash(h) /\ Step(t, Told(q, NoSnapshot)) /\ UNCHANGED <<cache, db, budget>>
  <2>1. ~q.steady
    <3> SUFFICES ASSUME q.steady PROVE FALSE
      OBVIOUS
    <3>1. first \in Ancestors(canon)
      BY <1>1, <1>2, <1>4, AncestorFacts
    <3>2. h \in Ancestors(canon)
      BY <1>1, <1>3, <1>4, <3>1, AncestorFacts
    <3> QED
      BY <1>5, <3>2 DEF get_header_by_hash
  <2>2. /\ Answered(Told(q, NoSnapshot)) /\ Told(q, NoSnapshot).block = q.block
        /\ Told(q, NoSnapshot).steady = q.steady
    BY <1>2, ToldOk
  <2>3. Moves(t, Told(q, NoSnapshot))
    BY <1>1, <1>2, <1>5, <2>1, <2>2, StepIs DEF Moves
  <2> QED
    BY <2>3
<1>6. ASSUME NEW s \in Service!Possible(h), Step(t, [q EXCEPT !.stage = "apply", !.work = s]),
             CacheOk(cache'), CacheOk(db'), budget' \in [Kinds -> Nat]
      PROVE  \E r : Moves(t, r)
  <2> DEFINE r == Ask(q.block, "apply", q.at, q.todo, s, q.steady)
  <2>1. StartApply(q, s) = r
    BY <1>2, AskChanges
  <2>2. Asking(r) /\ ~Answered(r) /\ r.block = q.block /\ r.steady = q.steady
    <3>1. /\ r.block = q.block /\ r.stage = "apply" /\ r.work = s /\ r.todo = q.todo
          /\ r.steady = q.steady /\ r = Ask(r.block, r.stage, r.at, r.todo, r.work, r.steady)
          /\ ~Answered(r)
      BY AskIs
    <3> HIDE DEF r
    <3> QED
      BY <1>2, <1>3, <3>1 DEF Asking, Applying
  <2>3. Step(t, r)
    BY <1>6, <2>1 DEF StartWalk, StartApply
  <2> HIDE DEF r
  <2>4. Moves(t, r)
    BY <1>2, <1>6, <2>2, <2>3, StepIs DEF Moves
  <2> QED
    BY <2>4
<1>7. CASE /\ h = Genesis /\ init_genesis_snapshot(h)
           /\ Step(t, [q EXCEPT !.stage = "apply", !.work = cache'[h]])
  <2>1. /\ CacheOk(cache') /\ CacheOk(db') /\ budget' \in [Kinds -> Nat]
        /\ cache'[h] \in Service!Possible(h)
    BY <1>1, <1>7, GenesisOk
  <2> QED
    BY <1>6, <1>7, <2>1
<1>8. CASE /\ Known(h) /\ CacheHit(h) /\ Step(t, [q EXCEPT !.stage = "apply", !.work = Lookup(h)])
           /\ UNCHANGED <<db, budget>>
  <2>1. Lookup(h) \in Service!Possible(h)
    BY <1>1, <1>8, LookupOk
  <2>2. CacheOk(cache') /\ db' = db /\ budget' = budget
    BY <1>1, <1>4, <1>8, <2>1, InsertOk DEF CacheHit
  <2> QED
    BY <1>1, <1>6, <1>8, <2>1, <2>2
<1>9. CASE /\ h # Genesis /\ Step(t, [q EXCEPT !.at = tree[h].parent, !.todo = <<h>> \o @])
           /\ UNCHANGED <<cache, db, budget>>
  <2> DEFINE longer == <<h>> \o q.todo
             r == Ask(q.block, "walk", tree[h].parent, longer, q.work, q.steady)
  <2>1. WalkOn(q, tree[h].parent, h) = r
    BY <1>2, AskChanges
  <2>2. Path(longer, q.block) /\ longer[1] = h
    BY <1>1, <1>2, <1>3, <1>4, <1>9, PathLonger
  <2> HIDE DEF longer
  <2>3. Asking(r) /\ ~Answered(r) /\ r.block = q.block /\ r.steady = q.steady
    <3>1. /\ r.block = q.block /\ r.stage = "walk" /\ r.at = tree[h].parent /\ r.todo = longer
          /\ r.steady = q.steady /\ r = Ask(r.block, r.stage, r.at, r.todo, r.work, r.steady)
          /\ ~Answered(r)
      BY AskIs
    <3> HIDE DEF r
    <3> QED
      BY <1>2, <2>2, <3>1 DEF Asking, Walking
  <2>4. Step(t, r) /\ cache' = cache /\ db' = db /\ budget' = budget
    BY <1>9, <2>1 DEF WalkOn
  <2> HIDE DEF r
  <2>5. Moves(t, r)
    BY <1>1, <1>2, <2>3, <2>4, StepIs DEF Moves
  <2> QED
    BY <2>5
<1> QED
  BY <1>5, <1>7, <1>8, <1>9 DEF walk

\* One turn of the rebuild.
LEMMA RebuildMoves ==
  ASSUME Inv, NEW t \in Callers, try_rebuild(t)
  PROVE  \E q : Moves(t, q)
<1> DEFINE q == threads[t]
           h == q.todo[1]
           on(s) == IF Len(q.todo) = 1 THEN Told(q, s) ELSE ApplyOn(q, s)
<1>1. /\ HeadersOk /\ CacheOk(cache) /\ CacheOk(db) /\ budget \in [Kinds -> Nat] /\ IsTree(tree)
      /\ canon \in DOMAIN tree
  BY TreesAreTrees DEF Inv, HeadersOk
<1>2. /\ q.stage = "apply" /\ Asking(q) /\ q.block \in DOMAIN tree
      /\ q.steady => q.block \in Ancestors(canon)
  BY BusyFacts DEF try_rebuild
<1>3. Applying(q) /\ Path(q.todo, q.block)
  BY <1>2 DEF Asking, Walking, Applying
<1>4. Head(q.todo) = h /\ h \in DOMAIN tree /\ (Len(q.todo) = 1 => h = q.block)
  BY <1>3, PathHead
<1>5. PICK s \in Rebuilt(q) :
        \/ s = NoSnapshot /\ Step(t, Told(q, NoSnapshot)) /\ UNCHANGED <<cache, db, budget>>
        \/ /\ s # NoSnapshot /\ insert_cache_only(h, s)
           /\ \/ Persisted(h, s) /\ Step(t, on(s))
              \/ Step(t, on(s)) /\ UNCHANGED <<db, budget>>
              \/ /\ s.block_number % CHECKPOINT_INTERVAL = 0 /\ NotPersisted(s)
                 /\ Step(t, Told(q, NoSnapshot))
  BY <1>4 DEF try_rebuild, ApplyOn
<1>6. /\ Answered(Told(q, NoSnapshot)) /\ Told(q, NoSnapshot).block = q.block
      /\ Told(q, NoSnapshot).steady = q.steady
  BY <1>2, ToldOk
<1>7. CASE s = NoSnapshot
  <2>1. ~(Uncontested /\ q.steady)
    BY <1>1, <1>2, <1>3, <1>5, <1>7, RebuiltFound
  <2>2. Step(t, Told(q, NoSnapshot)) /\ cache' = cache /\ db' = db /\ budget' = budget
    BY <1>5, <1>7
  <2>3. Moves(t, Told(q, NoSnapshot))
    BY <1>1, <1>2, <1>6, <2>1, <2>2, StepIs DEF Moves
  <2> QED
    BY <2>3
<1>8. CASE s # NoSnapshot
  <2>1. s \in Service!Possible(h)
    BY <1>1, <1>3, <1>5, <1>8, RebuiltOk
  <2>2. CacheOk(cache')
    BY <1>1, <1>4, <1>5, <1>8, <2>1, InsertOk DEF insert_cache_only
  <2>3. /\ Asking(on(s)) \/ Answered(on(s))
        /\ on(s).block = q.block /\ on(s).steady = q.steady /\ on(s).work = s
    <3>1. CASE Len(q.todo) = 1
      BY <1>2, <1>4, <2>1, <3>1, ToldOk
    <3>2. CASE Len(q.todo) # 1
      <4> DEFINE rest == Tail(q.todo)
                 r == Ask(q.block, "apply", q.at, rest, s, q.steady)
      <4>1. on(s) = r
        BY <1>2, <3>2, AskChanges
      <4>2. Path(rest, q.block) /\ tree[rest[1]].parent = h
        BY <1>3, <3>2, PathShorter
      <4> HIDE DEF rest
      <4>3. /\ r.block = q.block /\ r.stage = "apply" /\ r.work = s /\ r.todo = rest
            /\ r.steady = q.steady /\ r = Ask(r.block, r.stage, r.at, r.todo, r.work, r.steady)
        BY AskIs
      <4> HIDE DEF r, on
      <4> QED
        BY <1>2, <2>1, <4>1, <4>2, <4>3 DEF Asking, Applying
    <3> QED
      BY <3>1, <3>2
  <2> HIDE DEF on
  <2>4. CASE /\ Step(t, on(s)) /\ CacheOk(db') /\ budget' \in [Kinds -> Nat]
    <3>1. Moves(t, on(s))
      BY <1>2, <1>8, <2>2, <2>3, <2>4, StepIs DEF Moves
    <3> QED
      BY <3>1
  <2>5. CASE Persisted(h, s) /\ Step(t, on(s))
    BY <1>1, <1>4, <2>1, <2>4, <2>5, PersistedOk
  <2>6. CASE Step(t, on(s)) /\ UNCHANGED <<db, budget>>
    BY <1>1, <2>4, <2>6
  <2>7. CASE s.block_number % CHECKPOINT_INTERVAL = 0 /\ NotPersisted(s) /\ Step(t, Told(q, NoSnapshot))
    <3>1. CacheOk(db') /\ budget' \in [Kinds -> Nat]
      BY <1>1, <1>4, <2>1, <2>7, PersistedOk
    <3>2. budget' # budget
      <4>1. Spend("dbError") /\ "dbError" \in Kinds
        BY <2>7 DEF NotPersisted, Kinds
      <4> QED
        BY <1>1, <4>1, SpendOk
    <3>3. Moves(t, Told(q, NoSnapshot))
      BY <1>2, <1>6, <2>2, <2>7, <3>1, <3>2, StepIs DEF Moves
    <3> QED
      BY <3>3
  <2> QED
    BY <1>5, <1>8, <2>5, <2>6, <2>7
<1> QED
  BY <1>7, <1>8

----------------------------------------------------------------------------
(* The steps of the system, as far as the threads are concerned. *)

\* What every step leaves right.
World ==
  /\ tree' = tree
  /\ canon' \in DOMAIN tree /\ tree[canon'].valid /\ disk' \in DOMAIN tree /\ tree[disk'].valid
  /\ headers' \subseteq DOMAIN tree
  /\ \A n \in DOMAIN numbers' : numbers'[n] \in DOMAIN tree /\ tree[numbers'[n]].number = n
  /\ CacheOk(cache') /\ CacheOk(db') /\ budget' \in [Kinds -> Nat]

Begins(t, h) ==
  /\ ~Busy(t) /\ canon' = canon
  /\ threads' = [threads EXCEPT ![t] = Ask(h, "lookup", h, <<>>, NoSnapshot, h \in Ancestors(canon))]

ThreadsStep ==
  \/ threads' = threads /\ canon' = canon
  \/ threads' = Unsettle(canon')
  \/ \E t \in Callers, h \in DOMAIN tree : Begins(t, h)
  \/ \E t \in Callers : \E q : Moves(t, q)
  \/ threads' = [t \in Callers |-> Rest]

LEMMA AskBegins ==
  ASSUME Inv, NEW t \in Callers, NEW h \in DOMAIN tree, ask(t, h)
  PROVE  World /\ ThreadsStep
<1>1. ~Busy(t) /\ Spend("ask") /\ "ask" \in Kinds /\ UNCHANGED <<cache, db>>
  BY DEF ask, Kinds
<1>2. /\ threads' = [threads EXCEPT ![t] = Ask(h, "lookup", h, <<>>, NoSnapshot, h \in Ancestors(canon))]
      /\ UNCHANGED <<tree, canon, disk, headers, numbers>>
  BY StepIs DEF ask
<1>3. budget' \in [Kinds -> Nat]
  BY <1>1, SpendOk DEF Inv
<1>4. World
  BY <1>1, <1>2, <1>3 DEF World, Inv, HeadersOk, Valid
<1>5. Begins(t, h)
  BY <1>1, <1>2 DEF Begins
<1> QED
  BY <1>4, <1>5 DEF ThreadsStep

LEMMA AnyStep ==
  ASSUME Inv, [Next]_vars
  PROVE  World /\ ThreadsStep
<1>1. /\ IsTree(tree) /\ HeadersOk /\ CacheOk(cache) /\ CacheOk(db) /\ budget \in [Kinds -> Nat]
      /\ canon \in DOMAIN tree /\ tree[canon].valid /\ disk \in DOMAIN tree /\ tree[disk].valid
      /\ headers \subseteq DOMAIN tree
      /\ \A n \in DOMAIN numbers : numbers[n] \in DOMAIN tree /\ tree[numbers[n]].number = n
  BY TreesAreTrees DEF Inv, HeadersOk, Valid
<1>2. ASSUME NEW k \in {"header", "canon", "evict", "restart"}, Spend(k) PROVE budget' \in [Kinds -> Nat]
  <2>1. k \in Kinds
    BY DEF Kinds
  <2> QED
    BY <1>1, <1>2, <2>1, SpendOk
<1>3. ASSUME NEW h \in DOMAIN tree \ {Genesis}, insert_header_to_cache(h) PROVE World /\ ThreadsStep
  <2>1. /\ tree' = tree /\ canon' = canon /\ disk' = disk /\ threads' = threads /\ cache' = cache
        /\ db' = db /\ headers' = headers \cup {h} /\ numbers' = Insert(numbers, tree[h].number, h)
        /\ Spend("header")
    BY <1>3 DEF insert_header_to_cache, chain
  <2>2. \A n \in DOMAIN numbers' : numbers'[n] \in DOMAIN tree /\ tree[numbers'[n]].number = n
    BY <1>1, <2>1 DEF Insert
  <2> QED
    BY <1>1, <1>2, <2>1, <2>2 DEF World, ThreadsStep
<1>4. ASSUME NEW h \in DOMAIN tree \ {Genesis}, SetCanonical(h) PROVE World /\ ThreadsStep
  <2>1. /\ tree' = tree /\ canon' = h /\ disk' = disk /\ threads' = Unsettle(h) /\ cache' = cache
        /\ db' = db /\ headers' = headers /\ numbers' = numbers /\ Spend("canon") /\ tree[h].valid
    BY <1>4 DEF SetCanonical, Valid
  <2>2. threads' = Unsettle(canon')
    BY <2>1 DEF Unsettle, Busy, Ancestors
  <2> QED
    BY <1>1, <1>2, <2>1, <2>2 DEF World, ThreadsStep
<1>5. ASSUME NEW h \in DOMAIN cache, evict_snapshot(h) PROVE World /\ ThreadsStep
  <2>1. /\ tree' = tree /\ canon' = canon /\ disk' = disk /\ threads' = threads
        /\ cache' = Without(cache, {h})
        /\ db' = db /\ headers' = headers /\ numbers' = numbers /\ Spend("evict")
    BY <1>5 DEF evict_snapshot, chain
  <2>2. CacheOk(cache')
    BY <1>1, <2>1, WithoutOk
  <2> QED
    BY <1>1, <1>2, <2>1, <2>2 DEF World, ThreadsStep
<1>6. ASSUME NEW h \in headers, evict_header(h) PROVE World /\ ThreadsStep
  <2>1. /\ tree' = tree /\ canon' = canon /\ disk' = disk /\ threads' = threads /\ cache' = cache
        /\ db' = db /\ headers' = headers \ {h} /\ numbers' = numbers /\ Spend("evict")
    BY <1>6 DEF evict_header, chain
  <2> QED
    BY <1>1, <1>2, <2>1 DEF World, ThreadsStep
<1>7. ASSUME NEW n \in DOMAIN numbers, evict_number(n) PROVE World /\ ThreadsStep
  <2>1. /\ tree' = tree /\ canon' = canon /\ disk' = disk /\ threads' = threads /\ cache' = cache
        /\ db' = db /\ headers' = headers /\ numbers' = Without(numbers, {n}) /\ Spend("evict")
    BY <1>7 DEF evict_number, chain
  <2>2. \A k \in DOMAIN numbers' : numbers'[k] \in DOMAIN tree /\ tree[numbers'[k]].number = k
    BY <1>1, <2>1 DEF Without, Restrict
  <2> QED
    BY <1>1, <1>2, <2>1, <2>2 DEF World, ThreadsStep
<1>8. CASE UNCHANGED vars
  BY <1>1, <1>8 DEF World, ThreadsStep, vars
<1>9. ASSUME NEW t \in Callers, NEW n, get_snapshot(t, n) PROVE World /\ ThreadsStep
  <2>1. CASE \E h \in Ancestors(canon) : tree[h].number = n /\ ask(t, h)
    <3>1. PICK h \in Ancestors(canon) : ask(t, h)
      BY <2>1
    <3>2. h \in DOMAIN tree
      BY <1>1, AncestorFacts
    <3> QED
      BY <3>1, <3>2, AskBegins
  <2> QED
    BY <1>8, <1>9, <2>1 DEF get_snapshot
<1>10. ASSUME NEW t \in Callers, ThreadStep(t) PROVE World /\ ThreadsStep
  <2>1. PICK q : Moves(t, q)
    BY <1>10, LookupMoves, WalkMoves, RebuildMoves DEF ThreadStep
  <2> QED
    BY <1>1, <2>1 DEF World, ThreadsStep, Moves
<1>11. CASE Flush
  BY <1>1, <1>11 DEF Flush, World, ThreadsStep
<1>12. CASE restart
  <2>1. /\ tree' = tree /\ canon' = disk /\ disk' = disk /\ threads' = [t \in Callers |-> Rest]
        /\ cache' = <<>> /\ db' = db /\ headers' = {} /\ numbers' = <<>> /\ Spend("restart")
    BY <1>12 DEF restart
  <2>2. DOMAIN cache' = {} /\ DOMAIN numbers' = {}
    BY <2>1
  <2> QED
    BY <1>1, <1>2, <2>1, <2>2 DEF World, ThreadsStep, CacheOk
<1> QED
  BY <1>3, <1>4, <1>5, <1>6, <1>7, <1>8, <1>9, <1>10, <1>11, <1>12, AskBegins DEF Next

\* A thread that is neither idle nor done is asking.
LEMMA StageFacts ==
  ASSUME NEW q, ThreadOk(q)
  PROVE  /\ q.stage \in {"idle", "lookup", "walk", "apply", "done"}
         /\ q.stage = "idle" <=> q = Rest
         /\ q.stage = "done" <=> Answered(q)
         /\ q.stage \in {"lookup", "walk", "apply"} <=> Asking(q)
<1>1. q = Rest => q.stage = "idle"
  BY DEF Rest
<1>2. Asking(q) => q.stage \in {"lookup", "walk", "apply"}
  BY DEF Asking, Walking, Applying
<1>3. Answered(q) => q.stage = "done"
  BY DEF Answered
<1> QED
  BY <1>1, <1>2, <1>3 DEF ThreadOk

\* A question loses its steadiness and nothing else.
LEMMA UnsettleFacts ==
  ASSUME Inv, NEW tip, NEW t \in Callers
  PROVE  LET q == threads[t]
             r == Unsettle(tip)[t]
         IN /\ ThreadOk(r) /\ r.stage = q.stage
            /\ q.stage # "idle" => r.block = q.block
            /\ q.stage = "done" => r = q
            /\ Busy(t) /\ r.steady => r.block \in Ancestors(tip)
<1> DEFINE q == threads[t]
           r == Unsettle(tip)[t]
<1>1. ThreadOk(q)
  BY DEF Inv, ThreadsOk
<1>2. r = IF Busy(t) /\ q.block \notin Ancestors(tip) THEN [q EXCEPT !.steady = FALSE] ELSE q
  BY DEF Unsettle
<1>3. CASE Busy(t) /\ q.block \notin Ancestors(tip)
  <2>1. Asking(q)
    BY <1>1, <1>3, StageFacts DEF Busy
  <2> DEFINE b == q.block
             o == q.stage
             a == q.at
             d == q.todo
             w == q.work
             e == q.steady
  <2>2. q = Ask(b, o, a, d, w, e) /\ r = [q EXCEPT !.steady = FALSE]
    BY <1>2, <1>3, <2>1 DEF Asking
  <2>3. r = Ask(b, o, a, d, w, FALSE)
    <3> HIDE DEF b, o, a, d, w, e, q, r
    <3> QED
      BY <2>2 DEF Ask
  <2>4. /\ r.block = b /\ r.stage = o /\ r.at = a /\ r.todo = d /\ r.work = w
        /\ r.steady = FALSE /\ r = Ask(r.block, r.stage, r.at, r.todo, r.work, r.steady)
    <3> HIDE DEF b, o, a, d, w, r
    <3> QED
      BY <2>3 DEF Ask
  <2>5. Asking(r)
    <3> HIDE DEF r
    <3> QED
      BY <2>1, <2>4 DEF Asking, Walking, Applying
  <2>6. ThreadOk(r)
    BY <2>5 DEF ThreadOk
  <2> QED
    BY <1>3, <2>4, <2>6 DEF Busy
<1>4. CASE ~(Busy(t) /\ q.block \notin Ancestors(tip))
  BY <1>1, <1>2, <1>4
<1> QED
  BY <1>3, <1>4

LEMMA InvPrime ==
  ASSUME Inv, World, threads' = [t \in Callers |-> threads'[t]],
         \A t \in Callers : ThreadOk(threads'[t]),
         \A t \in Callers : threads'[t].stage \in {"lookup", "walk", "apply"} /\ threads'[t].steady
           => threads'[t].block \in Ancestors(canon')
  PROVE  Inv'
<1>1. tree' = tree
  BY DEF World
<1>2. HeadersOk'
  <2>1. \A h : (Service!Own(h))' = Service!Own(h)
    BY <1>1, TreeStays
  <2>2. ValidTree'
    BY <1>1, <2>1 DEF Inv, HeadersOk, ValidTree, Valid
  <2>3. (tree \in Trees)'
    BY <1>1 DEF Inv, HeadersOk
  <2> QED
    BY <1>1, <2>2, <2>3 DEF World, HeadersOk, Valid
<1>3. CacheOk(cache)' /\ CacheOk(db)'
  BY <1>1, CacheStays DEF World
<1>4. ThreadsOk'
  <2>1. \A t \in Callers : ThreadOk(threads[t])'
    BY <1>1, ThreadStays
  <2> QED
    BY <2>1 DEF ThreadsOk
<1>5. SteadyOk'
  <2>1. ASSUME NEW t \in Callers, Busy(t)', (threads[t].steady)'
        PROVE  (threads[t].block \in Ancestors(canon))'
    <3>1. threads'[t].stage \in {"lookup", "walk", "apply"}
      BY <2>1, StageFacts DEF Busy
    <3>2. threads'[t].block \in Ancestors(canon')
      BY <2>1, <3>1
    <3>3. Ancestors(canon)' = Ancestors(canon')
      BY <1>1 DEF Ancestors
    <3> QED
      BY <3>2, <3>3
  <2> QED
    BY <2>1 DEF SteadyOk
<1>6. (budget \in [Kinds -> Nat])'
  BY DEF World, Kinds
<1> QED
  BY <1>2, <1>3, <1>4, <1>5, <1>6 DEF Inv

LEMMA StepInv ==
  ASSUME Inv, World, ThreadsStep
  PROVE  Inv'
<1>1. /\ tree' = tree /\ canon \in DOMAIN tree /\ threads = [t \in Callers |-> threads[t]]
      /\ \A t \in Callers : ThreadOk(threads[t]) /\ IsTree(tree)
      /\ \A t \in Callers : threads[t].stage \in {"lookup", "walk", "apply"} /\ threads[t].steady
           => threads[t].block \in Ancestors(canon)
  BY TreesAreTrees DEF Inv, World, HeadersOk, ThreadsOk, SteadyOk, Busy
<1>2. CASE threads' = threads /\ canon' = canon
  BY <1>1, <1>2, InvPrime
<1>3. CASE threads' = Unsettle(canon')
  <2>1. threads' = [t \in Callers |-> threads'[t]]
    BY <1>3 DEF Unsettle
  <2>2. ASSUME NEW t \in Callers
        PROVE  /\ ThreadOk(threads'[t])
               /\ threads'[t].stage \in {"lookup", "walk", "apply"} /\ threads'[t].steady
                    => threads'[t].block \in Ancestors(canon')
    <3>1. /\ ThreadOk(threads'[t]) /\ threads'[t].stage = threads[t].stage
          /\ Busy(t) /\ threads'[t].steady => threads'[t].block \in Ancestors(canon')
      BY <1>3, UnsettleFacts
    <3> QED
      BY <3>1 DEF Busy
  <2> QED
    BY <2>1, <2>2, InvPrime
<1>4. ASSUME NEW t \in Callers, NEW h \in DOMAIN tree, Begins(t, h) PROVE Inv'
  <2> DEFINE q == Ask(h, "lookup", h, <<>>, NoSnapshot, h \in Ancestors(canon))
  <2>1. threads' = [threads EXCEPT ![t] = q] /\ canon' = canon
    BY <1>4 DEF Begins
  <2>2. /\ q.block = h /\ q.stage = "lookup" /\ (q.steady <=> h \in Ancestors(canon))
        /\ q = Ask(q.block, q.stage, q.at, q.todo, q.work, q.steady)
    <3> DEFINE e == h \in Ancestors(canon)
    <3>1. q = Ask(h, "lookup", h, <<>>, NoSnapshot, e)
      OBVIOUS
    <3> HIDE DEF e, q
    <3>2. /\ q.block = h /\ q.stage = "lookup" /\ q.steady = e
          /\ q = Ask(q.block, q.stage, q.at, q.todo, q.work, q.steady)
      BY <3>1, AskIs
    <3> QED
      BY <3>2 DEF e
  <2> HIDE DEF q
  <2>3. ThreadOk(q)
    BY <2>2 DEF ThreadOk, Asking
  <2>4. threads' = [u \in Callers |-> threads'[u]]
    BY <1>1, <2>1
  <2>5. \A u \in Callers : threads'[u] = IF u = t THEN q ELSE threads[u]
    BY <1>1, <2>1
  <2> QED
    BY <1>1, <2>1, <2>2, <2>3, <2>4, <2>5, InvPrime
<1>5. ASSUME NEW t \in Callers, NEW q, Moves(t, q) PROVE Inv'
  <2>1. /\ threads' = [threads EXCEPT ![t] = q] /\ canon' = canon /\ ThreadOk(q) /\ Asking(threads[t])
        /\ q.block = threads[t].block /\ q.steady = threads[t].steady
    BY <1>5 DEF Moves, ThreadOk
  <2>2. threads' = [u \in Callers |-> threads'[u]]
    BY <1>1, <2>1
  <2>3. \A u \in Callers : threads'[u] = IF u = t THEN q ELSE threads[u]
    BY <1>1, <2>1
  <2>4. q.steady => q.block \in Ancestors(canon)
    BY <1>1, <2>1, StageFacts
  <2> QED
    BY <1>1, <2>1, <2>2, <2>3, <2>4, InvPrime
<1>6. CASE threads' = [t \in Callers |-> Rest]
  <2>1. \A t \in Callers : threads'[t] = Rest
    BY <1>6
  <2>2. \A t \in Callers : ThreadOk(threads'[t]) /\ threads'[t].stage = "idle"
    BY <2>1 DEF ThreadOk, Rest
  <2> QED
    BY <1>6, <2>2, InvPrime
<1> QED
  BY <1>2, <1>3, <1>4, <1>5, <1>6 DEF ThreadsStep

\* Both caches and every answer only ever hold snapshots of the block they are for.
LEMMA Invariant == Spec => []Inv
<1>1. ASSUME Init PROVE Inv
  <2>1. /\ tree \in Trees /\ ValidTree /\ canon \in DOMAIN tree /\ Valid(canon) /\ disk = canon
        /\ headers = {} /\ DOMAIN numbers = {} /\ DOMAIN cache = {} /\ DOMAIN db = {}
        /\ threads = [t \in Callers |-> Rest]
    BY <1>1, ProviderConstants DEF Init
  <2>2. budget \in [Kinds -> Nat]
    BY <1>1, ProviderConstants DEF Init, Kinds
  <2>3. HeadersOk /\ CacheOk(cache) /\ CacheOk(db)
    BY <2>1 DEF HeadersOk, CacheOk
  <2>4. \A t \in Callers : threads[t] = Rest /\ ~Busy(t)
    BY <2>1 DEF Busy, Rest
  <2>5. ThreadsOk /\ SteadyOk
    BY <2>1, <2>4 DEF ThreadsOk, SteadyOk, ThreadOk
  <2> QED
    BY <2>2, <2>3, <2>5 DEF Inv
<1>2. ASSUME Inv, [Next]_vars PROVE Inv'
  BY <1>2, AnyStep, StepInv
<1> QED
  BY <1>1, <1>2, PTL DEF Spec

----------------------------------------------------------------------------
(* The theorems. *)

\* CanonicalAnswered of SnapshotProvider: a canonical block always gets its snapshot from
\* snapshot_by_hash, whatever caches and restarts left, unless a write fails or its height has
\* two elected sets.
THEOREM CanonicalGetsSnapshot == Spec => CanonicalAnswered
<1> DEFINE A == \A t \in Callers :
                  /\ Uncontested
                  /\ Busy(t) /\ threads'[t].stage = "done"
                  /\ threads'[t].steady
                  /\ budget' = budget
                  => threads'[t].work # NoSnapshot
<1>1. ASSUME Inv, [Next]_vars PROVE [A]_vars
  <2> SUFFICES ASSUME NEW t \in Callers, Uncontested, Busy(t), threads'[t].stage = "done",
                      threads'[t].steady, budget' = budget
               PROVE  threads'[t].work # NoSnapshot
    OBVIOUS
  <2>1. ThreadsStep
    BY <1>1, AnyStep
  <2>2. threads = [u \in Callers |-> threads[u]] /\ threads[t].stage # "done"
    BY <1>1 DEF Inv, ThreadsOk, Busy
  <2>3. threads' # threads
    BY <2>2
  <2>4. threads' # Unsettle(canon')
    BY <1>1, <2>2, UnsettleFacts
  <2>5. threads' # [u \in Callers |-> Rest]
    BY DEF Rest
  <2>6. ASSUME NEW u \in Callers, NEW h \in DOMAIN tree, Begins(u, h) PROVE FALSE
    <3>1. ~Busy(u) /\ threads' = [threads EXCEPT ![u] =
            Ask(h, "lookup", h, <<>>, NoSnapshot, h \in Ancestors(canon))]
      BY <2>6 DEF Begins
    <3> QED
      BY <2>2, <3>1
  <2>7. PICK u \in Callers : \E q : Moves(u, q)
    BY <2>1, <2>3, <2>4, <2>5, <2>6 DEF ThreadsStep
  <2>8. PICK q : Moves(u, q)
    BY <2>7
  <2>9. threads' = [threads EXCEPT ![u] = q]
    BY <2>8 DEF Moves
  <2>10. u = t /\ threads'[t] = q
    BY <2>2, <2>9
  <2>11. Answered(q)
    <3>1. ThreadOk(q)
      BY <2>8 DEF Moves, ThreadOk
    <3> QED
      BY <2>10, <3>1, StageFacts
  <2> QED
    BY <2>8, <2>10, <2>11 DEF Moves
<1>2. Spec => [][A]_vars
  BY <1>1, Invariant, PTL DEF Spec
<1> QED
  BY <1>2 DEF CanonicalAnswered

\* snapshot_by_hash implements the safety part of SnapshotService: what a caller sees are the
\* steps of a service that answers with nothing or with the snapshot the block's own ancestors
\* determine.  Only where another block at the height of an ancestor elects another set may the
\* answer be one computed with that block's set.
THEOREM ServiceImplemented == Spec => Service!ServiceSafety
<1> DEFINE C == [t \in Callers |-> Client(t)]
<1>1. ASSUME Init PROVE Service!ServiceInit
  <2>1. \A t \in Callers : Client(t) = Service!Idle
    BY <1>1 DEF Init, Client, Rest, Service!Idle
  <2> QED
    BY <2>1 DEF Service!ServiceInit
<1>2. ASSUME Inv, [Next]_vars PROVE [Service!ServiceNext]_<<tree, C>>
  <2>1. World /\ ThreadsStep
    BY <1>2, AnyStep
  <2>2. /\ tree' = tree /\ threads = [u \in Callers |-> threads[u]]
        /\ \A t \in Callers : ThreadOk(threads[t])
    BY <1>2, <2>1 DEF Inv, ThreadsOk, World
  <2>3. ASSUME NEW q, ThreadOk(q)
        PROVE  q.stage \in {"idle", "lookup", "walk", "apply", "done"}
    BY <2>3, StageFacts
  <2>4. ASSUME \A t \in Callers : Client(t)' = Client(t) PROVE [Service!ServiceNext]_<<tree, C>>
    BY <2>2, <2>4
  <2>5. CASE threads' = threads
    BY <2>4, <2>5 DEF Client
  <2>6. CASE threads' = Unsettle(canon')
    <3>1. ASSUME NEW t \in Callers PROVE Client(t)' = Client(t)
      <4>1. /\ threads'[t].stage = threads[t].stage
            /\ threads[t].stage # "idle" => threads'[t].block = threads[t].block
            /\ threads[t].stage = "done" => threads'[t] = threads[t]
        BY <1>2, <2>6, UnsettleFacts
      <4> QED
        BY <4>1 DEF Client
    <3> QED
      BY <2>4, <3>1
  <2>7. ASSUME NEW t \in Callers, NEW h \in DOMAIN tree, Begins(t, h) PROVE Service!ServiceNext
    <3> DEFINE q == Ask(h, "lookup", h, <<>>, NoSnapshot, h \in Ancestors(canon))
    <3>1. ~Busy(t) /\ threads' = [threads EXCEPT ![t] = q]
      BY <2>7 DEF Begins
    <3>2. q.block = h /\ q.stage = "lookup"
      BY AskIs
    <3> HIDE DEF q
    <3>3. \A u \in Callers : threads'[u] = IF u = t THEN q ELSE threads[u]
      BY <2>2, <3>1
    <3>4. Client(t).state # "waiting"
      BY <3>1 DEF Busy, Client
    <3>5. \A u \in Callers : Client(u)' = IF u = t THEN Service!Waiting(h) ELSE Client(u)
      BY <3>2, <3>3 DEF Client, Service!Waiting
    <3>6. C' = [C EXCEPT ![t] = Service!Waiting(h)]
      <4> HIDE DEF q
      <4> QED
        BY <3>5
    <3>7. Service!Ask(t, h)
      BY <3>4, <3>6 DEF Service!Ask
    <3> QED
      BY <2>2, <3>7 DEF Service!ServiceNext
  <2>8. ASSUME NEW t \in Callers, NEW q, Moves(t, q) PROVE [Service!ServiceNext]_<<tree, C>>
    <3>1. /\ threads' = [threads EXCEPT ![t] = q] /\ Asking(threads[t]) /\ (Asking(q) \/ Answered(q))
          /\ q.block = threads[t].block
      BY <2>8 DEF Moves
    <3>2. \A u \in Callers : threads'[u] = IF u = t THEN q ELSE threads[u]
      BY <2>2, <3>1
    <3>3. Client(t) = [state |-> "waiting", block |-> q.block]
      <4>1. threads[t].stage \in {"lookup", "walk", "apply"}
        BY <2>2, <3>1, StageFacts
      <4> QED
        BY <3>1, <4>1 DEF Client
    <3>4. CASE Asking(q)
      <4>1. q.stage \in {"lookup", "walk", "apply"}
        BY <3>4, StageFacts DEF ThreadOk
      <4>2. \A u \in Callers : Client(u)' = Client(u)
        BY <3>2, <3>3, <4>1 DEF Client
      <4> QED
        BY <2>4, <4>2
    <3>5. CASE Answered(q)
      <4> DEFINE a == Service!Answered(q.block, q.work)
      <4>1. q.stage = "done" /\ q.work \in Service!Possible(q.block) \cup {NoSnapshot}
        BY <3>5 DEF Answered
      <4>2. \A u \in Callers : Client(u)' = IF u = t THEN a ELSE Client(u)
        BY <3>2, <4>1 DEF Client, Service!Answered
      <4>3. C[t].state = "waiting" /\ C[t].block = q.block
        BY <3>3
      <4>4. C' = [C EXCEPT ![t] = Service!Answered(C[t].block, q.work)]
        BY <4>2, <4>3
      <4>5. Service!NoSnapshot = NoSnapshot
        BY DEF Service!NoSnapshot, NoSnapshot
      <4>6. q.work \in Service!Right(C[t].block) \cup {Service!NoSnapshot}
        <5>1. IsTree(tree) /\ q.block \in DOMAIN tree
          BY <1>2, <3>1, TreesAreTrees DEF Inv, HeadersOk, Asking
        <5>2. Service!Undisputed(q.block) => Service!Possible(q.block) \subseteq Service!Own(q.block)
          BY <5>1, UndisputedIsOwn
        <5>3. Service!Possible(q.block) \subseteq Service!Right(q.block)
          BY <5>2 DEF Service!Right
        <5> QED
          BY <4>1, <4>3, <4>5, <5>3
      <4>7. Service!Reply(t)
        BY <4>3, <4>4, <4>6 DEF Service!Reply
      <4> QED
        BY <2>2, <4>7 DEF Service!ServiceNext
    <3> QED
      BY <3>1, <3>4, <3>5
  <2>9. CASE threads' = [t \in Callers |-> Rest]
    <3>1. \A t \in Callers : Client(t)' = Service!Idle
      BY <2>9 DEF Client, Rest, Service!Idle
    <3>2. Service!Restart
      BY <3>1 DEF Service!Restart
    <3> QED
      BY <2>2, <3>2 DEF Service!ServiceNext
  <2> QED
    BY <2>1, <2>5, <2>6, <2>7, <2>8, <2>9 DEF ThreadsStep
<1>3. Spec => Service!ServiceInit /\ [][Service!ServiceNext]_<<tree, C>>
  BY <1>1, <1>2, Invariant, PTL DEF Spec
<1> QED
  BY <1>3, PTL DEF Service!ServiceSafety
============================================================================
