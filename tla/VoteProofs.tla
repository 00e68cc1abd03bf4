----------------------------- MODULE VoteProofs ----------------------------
(***************************************************************************)
(* Proofs about vote production, for any number of parallel tasks, any     *)
(* heads, any capacity of the journal and any number of restarts; and      *)
(* about the vote pool, for any votes, any width of block numbers, any     *)
(* limit and any sequence of operations; and that a node in which they     *)
(* work together is an instance of both.                                   *)
(***************************************************************************)
EXTENDS Voting, FiniteSetTheorems, SequenceTheorems, WellFoundedInduction, TLAPS

----------------------------------------------------------------------------
(* Lemmas about the operators of the journal. *)

\* The vote built for a head is vote data.
LEMMA VoteForType == \A h \in Heads : VoteFor(h) \in VoteData
BY ProducerConstants DEF VoteFor, VoteData, HeadHeader

\* An upper bound of a set that belongs to it is its greatest element.
LEMMA MaxIs ==
  ASSUME NEW S \in SUBSET Int, NEW x \in S, \A y \in S : x >= y
  PROVE  Max(S) = x
<1>1. \E m \in S : \A y \in S : m >= y
  OBVIOUS
<1>2. Max(S) \in S /\ \A y \in S : Max(S) >= y
  BY <1>1 DEF Max
<1>3. PICK m \in S : m = Max(S)
  BY <1>2
<1>4. m >= x /\ x >= m
  BY <1>2, <1>3
<1>5. m \in Int /\ x \in Int
  OBVIOUS
<1> QED
  BY <1>3, <1>4, <1>5

\* A lower bound of a set that belongs to it is its least element.
LEMMA MinIs ==
  ASSUME NEW S \in SUBSET Int, NEW x \in S, \A y \in S : x <= y
  PROVE  Min(S) = x
<1>1. \E m \in S : \A y \in S : m <= y
  OBVIOUS
<1>2. Min(S) \in S /\ \A y \in S : Min(S) <= y
  BY <1>1 DEF Min
<1>3. PICK m \in S : m = Min(S)
  BY <1>2
<1>4. m <= x /\ x <= m
  BY <1>2, <1>3
<1>5. m \in Int /\ x \in Int
  OBVIOUS
<1> QED
  BY <1>3, <1>4, <1>5

\* Appending to the file keeps its type.
LEMMA AppendLineType ==
  ASSUME NEW d \in Disk, NEW vd \in VoteData, NEW how \in Writes
  PROVE  AppendLine(d, vd, how) \in Disk
<1> DEFINE n == Len(d.lines)
           new == [parses |-> how # "short_write", data |-> vd]
           torn == [d.lines[n] EXCEPT !.parses = FALSE]
<1>1. /\ d.lines \in Seq(Line) /\ d.open \in BOOLEAN
      /\ d.open => d.lines # <<>>
  BY DEF Disk
<1>2. /\ Append(d.lines, new) \in Seq(Line)
      /\ Append(d.lines, new) # <<>>
  <2>1. new \in Line
    BY DEF Line
  <2> HIDE DEF new
  <2> QED
    BY <1>1, <2>1, AppendProperties
<1>3. ASSUME d.open
      PROVE  /\ [d.lines EXCEPT ![n] = torn] \in Seq(Line)
             /\ [d.lines EXCEPT ![n] = torn] # <<>>
  <2>1. n \in 1..Len(d.lines)
    BY <1>1, <1>3, LenProperties, EmptySeq
  <2>2. d.lines[n] \in Line
    BY <1>1, <2>1, ElementOfSeq
  <2>3. torn \in Line
    BY <2>2 DEF Line
  <2> HIDE DEF torn, n
  <2>4. /\ [d.lines EXCEPT ![n] = torn] \in Seq(Line)
        /\ Len([d.lines EXCEPT ![n] = torn]) = Len(d.lines)
    BY <1>1, <2>1, <2>3, ExceptSeq
  <2> QED
    BY <1>1, <1>3, <2>4, EmptySeq
<1> QED
  BY <1>1, <1>2, <1>3 DEF AppendLine, Disk

\* A non-empty set of naturals bounded by n has a greatest element.
LEMMA MaxInSet ==
  ASSUME NEW n \in Nat, NEW S \in SUBSET (0..n), S # {}
  PROVE  Max(S) \in S
<1> DEFINE T == {n - y : y \in S}
<1>1. T \subseteq Nat
  OBVIOUS
<1>2. T # {}
  <2>1. PICK y \in S : TRUE
    OBVIOUS
  <2>2. n - y \in T
    OBVIOUS
  <2> QED
    BY <2>2
<1> HIDE DEF T
<1>3. PICK d \in T : \A e \in T : ~(<<e, d>> \in OpToRel(<, Nat))
  BY <1>1, <1>2, NatLessThanWellFounded, WFMin
<1>4. \A e \in T : ~(e < d)
  BY <1>1, <1>3 DEF OpToRel
<1>5. PICK m \in S : d = n - m
  BY DEF T
<1>6. \A y \in S : m >= y
  <2> TAKE y \in S
  <2>1. n - y \in T
    BY DEF T
  <2> QED
    BY <1>4, <1>5, <2>1
<1> QED
  BY <1>6, MaxIs

\* A non-empty set of naturals has a least element.
LEMMA MinInSet ==
  ASSUME NEW S \in SUBSET Nat, S # {}
  PROVE  Min(S) \in S
<1>1. PICK d \in S : \A e \in S : ~(<<e, d>> \in OpToRel(<, Nat))
  BY NatLessThanWellFounded, WFMin
<1>2. \A e \in S : ~(e < d)
  BY <1>1 DEF OpToRel
<1>3. \A e \in S : d <= e
  BY <1>2
<1> QED
  BY <1>3, MinIs

\* Adding a vote keeps the cache well formed.
LEMMA LruAddType ==
  ASSUME NEW l, IsLru(l), NEW vd \in VoteData
  PROVE  IsLru(LruAdd(l, vd))
<1> DEFINE p == PushBack(l, vd)
           e == EvictFront(p)
<1>1. /\ p.next = l.next + 1
      /\ DOMAIN p.votes = DOMAIN l.votes \cup {l.next}
      /\ \A i \in DOMAIN p.votes : p.votes[i] = IF i = l.next THEN vd ELSE l.votes[i]
      /\ p.votes \in [DOMAIN p.votes -> VoteData]
  BY DEF PushBack, IsLru
<1> HIDE DEF p
<1>2. IsLru(p)
  BY <1>1 DEF IsLru
<1>3. /\ e.next = p.next
      /\ DOMAIN e.votes \subseteq DOMAIN p.votes
      /\ e.votes \in [DOMAIN e.votes -> VoteData]
  BY <1>1 DEF EvictFront, Restrict
<1> HIDE DEF e
<1>4. IsLru(e)
  BY <1>2, <1>3 DEF IsLru
<1>5. CASE LruContains(l, vd.target_number)
  BY <1>5 DEF LruAdd, IsLru
<1>6. CASE ~LruContains(l, vd.target_number)
  BY <1>4, <1>6 DEF LruAdd, p, e
<1> QED
  BY <1>5, <1>6

\* Reloading any file gives a well formed cache.
LEMMA LoadType ==
  ASSUME NEW lines \in Seq(Line)
  PROVE  IsLru(LoadFromDisk(lines))
<1> DEFINE buf == Recent(lines)
           same(i) == {j \in buf : lines[j].data.target_number = lines[i].data.target_number}
           n == Len(lines)
<1>1. n \in Nat /\ DOMAIN lines = 1..n /\ buf \subseteq 1..n
  BY LenProperties DEF Recent, Parsed
<1>2. ASSUME NEW i \in buf
      PROVE  lines[Max(same(i))].data \in VoteData
  <2>1. same(i) \in SUBSET (0..n) /\ same(i) # {}
    BY <1>1, <1>2
  <2>2. Max(same(i)) \in same(i)
    <3> HIDE DEF same, n
    <3> QED BY <1>1, <2>1, MaxInSet
  <2>3. Max(same(i)) \in 1..n
    BY <1>1, <2>2
  <2> QED
    <3>1. lines[Max(same(i))] \in Line
      BY <2>3, ElementOfSeq
    <3> QED
      BY <3>1 DEF Line
<1> HIDE DEF same, n, buf
<1> DEFINE first == {i \in buf : \A j \in same(i) : i <= j}
<1>3. LoadFromDisk(lines) = [next |-> n + 1, votes |-> [i \in first |-> lines[Max(same(i))].data]]
  BY DEF LoadFromDisk, same, n, buf
<1>4. first \subseteq 1..n
  BY <1>1
<1>5. [i \in first |-> lines[Max(same(i))].data] \in [first -> VoteData]
  BY <1>2
<1> HIDE DEF first
<1> QED
  BY <1>1, <1>3, <1>4, <1>5 DEF IsLru

\* The record of recent targets is a sequence of hashes.
LEMMA TouchProducedType ==
  ASSUME produced \in Seq(Hashes), NEW hash \in Hashes
  PROVE  TouchProduced(hash) \in Seq(Hashes)
<1> DEFINE r == RemoveFirst(produced, hash)
<1>1. r \in Seq(Hashes)
  <2>1. CASE \E i \in 1..Len(produced) : produced[i] = hash
    <3> DEFINE k == SelectInSeq(produced, LAMBDA v : v = hash)
    <3>1. k \in 1..Len(produced)
      <4> DEFINE I == {i \in 1..Len(produced) : produced[i] = hash}
      <4>1. I \in SUBSET (0..Len(produced)) /\ I # {} /\ Len(produced) \in Nat
        BY <2>1, LenProperties
      <4>2. k = Min(I)
        BY <4>1 DEF SelectInSeq
      <4> HIDE DEF I
      <4>3. Min(I) \in I
        BY <4>1, MinInSet
      <4> QED
        BY <4>2, <4>3 DEF I
    <3> HIDE DEF k
    <3>2. /\ SubSeq(produced, 1, k - 1) \in Seq(Hashes)
          /\ SubSeq(produced, k + 1, Len(produced)) \in Seq(Hashes)
      BY <3>1, LenProperties, ElementOfSeq, SubSeqProperties
    <3>3. r = SubSeq(produced, 1, k - 1) \o SubSeq(produced, k + 1, Len(produced))
      BY <2>1 DEF RemoveFirst, RemoveAt, k
    <3> QED
      BY <3>2, <3>3, ConcatProperties
  <2>2. CASE ~\E i \in 1..Len(produced) : produced[i] = hash
    BY <2>2 DEF RemoveFirst
  <2> QED
    BY <2>1, <2>2
<1> HIDE DEF r
<1>2. Append(r, hash) \in Seq(Hashes) /\ Append(r, hash) # <<>>
  BY <1>1, AppendProperties
<1> QED
  BY <1>2, HeadTailProperties DEF TouchProduced, r

----------------------------------------------------------------------------
(* Type correctness. *)

\* Every reachable state of vote production is well typed: the journal's cache
\* and file, the record of produced targets, the counter and the tasks.
THEOREM TypeCorrect == Spec => []TypeOK
<1>1. Init => TypeOK
  <2> SUFFICES ASSUME Init PROVE TypeOK
    OBVIOUS
  <2>1. IsLru(lru)
    BY DEF Init, EmptyLru, IsLru
  <2>2. disk \in Disk
    BY DEF Init, EmptyDisk, Disk
  <2> QED
    BY <2>1, <2>2, EmptySeq DEF Init, TypeOK, Stages
<1>2. TypeOK /\ [Next]_vars => TypeOK'
  <2> SUFFICES ASSUME TypeOK, [Next]_vars PROVE TypeOK'
    OBVIOUS
  <2> USE DEF TypeOK, Goto, Stages, shared, history
  <2>1. ASSUME NEW t \in Tasks, NEW h \in Heads, Start(t, h)
        PROVE  TypeOK'
    <3>1. h.hash \in Hashes
      BY ProducerConstants DEF HeadHeader
    <3>2. produced' \in Seq(Hashes)
      BY <2>1, <3>1, TouchProducedType DEF Start
    <3> QED
      BY <2>1, <3>2 DEF Start
  <2>2. ASSUME NEW t \in Tasks, Warmup(t)
        PROVE  TypeOK'
    BY <2>2 DEF Warmup
  <2>3. ASSUME NEW t \in Tasks, Snapshot(t)
        PROVE  TypeOK'
    BY <2>3, ProducerConstants DEF Snapshot
  <2>4. ASSUME NEW t \in Tasks, CheckRules(t)
        PROVE  TypeOK'
    BY <2>4 DEF CheckRules
  <2>5. ASSUME NEW t \in Tasks, SignFails(t)
        PROVE  TypeOK'
    BY <2>5 DEF SignFails
  <2>6. ASSUME NEW t \in Tasks, SignAndPersist(t)
        PROVE  TypeOK'
    <3>1. VoteFor(head[t]) \in VoteData
      BY VoteForType
    <3>2. PICK how \in Writes : /\ WriteVote(VoteFor(head[t]), how)
                                /\ failed' = IF how = "ok" THEN failed ELSE failed + 1
      BY <2>6 DEF SignAndPersist, WriteOutcomes, Writes
    <3>3. IsLru(lru')
      BY <3>1, <3>2, LruAddType DEF WriteVote
    <3>4. disk' \in Disk
      BY <3>1, <3>2, AppendLineType DEF WriteVote
    <3>5. signed' \in Seq(VoteData) /\ vote' \in [Tasks -> Nat]
      BY <2>6, <3>1, AppendProperties, LenProperties DEF SignAndPersist
    <3>6. raced' \in BOOLEAN /\ stale' \subseteq Tasks /\ failed' \in Nat
      BY <2>6, <3>2 DEF SignAndPersist
    <3> QED
      BY <2>6, <3>3, <3>4, <3>5, <3>6 DEF SignAndPersist
  <2>7. ASSUME NEW t \in Tasks, Publish(t)
        PROVE  TypeOK'
    BY <2>7 DEF Publish
  <2>8. CASE Restart
    <3>1. disk' \in Disk /\ failed' \in Nat
      <4>1. CASE disk' = disk /\ failed' = failed
        BY <4>1
      <4>2. ASSUME NEW t \in Tasks, NEW how \in WriteOutcomes,
                   disk' = AppendLine(disk, VoteFor(head[t]), how),
                   failed' = failed + 1
            PROVE  disk' \in Disk /\ failed' \in Nat
        BY <4>2, VoteForType, AppendLineType DEF WriteOutcomes, Writes
      <4> QED
        BY <2>8, <4>1, <4>2 DEF Restart
    <3>2. disk'.lines \in Seq(Line)
      BY <3>1 DEF Disk
    <3>3. IsLru(lru')
      BY <2>8, <3>2, LoadType DEF Restart
    <3> QED
      BY <2>8, <3>1, <3>3, EmptySeq DEF Restart
  <2>9. CASE UNCHANGED vars
    BY <2>9 DEF vars
  <2> QED
    BY <2>1, <2>2, <2>3, <2>4, <2>5, <2>6, <2>7, <2>8, <2>9 DEF Next, Step
<1> QED
  BY <1>1, <1>2, PTL DEF Spec

----------------------------------------------------------------------------
(* The two voting rules, over the history of signed votes.                  *)
(*                                                                          *)
(* NoDoubleVote is not inductive: it says nothing of what the cache holds.  *)
(* The strengthening says that, as long as no check was overtaken and no    *)
(* write failed, the cache holds exactly the last MAX_RECENT_ENTRIES signed *)
(* votes in order, the file holds all of them, and a rule check that was    *)
(* not overtaken still holds when its vote is persisted.                    *)

Window(n) == {i \in 1..n : i > n - MAX_RECENT_ENTRIES}

CacheOf(s) == [next |-> Len(s) + 1, votes |-> [i \in Window(Len(s)) |-> s[i]]]

FileOf(s) == [i \in 1..Len(s) |-> [parses |-> TRUE, data |-> s[i]]]

Compatible(old, new) ==
  /\ old.target_number # new.target_number
  /\ ~ /\ new.source_number < old.source_number
       /\ old.target_number < new.target_number
       /\ new.target_number - old.target_number <= MALICIOUS_VOTE_SLASH_SCOPE
  /\ ~ /\ old.source_number < new.source_number
       /\ new.target_number < old.target_number
       /\ old.target_number - new.target_number <= UPPER_LIMIT_OF_VOTE_BLOCK_NUMBER

CacheIsRecent == lru = CacheOf(signed)

FileIsComplete == ~MemOnly => disk.lines = FileOf(signed) /\ ~disk.open

ChecksHold ==
  \A t \in Tasks : pc[t] = "sign" /\ t \notin stale
    => UnderRules(lru, head[t].justified, head[t].number)

SignedCompatible ==
  \A i, j \in 1..Len(signed) : Remembered(i, j) => Compatible(signed[i], signed[j])

Carried ==
  /\ \A i \in 1..Len(signed) : signed[i].source_number < signed[i].target_number
  /\ published \subseteq 1..Len(signed)
  /\ \A t \in Tasks : pc[t] = "publish" => vote[t] \in 1..Len(signed)

CleanInv ==
  /\ Carried
  /\ Clean => CacheIsRecent /\ FileIsComplete /\ ChecksHold /\ SignedCompatible

\* A vote that passes under_rules against a cache is compatible, in the sense of
\* both rules, with every vote of the cache.
LEMMA RulesGiveCompatible ==
  ASSUME NEW l, NEW h \in Heads, NEW vd \in Entries(l), vd \in VoteData,
         vd.source_number < vd.target_number,
         UnderRules(l, h.justified, h.number)
  PROVE  Compatible(vd, VoteFor(h))
<1>1. /\ h.justified \in Nat /\ h.number \in Nat
      /\ vd.source_number \in Nat /\ vd.target_number \in Nat
  BY ProducerConstants DEF HeadHeader, VoteData
<1>2. vd.target_number # h.number
  BY DEF UnderRules, SameHeightAllowed, LruContains
<1>3. ASSUME h.justified < vd.source_number, vd.target_number < h.number,
             h.number - vd.target_number <= MALICIOUS_VOTE_SLASH_SCOPE
      PROVE  FALSE
  <2>1. vd.target_number \in BackwardStart(h.justified, h.number)..(h.number - 1)
    BY <1>1, <1>3, JournalConstants DEF BackwardStart
  <2> QED
    BY <1>1, <1>3, <2>1 DEF UnderRules, BackwardAllowed
<1>4. ASSUME vd.source_number < h.justified, h.number < vd.target_number,
             vd.target_number - h.number <= UPPER_LIMIT_OF_VOTE_BLOCK_NUMBER
      PROVE  FALSE
  <2>1. vd.target_number \in (h.number + 1)..(h.number + UPPER_LIMIT_OF_VOTE_BLOCK_NUMBER)
    BY <1>1, <1>4, JournalConstants
  <2> QED
    BY <1>1, <1>4, <2>1 DEF UnderRules, ForwardAllowed
<1> QED
  BY <1>2, <1>3, <1>4 DEF Compatible, VoteFor

\* Adding a vote of a new height to the cache of the last votes: the cache of
\* the last votes of the longer history.
LEMMA AddKeepsRecent ==
  ASSUME NEW s \in Seq(VoteData), NEW vd \in VoteData,
         ~LruContains(CacheOf(s), vd.target_number)
  PROVE  LruAdd(CacheOf(s), vd) = CacheOf(Append(s, vd))
<1> DEFINE n == Len(s)
           K == MAX_RECENT_ENTRIES
           a == Append(s, vd)
           p == PushBack(CacheOf(s), vd)
           W == DOMAIN p.votes
<1>1. n \in Nat /\ K \in Nat \ {0}
  BY LenProperties, JournalConstants
<1>2. Len(a) = n + 1 /\ a[n + 1] = vd /\ \A i \in 1..n : a[i] = s[i]
  BY AppendProperties
<1>3. p = [next |-> n + 2, votes |-> [i \in Window(n) \cup {n + 1} |-> a[i]]]
  <2>1. \A i \in Window(n) : i # n + 1 /\ s[i] = a[i]
    BY <1>1, <1>2 DEF Window
  <2> DEFINE f == [i \in Window(n) |-> s[i]]
             g == [i \in Window(n) \cup {n + 1} |-> a[i]]
             h == [i \in DOMAIN f \cup {n + 1} |-> IF i = n + 1 THEN vd ELSE f[i]]
  <2>2. CacheOf(s) = [next |-> n + 1, votes |-> f]
    BY DEF CacheOf
  <2>3. h = g
    BY <1>1, <1>2, <2>1
  <2> HIDE DEF f
  <2>4. p = [next |-> n + 2, votes |-> h]
    <3>1. n + 1 + 1 = n + 2
      BY <1>1
    <3> HIDE DEF n
    <3> QED
      BY <2>2, <3>1 DEF PushBack
  <2> HIDE DEF g, h
  <2> QED
    BY <2>3, <2>4 DEF g
<1>4. W = Window(n) \cup {n + 1}
  BY <1>3
<1> HIDE DEF p, a, n, K, W
<1>5. CASE n >= K
  <2>1. W = (n - K + 1)..(n + 1)
    BY <1>1, <1>4, <1>5 DEF Window, K
  <2>2. Cardinality(W) = K + 1
    BY <1>1, <1>5, <2>1, FS_Interval
  <2>3. Min(W) = n - K + 1
    <3>1. W \in SUBSET Int /\ n - K + 1 \in W /\ \A y \in W : n - K + 1 <= y
      BY <1>1, <1>5, <2>1
    <3> QED
      BY <3>1, MinIs
  <2>4. W \ {Min(W)} = Window(n + 1)
    BY <1>1, <1>5, <2>1, <2>3 DEF Window, K
  <2>5. EvictFront(p) = [next |-> n + 2, votes |-> [i \in Window(n + 1) |-> a[i]]]
    <3>1. Cardinality(DOMAIN p.votes) > MAX_RECENT_ENTRIES
      BY <1>1, <2>2 DEF W, K
    <3>2. EvictFront(p) = [next |-> p.next, votes |-> Restrict(p.votes, Window(n + 1))]
      BY <3>1, <2>4 DEF EvictFront, W
    <3>3. Window(n + 1) \subseteq Window(n) \cup {n + 1}
      BY <1>4, <2>4
    <3>4. Restrict(p.votes, Window(n + 1)) = [i \in Window(n + 1) |-> a[i]]
      BY <1>3, <3>3 DEF Restrict
    <3> QED
      BY <1>3, <3>2, <3>4
  <2>6. LruAdd(CacheOf(s), vd) = EvictFront(p)
    BY DEF LruAdd, p
  <2>7. CacheOf(a) = [next |-> n + 2, votes |-> [i \in Window(n + 1) |-> a[i]]]
    <3>1. Len(a) + 1 = n + 2
      BY <1>1, <1>2
    <3> QED
      BY <1>2, <3>1 DEF CacheOf
  <2> QED
    BY <2>5, <2>6, <2>7 DEF a
<1>6. CASE n < K
  <2>1. W = 1..(n + 1)
    BY <1>1, <1>4, <1>6 DEF Window, K
  <2>2. Cardinality(W) = n + 1
    BY <1>1, <2>1, FS_Interval
  <2>3. EvictFront(p) = p
    BY <1>1, <1>6, <2>2 DEF EvictFront, W, K
  <2>4. W = Window(n + 1)
    BY <1>1, <1>6, <2>1 DEF Window, K
  <2>5. LruAdd(CacheOf(s), vd) = EvictFront(p)
    BY DEF LruAdd, p
  <2>6. CacheOf(a) = [next |-> n + 2, votes |-> [i \in Window(n + 1) |-> a[i]]]
    <3>1. Len(a) + 1 = n + 2
      BY <1>1, <1>2
    <3> QED
      BY <1>2, <3>1 DEF CacheOf
  <2>7. p = [next |-> n + 2, votes |-> [i \in Window(n + 1) |-> a[i]]]
    BY <1>3, <1>4, <2>4
  <2> QED
    BY <2>3, <2>5, <2>6, <2>7 DEF a
<1> QED
  BY <1>1, <1>5, <1>6

\* Reloading a complete file of votes gives the cache of the last ones, provided
\* that no two of those have the same height.
LEMMA LoadMirrors ==
  ASSUME NEW s \in Seq(VoteData),
         \A i, j \in Window(Len(s)) :
           s[i].target_number = s[j].target_number => i = j
  PROVE  LoadFromDisk(FileOf(s)) = CacheOf(s)
<1> DEFINE n == Len(s)
           K == MAX_RECENT_ENTRIES
           lines == FileOf(s)
           buf == Recent(lines)
           same(i) == {j \in buf : lines[j].data.target_number = lines[i].data.target_number}
           first == {i \in buf : \A j \in same(i) : i <= j}
<1>1. n \in Nat /\ K \in Nat \ {0}
  BY LenProperties, JournalConstants
<1>2. /\ DOMAIN lines = 1..n
      /\ \A i \in 1..n : lines[i].parses /\ lines[i].data = s[i]
  BY DEF FileOf
<1>3. Len(lines) = n
  <2>1. lines \in [1..n -> Line]
    <3>1. \A i \in 1..n : [parses |-> TRUE, data |-> s[i]] \in Line
      BY ElementOfSeq DEF Line
    <3> QED
      BY <3>1 DEF FileOf
  <2>2. lines \in Seq(Line)
    BY <1>1, <2>1, SeqDef
  <2>3. DOMAIN lines = 1..Len(lines) /\ Len(lines) \in Nat
    BY <2>2, LenProperties
  <2> HIDE DEF n, lines
  <2> QED
    BY <1>1, <1>2, <2>3
<1> HIDE DEF n, K, lines
<1>4. Parsed(lines) = 1..n
  BY <1>2 DEF Parsed
<1>5. ASSUME NEW i \in 1..n
      PROVE  Cardinality({j \in Parsed(lines) : j > i}) = n - i
  <2>1. {j \in Parsed(lines) : j > i} = (i + 1)..n
    BY <1>1, <1>4
  <2>2. Cardinality((i + 1)..n) = n - i
    BY <1>1, FS_Interval
  <2> QED
    BY <2>1, <2>2
<1>6. buf = Window(n)
  BY <1>1, <1>4, <1>5 DEF Recent, Window, K
<1> HIDE DEF buf
<1>7. ASSUME NEW i \in buf
      PROVE  same(i) = {i}
  BY <1>2, <1>6 DEF Window, n
<1>8. ASSUME NEW i \in buf
      PROVE  Max(same(i)) = i
  <2>1. i \in Int
    BY <1>1, <1>6 DEF Window
  <2>2. {i} \in SUBSET Int /\ i \in {i} /\ \A y \in {i} : i >= y
    BY <2>1
  <2>3. Max({i}) = i
    BY <2>2, MaxIs
  <2> QED
    BY <1>7, <2>3
<1>9. first = Window(n)
  BY <1>1, <1>6, <1>7 DEF Window
<1>10. LoadFromDisk(lines) =
         [next |-> Len(lines) + 1, votes |-> [i \in first |-> lines[Max(same(i))].data]]
  BY DEF LoadFromDisk, buf
<1>11. [i \in first |-> lines[Max(same(i))].data] = [i \in Window(n) |-> s[i]]
  <2>1. ASSUME NEW i \in Window(n)
        PROVE  lines[Max(same(i))].data = s[i]
    BY <1>1, <1>2, <1>6, <1>8 DEF Window
  <2> HIDE DEF same
  <2> QED
    BY <1>9, <2>1
<1> HIDE DEF first, same
<1> QED
  BY <1>3, <1>10, <1>11 DEF CacheOf, n, lines

\* An interval determines its length.
LEMMA IntervalEnds ==
  ASSUME NEW m \in Nat, NEW n \in Nat, 1..m = 1..n
  PROVE  m = n
<1>1. CASE m < n
  <2>1. n \in 1..n /\ n \notin 1..m
    BY <1>1
  <2> QED
    BY <2>1
<1>2. CASE n < m
  <2>1. m \in 1..m /\ m \notin 1..n
    BY <1>2
  <2> QED
    BY <2>1
<1> QED
  BY <1>1, <1>2

\* Appending the line of a vote to the complete file of a history gives the
\* complete file of the longer history.
LEMMA FileGrows ==
  ASSUME NEW s \in Seq(VoteData), NEW vd \in VoteData
  PROVE  Append(FileOf(s), [parses |-> TRUE, data |-> vd]) = FileOf(Append(s, vd))
<1> DEFINE n == Len(s)
           line == [parses |-> TRUE, data |-> vd]
           f == FileOf(s)
           g == FileOf(Append(s, vd))
<1>1. n \in Nat /\ DOMAIN s = 1..n
  BY LenProperties
<1>2. line \in Line /\ f \in [1..n -> Line]
  <2>1. \A i \in 1..n : [parses |-> TRUE, data |-> s[i]] \in Line
    BY ElementOfSeq DEF Line
  <2> QED
    BY <2>1 DEF FileOf, Line
<1>3. f \in Seq(Line) /\ Len(f) = n
  <2>1. f \in Seq(Line)
    BY <1>1, <1>2, SeqDef
  <2>2. DOMAIN f = 1..Len(f) /\ Len(f) \in Nat
    BY <2>1, LenProperties
  <2>3. DOMAIN f = 1..n
    BY <1>2
  <2> HIDE DEF f
  <2>4. 1..n = 1..Len(f)
    BY <2>2, <2>3
  <2> HIDE DEF n
  <2>5. n = Len(f)
    BY <1>1, <2>2, <2>4, IntervalEnds
  <2> QED
    BY <2>1, <2>5
<1>4. /\ Len(Append(s, vd)) = n + 1
      /\ Append(s, vd)[n + 1] = vd
      /\ \A i \in 1..n : Append(s, vd)[i] = s[i]
  BY AppendProperties
<1>5. /\ DOMAIN g = 1..(n + 1)
      /\ g = [i \in 1..(n + 1) |-> g[i]]
      /\ g[n + 1] = line
      /\ \A i \in 1..n : g[i] = f[i]
  <2> DEFINE a == Append(s, vd)
  <2> HIDE DEF a
  <2>1. Len(a) = n + 1 /\ a[n + 1] = vd /\ \A i \in 1..n : a[i] = s[i]
    BY <1>4 DEF a
  <2>2. g = [i \in 1..(n + 1) |-> [parses |-> TRUE, data |-> a[i]]]
    BY <2>1 DEF FileOf, a
  <2>3. f = [i \in 1..n |-> [parses |-> TRUE, data |-> s[i]]]
    BY DEF FileOf
  <2>4. n + 1 \in 1..(n + 1) /\ \A i \in 1..n : i \in 1..(n + 1)
    BY <1>1
  <2> HIDE DEF n, f, g
  <2> QED
    BY <2>1, <2>2, <2>3, <2>4
<1> HIDE DEF line, f, g
<1>6. /\ Append(f, line) \in Seq(Line)
      /\ Len(Append(f, line)) = n + 1
      /\ Append(f, line)[n + 1] = line
      /\ \A i \in 1..n : Append(f, line)[i] = f[i]
  BY <1>2, <1>3, AppendProperties
<1>7. /\ DOMAIN Append(f, line) = 1..(n + 1)
      /\ Append(f, line) = [i \in 1..(n + 1) |-> Append(f, line)[i]]
  <2> DEFINE af == Append(f, line)
  <2> HIDE DEF af
  <2>1. af \in Seq(Line) /\ Len(af) = n + 1
    BY <1>6 DEF af
  <2>2. DOMAIN af = 1..(n + 1) /\ af \in [1..(n + 1) -> Line]
    BY <2>1, LenProperties
  <2>3. af = [i \in 1..(n + 1) |-> af[i]]
    BY <2>2
  <2> QED
    BY <2>2, <2>3 DEF af
<1>8. ASSUME NEW i \in 1..(n + 1)
      PROVE  Append(f, line)[i] = g[i]
  <2>1. CASE i = n + 1
    BY <1>5, <1>6, <2>1
  <2>2. CASE i # n + 1
    <3>1. i \in 1..n
      BY <1>1, <2>2
    <3> QED
      BY <1>5, <1>6, <3>1
  <2> QED
    BY <2>1, <2>2
<1>9. Append(f, line) = g
  BY <1>5, <1>7, <1>8
<1> QED
  BY <1>9 DEF line, f, g

\* In a clean history no two remembered votes have the same height.
LEMMA WindowDistinct ==
  ASSUME signed \in Seq(VoteData), SignedCompatible
  PROVE  \A i, j \in Window(Len(signed)) :
           signed[i].target_number = signed[j].target_number => i = j
<1> DEFINE n == Len(signed)
<1>1. n \in Nat /\ MAX_RECENT_ENTRIES \in Nat \ {0}
  BY LenProperties, JournalConstants
<1>2. ASSUME NEW i \in Window(n), NEW j \in Window(n), i < j
      PROVE  signed[i].target_number # signed[j].target_number
  <2>1. i \in 1..n /\ j \in 1..n /\ Remembered(i, j)
    BY <1>1, <1>2 DEF Window, Remembered
  <2> QED
    BY <2>1 DEF SignedCompatible, Compatible
<1> QED
  BY <1>1, <1>2 DEF Window
----------------------------------------------------------------------------
(* The invariant and what follows from it. *)

\* A step leaves a clean history only by a race, a fault or the restart of a
\* memory-only journal, and never comes back to one.
LEMMA CleanBackwards == TypeOK /\ [Next]_vars /\ Clean' => Clean
<1> SUFFICES ASSUME TypeOK, [Next]_vars, Clean' PROVE Clean
  OBVIOUS
<1>1. CASE Restart
  BY <1>1 DEF Restart, Clean, TypeOK
<1>2. ASSUME NEW t \in Tasks, SignAndPersist(t)
      PROVE  Clean
  <2>1. failed' = failed \/ failed' = failed + 1
    BY <1>2 DEF SignAndPersist
  <2> QED
    BY <1>2, <2>1 DEF SignAndPersist, Clean, TypeOK
<1>3. ASSUME UNCHANGED <<raced, failed, restarts>> PROVE Clean
  BY <1>3 DEF Clean
<1> QED
  BY <1>1, <1>2, <1>3
  DEF Next, Step, Start, Warmup, Snapshot, CheckRules, SignFails, Publish, history, vars

\* The clean-history invariant: while no rule check was overtaken and no write
\* failed, the journal's cache is the tail of the history of signed votes, its
\* file is all of it, a pending rule check still holds, and no remembered vote
\* conflicts with a later one.
THEOREM CleanInvariant == Spec => []CleanInv
<1>1. Init => CleanInv
  <2> SUFFICES ASSUME Init PROVE CleanInv
    OBVIOUS
  <2>1. Len(signed) = 0 /\ signed = <<>> /\ published = {}
    BY EmptySeq DEF Init
  <2>2. Window(0) = {}
    BY DEF Window
  <2>3. CacheIsRecent
    <3>1. [i \in Window(Len(signed)) |-> signed[i]] = <<>>
      BY <2>1, <2>2, SMT
    <3>2. Len(signed) + 1 = 1
      BY <2>1
    <3>3. CacheOf(signed) = EmptyLru
      BY ONLY <3>1, <3>2 DEF CacheOf, EmptyLru
    <3> QED
      BY <3>3 DEF Init, CacheIsRecent
  <2>4. FileIsComplete
    <3>1. [i \in 1..Len(signed) |-> [parses |-> TRUE, data |-> signed[i]]] = <<>>
      BY <2>1, SMT
    <3> QED
      BY <3>1 DEF Init, FileIsComplete, FileOf, EmptyDisk
  <2>5. ChecksHold /\ SignedCompatible /\ Carried
    BY <2>1 DEF Init, ChecksHold, SignedCompatible, Carried
  <2> QED
    BY <2>3, <2>4, <2>5 DEF CleanInv
<1>2. TypeOK /\ CleanInv /\ [Next]_vars => CleanInv'
  <2> SUFFICES ASSUME TypeOK, CleanInv, [Next]_vars PROVE CleanInv'
    OBVIOUS
  <2>1. Len(signed) \in Nat /\ MAX_RECENT_ENTRIES \in Nat \ {0} /\ signed \in Seq(VoteData)
    BY LenProperties, JournalConstants DEF TypeOK
  <2>2. Clean' => Clean
    BY CleanBackwards
  <2>3. ASSUME NEW t \in Tasks, SignAndPersist(t)
        PROVE  CleanInv'
    <3> DEFINE vd == VoteFor(head[t])
               n == Len(signed)
    <3>1. /\ head[t] \in Heads /\ vd \in VoteData
          /\ vd.source_number < vd.target_number
      BY VoteForType, ProducerConstants DEF TypeOK, VoteFor
    <3> HIDE DEF vd
    <3>2. /\ signed' = Append(signed, vd)
          /\ Len(signed') = n + 1
          /\ signed'[n + 1] = vd
          /\ \A i \in 1..n : signed'[i] = signed[i]
      BY <2>1, <2>3, <3>1, AppendProperties DEF SignAndPersist, vd
    <3>3. Carried'
      <4>1. \A i \in 1..(n + 1) : signed'[i].source_number < signed'[i].target_number
        BY <2>1, <3>1, <3>2 DEF CleanInv, Carried
      <4>2. published' \subseteq 1..(n + 1)
        BY <2>1, <2>3 DEF CleanInv, Carried, SignAndPersist
      <4>3. \A u \in Tasks : pc'[u] = "publish" => vote'[u] \in 1..(n + 1)
        BY <2>1, <2>3 DEF CleanInv, Carried, SignAndPersist, Goto, TypeOK
      <4> QED
        BY <3>2, <4>1, <4>2, <4>3 DEF Carried
    <3>4. ASSUME Clean'
          PROVE  CacheIsRecent' /\ FileIsComplete' /\ ChecksHold' /\ SignedCompatible'
      <4>1. Clean /\ CacheIsRecent /\ FileIsComplete /\ ChecksHold /\ SignedCompatible
        BY <2>2, <3>4 DEF CleanInv
      <4>2. WriteVote(vd, "ok")
        <5>1. PICK how \in WriteOutcomes :
                WriteVote(vd, how) /\ failed' = IF how = "ok" THEN failed ELSE failed + 1
          BY <2>3 DEF SignAndPersist, vd
        <5>2. failed = 0 /\ failed' = 0
          BY <3>4, <4>1 DEF Clean
        <5> QED
          BY <5>1, <5>2
      <4>3. t \notin stale /\ pc[t] = "sign"
        BY <2>3, <3>4 DEF SignAndPersist, Clean, TypeOK
      <4>4. UnderRules(CacheOf(signed), head[t].justified, head[t].number)
        BY <4>1, <4>3 DEF ChecksHold, CacheIsRecent
      <4>5. CacheIsRecent'
        <5>1. ~LruContains(CacheOf(signed), vd.target_number)
          BY <4>4 DEF UnderRules, SameHeightAllowed, VoteFor, vd
        <5>2. LruAdd(CacheOf(signed), vd) = CacheOf(Append(signed, vd))
          BY <2>1, <3>1, <5>1, AddKeepsRecent
        <5> QED
          BY <3>2, <4>1, <4>2, <5>2 DEF CacheIsRecent, WriteVote
      <4>6. FileIsComplete'
        <5>1. Append(FileOf(signed), [parses |-> TRUE, data |-> vd]) = FileOf(signed')
          BY <2>1, <3>1, <3>2, FileGrows
        <5>2. ASSUME ~MemOnly
              PROVE  /\ disk'.lines = Append(FileOf(signed), [parses |-> TRUE, data |-> vd])
                     /\ ~disk'.open
          BY <4>1, <4>2, <5>2 DEF FileIsComplete, WriteVote, AppendLine
        <5> QED
          BY <5>1, <5>2 DEF FileIsComplete
      <4>7. ChecksHold'
        <5>1. \A u \in Tasks : pc'[u] = "sign" => u \in stale'
          BY <2>3 DEF SignAndPersist, Goto, TypeOK
        <5> QED
          BY <5>1 DEF ChecksHold
      <4>8. SignedCompatible'
        <5>1. ASSUME NEW i \in 1..n, Remembered(i, n + 1)
              PROVE  Compatible(signed[i], vd)
          <6>1. i \in Window(n)
            BY <2>1, <5>1 DEF Remembered, Window
          <6>2. signed[i] \in Entries(CacheOf(signed))
            <7>1. CacheOf(signed).votes = [k \in Window(n) |-> signed[k]]
              BY DEF CacheOf
            <7> QED
              BY <6>1, <7>1 DEF Entries
          <6>3. signed[i] \in VoteData /\ signed[i].source_number < signed[i].target_number
            BY <2>1, ElementOfSeq DEF CleanInv, Carried
          <6> QED
            BY <3>1, <4>4, <6>2, <6>3, RulesGiveCompatible DEF vd
        <5>2. ASSUME NEW i \in 1..(n + 1), NEW j \in 1..(n + 1), Remembered(i, j)
              PROVE  Compatible(signed'[i], signed'[j])
          <6>1. i \in 1..n
            BY <2>1, <5>2 DEF Remembered
          <6>2. CASE j = n + 1
            BY <3>2, <5>1, <5>2, <6>1, <6>2
          <6>3. CASE j # n + 1
            <7>1. j \in 1..n
              BY <2>1, <6>3
            <7>2. Compatible(signed[i], signed[j])
              BY <4>1, <5>2, <6>1, <7>1 DEF SignedCompatible
            <7> QED
              BY <3>2, <6>1, <7>1, <7>2
          <6> QED
            BY <6>2, <6>3
        <5> QED
          BY <3>2, <5>2 DEF SignedCompatible, Remembered
      <4> QED
        BY <4>5, <4>6, <4>7, <4>8
    <3> QED
      BY <3>3, <3>4 DEF CleanInv
  <2>4. CASE Restart
    <3>1. Carried'
      BY <2>4 DEF Restart, CleanInv, Carried
    <3>2. ASSUME Clean'
          PROVE  CacheIsRecent' /\ FileIsComplete' /\ ChecksHold' /\ SignedCompatible'
      <4>1. Clean /\ CacheIsRecent /\ FileIsComplete /\ SignedCompatible
        BY <2>2, <3>2 DEF CleanInv
      <4>2. ~MemOnly /\ disk' = disk /\ signed' = signed
        BY <2>4, <3>2, <4>1 DEF Restart, Clean, TypeOK
      <4>3. lru' = LoadFromDisk(FileOf(signed))
        BY <2>4, <4>1, <4>2 DEF Restart, FileIsComplete
      <4>4. CacheIsRecent'
        BY <2>1, <4>1, <4>2, <4>3, WindowDistinct, LoadMirrors DEF CacheIsRecent
      <4>5. ChecksHold'
        BY <2>4 DEF Restart, ChecksHold
      <4> QED
        BY <4>1, <4>2, <4>4, <4>5 DEF FileIsComplete, SignedCompatible
    <3> QED
      BY <3>1, <3>2 DEF CleanInv
  <2>5. ASSUME NEW t \in Tasks, CheckRules(t)
        PROVE  CleanInv'
    <3>1. Carried' /\ (Clean' => CacheIsRecent' /\ FileIsComplete' /\ SignedCompatible')
      BY <2>2, <2>5 DEF CheckRules, Goto, CleanInv, Carried, shared, TypeOK, Stages,
                        CacheIsRecent, FileIsComplete, SignedCompatible
    <3>2. Clean' => ChecksHold'
      BY <2>2, <2>5 DEF CheckRules, Goto, CleanInv, ChecksHold, shared, TypeOK
    <3> QED
      BY <3>1, <3>2 DEF CleanInv
  <2>6. ASSUME NEW t \in Tasks,
               UNCHANGED <<lru, disk, signed, stale>>,
               \A u \in Tasks : pc'[u] = "sign" => pc[u] = "sign" /\ head'[u] = head[u],
               Carried'
        PROVE  CleanInv'
    BY <2>2, <2>6 DEF CleanInv, CacheIsRecent, FileIsComplete, ChecksHold, SignedCompatible
  <2>7. ASSUME NEW t \in Tasks,
               (\E h \in Heads : Start(t, h)) \/ Warmup(t) \/ Snapshot(t)
                 \/ SignFails(t) \/ Publish(t)
        PROVE  CleanInv'
    <3>1. UNCHANGED <<lru, disk, signed, stale>>
      BY <2>7 DEF Start, Warmup, Snapshot, SignFails, Publish, shared, history
    <3>2. \A u \in Tasks : pc'[u] = "sign" => pc[u] = "sign" /\ head'[u] = head[u]
      BY <2>7 DEF Start, Warmup, Snapshot, SignFails, Publish, Goto, TypeOK
    <3>3. Carried'
      BY <2>7 DEF Start, Warmup, Snapshot, SignFails, Publish, Goto, TypeOK, history,
                  CleanInv, Carried
    <3> QED
      BY <2>6, <3>1, <3>2, <3>3
  <2>8. CASE UNCHANGED vars
    BY <2>8 DEF vars, CleanInv, Clean, Carried, CacheIsRecent, FileIsComplete, ChecksHold,
                SignedCompatible
  <2> QED
    BY <2>3, <2>4, <2>5, <2>7, <2>8 DEF Next, Step
<1> QED
  BY <1>1, <1>2, TypeCorrect, PTL DEF Spec
\* However many voting tasks run in parallel and wherever the process is
\* restarted, two votes for the same height leave the node only after a rule
\* check was overtaken, a journal write failed, or a memory-only journal was lost.
THEOREM NoDoubleVoteUnlessRaced == Spec => []CleanNoDoubleVote
<1>1. TypeOK /\ CleanInv => CleanNoDoubleVote
  <2> SUFFICES ASSUME TypeOK, CleanInv, Clean,
                      NEW i \in published, NEW j \in published, Remembered(i, j)
               PROVE  signed[i].target_number # signed[j].target_number
    BY DEF CleanNoDoubleVote, NoDoubleVote
  <2>1. i \in 1..Len(signed) /\ j \in 1..Len(signed) /\ SignedCompatible
    BY DEF CleanInv, Carried
  <2> QED
    BY <2>1 DEF SignedCompatible, Compatible
<1> QED
  BY <1>1, TypeCorrect, CleanInvariant, PTL

\* The same for a vote that spans another one, within the windows of rule 2.
THEOREM NoSurroundVoteUnlessRaced == Spec => []CleanNoSurroundVote
<1>1. TypeOK /\ CleanInv => CleanNoSurroundVote
  <2> SUFFICES ASSUME TypeOK, CleanInv, Clean,
                      NEW i \in published, NEW j \in published, Remembered(i, j)
               PROVE  Compatible(signed[i], signed[j])
    BY DEF CleanNoSurroundVote, NoSurroundVote, Compatible
  <2>1. i \in 1..Len(signed) /\ j \in 1..Len(signed) /\ SignedCompatible
    BY DEF CleanInv, Carried
  <2> QED
    BY <2>1 DEF SignedCompatible
<1> QED
  BY <1>1, TypeCorrect, CleanInvariant, PTL

\* In a clean history a restart at any moment gives the cache back: same votes,
\* same order of eviction.
THEOREM RestartGivesCacheBack == Spec => []RestartIsLossless
<1>1. TypeOK /\ CleanInv => RestartIsLossless
  <2> SUFFICES ASSUME TypeOK, CleanInv, Clean, ~MemOnly
               PROVE  LoadFromDisk(disk.lines) = lru
    BY DEF RestartIsLossless
  <2>1. /\ lru = CacheOf(signed) /\ disk.lines = FileOf(signed)
        /\ SignedCompatible /\ signed \in Seq(VoteData)
    BY DEF CleanInv, CacheIsRecent, FileIsComplete, TypeOK
  <2> QED
    BY <2>1, WindowDistinct, LoadMirrors
<1> QED
  BY <1>1, TypeCorrect, CleanInvariant, PTL

----------------------------------------------------------------------------
(* What failed writes cost. *)

\* How many votes of the file the next line may still destroy: an open line takes what is
\* appended to it along, and itself too if it parsed.
Pending(d) == IF ~d.open THEN 0 ELSE IF d.lines[Len(d.lines)].parses THEN 2 ELSE 1

LossInv == ~MemOnly => Len(signed) + Pending(disk) <= Cardinality(Parsed(disk.lines)) + 2 * failed

\* The lines that parse are finitely many.
LEMMA ParsedFinite ==
  ASSUME NEW lines \in Seq(Line)
  PROVE  /\ Len(lines) \in Nat /\ DOMAIN lines = 1..Len(lines) /\ IsFiniteSet(Parsed(lines))
         /\ Cardinality(Parsed(lines)) \in Nat
<1>1. Len(lines) \in Nat /\ DOMAIN lines = 1..Len(lines)
  BY LenProperties
<1>2. IsFiniteSet(1..Len(lines))
  BY <1>1, FS_Interval
<1>3. Parsed(lines) \in SUBSET (1..Len(lines))
  BY <1>1 DEF Parsed
<1>4. IsFiniteSet(Parsed(lines))
  BY <1>2, <1>3, FS_Subset
<1> QED
  BY <1>1, <1>4, FS_CardinalityType

\* One write: a failed one costs its own vote and at most one more, a good one only what
\* an earlier one had put at risk.
LEMMA AppendLoss ==
  ASSUME NEW d \in Disk, NEW vd \in VoteData, NEW how \in Writes
  PROVE  LET e == AppendLine(d, vd, how)
         IN /\ Pending(d) \in 0..2 /\ Pending(e) \in 0..2
            /\ 1 + Pending(e) + Cardinality(Parsed(d.lines)) <=
                 Cardinality(Parsed(e.lines)) + Pending(d) + IF how = "ok" THEN 0 ELSE 2
<1> DEFINE e == AppendLine(d, vd, how)
           n == Len(d.lines)
           new == [parses |-> how # "short_write", data |-> vd]
           torn == [d.lines[n] EXCEPT !.parses = FALSE]
           P == Parsed(d.lines)
           Q == Parsed(e.lines)
<1> SUFFICES /\ Pending(d) \in 0..2 /\ Pending(e) \in 0..2
             /\ 1 + Pending(e) + Cardinality(P) <=
                  Cardinality(Q) + Pending(d) + IF how = "ok" THEN 0 ELSE 2
  OBVIOUS
<1>1. d.lines \in Seq(Line) /\ d.open \in BOOLEAN /\ (d.open => d.lines # <<>>)
  BY DEF Disk
<1>2. n \in Nat /\ DOMAIN d.lines = 1..n /\ IsFiniteSet(P) /\ Cardinality(P) \in Nat
  BY <1>1, ParsedFinite
<1>3. e \in Disk
  BY AppendLineType
<1>4. e.lines \in Seq(Line)
  <2> HIDE DEF e
  <2> QED
    BY <1>3 DEF Disk
<1>5. DOMAIN e.lines = 1..Len(e.lines) /\ IsFiniteSet(Q) /\ Cardinality(Q) \in Nat
  BY <1>4, ParsedFinite
<1>6. Pending(d) \in 0..2 /\ Pending(e) \in 0..2
  BY DEF Pending
<1>7. CASE how = "open_failed"
  <2>1. e = d
    BY <1>7 DEF AppendLine
  <2> QED
    BY <1>2, <1>6, <1>7, <2>1
<1>8. CASE how # "open_failed" /\ ~d.open
  <2>1. e = [lines |-> Append(d.lines, new), open |-> how # "ok"]
    BY <1>8 DEF AppendLine
  <2>2. new \in Line /\ (new.parses <=> how # "short_write")
    BY DEF Line
  <2> DEFINE f == Append(d.lines, new)
  <2>3. e.lines = f /\ e.open = (how # "ok") /\ Pending(d) = 0
    <3>1. e.lines = f
      BY <2>1
    <3>2. e.open = (how # "ok")
      <4> DEFINE last == how # "ok"
      <4>1. e = [lines |-> e.lines, open |-> last]
        BY <2>1, <3>1
      <4> HIDE DEF last, e
      <4>2. e.open = last
        BY <4>1
      <4> QED
        BY <4>2 DEF last
    <3> QED
      BY <1>8, <3>1, <3>2 DEF Pending
  <2> HIDE DEF new, e
  <2>4. Len(f) = n + 1 /\ f[n + 1] = new /\ \A i \in 1..n : f[i] = d.lines[i]
    BY <1>1, <2>2, AppendProperties
  <2> HIDE DEF f
  <2>5. Q = IF how = "short_write" THEN P ELSE P \cup {n + 1}
    <3>1. \A i \in 1..(n + 1) : i \in 1..n \/ i = n + 1
      BY <1>2
    <3>2. n + 1 \notin 1..n /\ n + 1 \in 1..(n + 1) /\ \A i \in 1..n : i \in 1..(n + 1)
      BY <1>2
    <3>3. \A i : i \in Q <=> i \in 1..(n + 1) /\ f[i].parses
      BY <1>5, <2>3, <2>4 DEF Parsed
    <3>4. \A i : i \in P <=> i \in 1..n /\ d.lines[i].parses
      BY <1>2 DEF Parsed
    <3>5. \A i : i \in Q <=> i \in P \/ (i = n + 1 /\ how # "short_write")
      BY <2>2, <2>4, <3>1, <3>2, <3>3, <3>4
    <3> HIDE DEF P, Q
    <3> QED
      BY <3>5
  <2>6. n + 1 \notin P
    BY <1>2 DEF Parsed
  <2>7. Cardinality(P \cup {n + 1}) = Cardinality(P) + 1
    BY <1>2, <2>6, FS_AddElement
  <2>8. Pending(e) = IF how = "ok" THEN 0 ELSE IF how = "short_write" THEN 1 ELSE 2
    <3>1. e.lines[Len(e.lines)] = new
      BY <2>3, <2>4
    <3> QED
      BY <2>2, <2>3, <3>1 DEF Pending
  <2> HIDE DEF P, Q, n
  <2>9. CASE how = "short_write"
    BY <1>2, <1>6, <2>3, <2>5, <2>8, <2>9
  <2>10. CASE how = "ok"
    BY <1>2, <1>6, <2>3, <2>5, <2>7, <2>8, <2>10
  <2>11. CASE how = "no_newline"
    BY <1>2, <1>6, <2>3, <2>5, <2>7, <2>8, <2>11
  <2> QED
    BY <1>6, <1>8, <2>9, <2>10, <2>11 DEF Writes
<1>9. CASE how # "open_failed" /\ d.open
  <2>1. e = [lines |-> [d.lines EXCEPT ![n] = torn], open |-> how # "ok"]
    BY <1>9 DEF AppendLine
  <2>2. n \in 1..n
    BY <1>1, <1>2, <1>9, EmptySeq
  <2>3. d.lines[n] \in Line
    BY <1>1, <2>2, ElementOfSeq
  <2>4. torn \in Line /\ torn.parses = FALSE
    BY <2>3 DEF Line
  <2> DEFINE f == [d.lines EXCEPT ![n] = torn]
  <2>5. e.lines = f /\ e.open = (how # "ok")
    <3>1. e.lines = f
      BY <2>1
    <3>2. e.open = (how # "ok")
      <4> DEFINE last == how # "ok"
      <4>1. e = [lines |-> e.lines, open |-> last]
        BY <2>1, <3>1
      <4> HIDE DEF last, e
      <4>2. e.open = last
        BY <4>1
      <4> QED
        BY <4>2 DEF last
    <3> QED
      BY <3>1, <3>2
  <2>6. Pending(d) = IF d.lines[n].parses THEN 2 ELSE 1
    BY <1>9 DEF Pending
  <2> HIDE DEF torn, e
  <2>7. Len(f) = n /\ f[n] = torn /\ \A i \in 1..n : i # n => f[i] = d.lines[i]
    BY <1>1, <1>2, <2>2, <2>4, ExceptSeq
  <2> HIDE DEF f
  <2>8. Q = P \ {n}
    <3>1. \A i : i \in Q <=> i \in 1..n /\ f[i].parses
      BY <1>5, <2>5, <2>7 DEF Parsed
    <3>2. \A i : i \in P <=> i \in 1..n /\ d.lines[i].parses
      BY <1>2 DEF Parsed
    <3>3. \A i : i \in Q <=> i \in P /\ i # n
      BY <2>4, <2>7, <3>1, <3>2
    <3> HIDE DEF P, Q
    <3> QED
      BY <3>3
  <2>9. Cardinality(Q) = IF n \in P THEN Cardinality(P) - 1 ELSE Cardinality(P)
    BY <1>2, <2>8, FS_RemoveElement
  <2>10. n \in P <=> d.lines[n].parses
    BY <1>2, <2>2 DEF Parsed
  <2>11. Pending(e) = IF how = "ok" THEN 0 ELSE 1
    <3>1. e.lines[Len(e.lines)] = torn
      BY <2>5, <2>7
    <3> QED
      BY <2>4, <2>5, <3>1 DEF Pending
  <2> HIDE DEF P, Q, n
  <2>12. CASE n \in P
    BY <1>2, <1>6, <2>6, <2>9, <2>10, <2>11, <2>12
  <2>13. CASE n \notin P
    BY <1>2, <1>6, <2>6, <2>9, <2>10, <2>11, <2>13
  <2> QED
    BY <1>6, <2>12, <2>13
<1> QED
  BY <1>7, <1>8, <1>9

\* A failed write of the journal costs its file at most two votes, whatever fails and
\* wherever the process is restarted: of the votes that were signed, all but two for each
\* failure can be read back.
THEOREM LossBounded == Spec => []LossIsBounded
<1>1. Init => LossInv
  <2> SUFFICES ASSUME Init PROVE LossInv
    OBVIOUS
  <2>1. signed = <<>> /\ disk = EmptyDisk /\ failed = 0
    BY DEF Init
  <2>2. Len(signed) = 0 /\ disk.lines = <<>> /\ disk.open = FALSE
    BY <2>1, EmptySeq DEF EmptyDisk
  <2>3. Parsed(disk.lines) = {} /\ Pending(disk) = 0
    BY <2>2, EmptySeq DEF Parsed, Pending
  <2> QED
    BY <2>1, <2>2, <2>3, FS_EmptySet DEF LossInv
<1>2. TypeOK /\ LossInv /\ [Next]_vars => LossInv'
  <2> SUFFICES ASSUME TypeOK, LossInv, [Next]_vars, ~MemOnly
               PROVE  Len(signed') + Pending(disk') <= Cardinality(Parsed(disk'.lines)) + 2 * failed'
    BY DEF LossInv, Pending, Parsed
  <2> DEFINE old == Cardinality(Parsed(disk.lines))
             new == Cardinality(Parsed(disk'.lines))
  <2>0. /\ disk \in Disk /\ Len(signed) \in Nat /\ failed \in Nat /\ old \in Nat
        /\ Len(signed) + Pending(disk) <= old + 2 * failed
    <3>1. disk \in Disk /\ Len(signed) \in Nat /\ failed \in Nat
      BY LenProperties DEF TypeOK
    <3>2. disk.lines \in Seq(Line)
      BY <3>1 DEF Disk
    <3> QED
      BY <3>1, <3>2, ParsedFinite DEF LossInv
  <2>1. ASSUME UNCHANGED <<disk, signed, failed>>
        PROVE  Len(signed') + Pending(disk') <= new + 2 * failed'
    BY <2>0, <2>1
  <2>2. ASSUME NEW t \in Tasks, NEW how \in Writes,
               disk' = AppendLine(disk, VoteFor(head[t]), how), failed' = IF how = "ok" THEN failed ELSE failed + 1
        PROVE  /\ Pending(disk') \in 0..2 /\ new \in Nat
               /\ Len(signed) + 1 + Pending(disk') <= new + 2 * failed'
    <3> DEFINE vd == VoteFor(head[t])
    <3>1. vd \in VoteData
      BY VoteForType DEF TypeOK
    <3> HIDE DEF vd
    <3>2. disk' = AppendLine(disk, vd, how)
      BY <2>2 DEF vd
    <3>3. /\ Pending(disk) \in 0..2 /\ Pending(disk') \in 0..2
          /\ 1 + Pending(disk') + old <= new + Pending(disk) + IF how = "ok" THEN 0 ELSE 2
      BY <2>0, <3>1, <3>2, AppendLoss
    <3>4. disk' \in Disk
      BY <2>0, <3>1, <3>2, AppendLineType
    <3>5. new \in Nat
      <4>1. disk'.lines \in Seq(Line)
        BY <3>4 DEF Disk
      <4> QED
        BY <4>1, ParsedFinite
    <3> HIDE DEF old, new
    <3> DEFINE l == Len(signed)
               p == Pending(disk)
               q == Pending(disk')
    <3>6. l \in Nat /\ p \in Nat /\ old \in Nat /\ failed \in Nat /\ l + p <= old + 2 * failed
      BY <2>0, <3>3
    <3>7. q \in 0..2 /\ 1 + q + old <= new + p + IF how = "ok" THEN 0 ELSE 2
      BY <3>3
    <3> HIDE DEF l, p, q
    <3>8. CASE how = "ok"
      BY <2>2, <3>5, <3>6, <3>7, <3>8 DEF l, q
    <3>9. CASE how # "ok"
      BY <2>2, <3>5, <3>6, <3>7, <3>9 DEF l, q
    <3> QED
      BY <3>8, <3>9
  <2>3. CASE Restart
    <3>1. CASE disk' = disk /\ failed' = failed
      BY <2>1, <2>3, <3>1 DEF Restart
    <3>2. CASE \E t \in Tasks, how \in WriteOutcomes \ {"ok"} :
                 /\ pc[t] = "sign"
                 /\ disk' = AppendLine(disk, VoteFor(head[t]), how)
                 /\ failed' = failed + 1
      <4>1. PICK t \in Tasks, how \in WriteOutcomes \ {"ok"} :
                 disk' = AppendLine(disk, VoteFor(head[t]), how) /\ failed' = failed + 1
        BY <3>2
      <4>2. how \in Writes /\ failed' = IF how = "ok" THEN failed ELSE failed + 1
        BY <4>1 DEF WriteOutcomes, Writes
      <4>3. /\ Pending(disk') \in 0..2 /\ new \in Nat
            /\ Len(signed) + 1 + Pending(disk') <= new + 2 * failed'
        BY <2>2, <4>1, <4>2
      <4>4. signed' = signed /\ failed' \in Nat
        BY <2>0, <2>3, <4>1 DEF Restart
      <4> HIDE DEF new
      <4>5. Len(signed') + Pending(disk') <= new + 2 * failed'
        BY <2>0, <4>3, <4>4
      <4> QED
        BY <4>5 DEF new
    <3> QED
      BY <2>3, <3>1, <3>2 DEF Restart
  <2>4. ASSUME NEW t \in Tasks, SignAndPersist(t)
        PROVE  Len(signed') + Pending(disk') <= new + 2 * failed'
    <3>1. PICK how \in WriteOutcomes :
            WriteVote(VoteFor(head[t]), how) /\ failed' = IF how = "ok" THEN failed ELSE failed + 1
      BY <2>4 DEF SignAndPersist
    <3>2. how \in Writes /\ disk' = AppendLine(disk, VoteFor(head[t]), how)
      BY <3>1 DEF WriteOutcomes, Writes, WriteVote
    <3>3. /\ Pending(disk') \in 0..2 /\ new \in Nat
          /\ Len(signed) + 1 + Pending(disk') <= new + 2 * failed'
      BY <2>2, <3>1, <3>2
    <3>4. Len(signed') = Len(signed) + 1
      <4>1. signed' = Append(signed, VoteFor(head[t])) /\ VoteFor(head[t]) \in VoteData /\ signed \in Seq(VoteData)
        BY <2>4, VoteForType DEF SignAndPersist, TypeOK
      <4> QED
        BY <4>1, AppendProperties
    <3> HIDE DEF new
    <3> QED
      BY <3>3, <3>4
  <2>5. ASSUME NEW t \in Tasks,
               \/ \E h \in Heads : Start(t, h)
               \/ Warmup(t) \/ Snapshot(t) \/ CheckRules(t) \/ SignFails(t) \/ Publish(t)
        PROVE  UNCHANGED <<disk, signed, failed>>
    BY <2>5 DEF Start, Warmup, Snapshot, CheckRules, SignFails, Publish, shared, history
  <2>6. CASE UNCHANGED vars
    BY <2>1, <2>6 DEF vars
  <2> QED
    BY <2>1, <2>3, <2>4, <2>5, <2>6 DEF Next, Step
<1>3. TypeOK /\ LossInv => LossIsBounded
  <2> SUFFICES ASSUME TypeOK, LossInv, ~MemOnly
               PROVE  Len(signed) - Cardinality(Parsed(disk.lines)) <= 2 * failed
    BY DEF LossIsBounded
  <2>1. disk \in Disk /\ Len(signed) \in Nat /\ failed \in Nat
    BY LenProperties DEF TypeOK
  <2>2. disk.lines \in Seq(Line)
    BY <2>1 DEF Disk
  <2>3. Cardinality(Parsed(disk.lines)) \in Nat
    BY <2>2, ParsedFinite
  <2>4. Pending(disk) \in 0..2
    BY DEF Pending
  <2> QED
    BY <2>1, <2>3, <2>4 DEF LossInv
<1> QED
  BY <1>1, <1>2, <1>3, TypeCorrect, PTL DEF Spec

----------------------------------------------------------------------------
(* The vote pool: lemmas about the boxes. *)

\* The votes of a sequence.
LEMMA RangeOfAppend ==
  ASSUME NEW S, NEW s \in Seq(S), NEW x \in S
  PROVE  Range(Append(s, x)) = Range(s) \cup {x}
<1> DEFINE n == Len(s)
           a == Append(s, x)
<1>1. /\ n \in Nat /\ DOMAIN s = 1..n
      /\ a \in Seq(S) /\ Len(a) = n + 1 /\ a[n + 1] = x
      /\ \A i \in 1..n : a[i] = s[i]
  BY LenProperties, AppendProperties
<1>2. DOMAIN a = 1..(n + 1)
  BY <1>1, LenProperties
<1> HIDE DEF n, a
<1>3. 1..(n + 1) = 1..n \cup {n + 1}
  BY <1>1
<1> QED
  BY <1>1, <1>2, <1>3 DEF Range, a

\* What Insert does to the boxes: one of them grows by the vote.
LEMMA InsertBoxes ==
  ASSUME PoolTypeOK, NEW v \in Votes, v \notin received, Insert(v)
  PROVE  /\ v.target_hash \in BlockHashes
         /\ Fetch(v.target_hash) \in Seq(Votes)
         /\ DOMAIN cur_votes' = DOMAIN cur_votes \cup {v.target_hash}
         /\ cur_votes'[v.target_hash] = Append(Fetch(v.target_hash), v)
         /\ \A k \in DOMAIN cur_votes : k # v.target_hash => cur_votes'[k] = cur_votes[k]
         /\ received' = received \cup {v}
         /\ pq' = IF v.target_hash \in DOMAIN cur_votes THEN pq ELSE pq \cup {Data(v)}
         /\ Data(v) \in PoolData
         /\ Data(v).target_hash = v.target_hash
<1>1. v \in VoteEnvelope
  BY PoolConstants
<1>2. Data(v) \in PoolData /\ Data(v).target_hash = v.target_hash /\ v.target_hash \in BlockHashes
  BY <1>1 DEF Data, PoolData, VoteEnvelope
<1> QED
  BY <1>2, EmptySeq DEF Insert, PoolTypeOK, Fetch

----------------------------------------------------------------------------
(* Type correctness. *)

\* Every reachable state of the pool is well typed.
THEOREM PoolTypeCorrect == PoolSpec => []PoolTypeOK
<1>1. PoolInit => PoolTypeOK
  BY DEF PoolInit, PoolTypeOK
<1>2. PoolTypeOK /\ [PoolNext]_poolVars => PoolTypeOK'
  <2> SUFFICES ASSUME PoolTypeOK, [PoolNext]_poolVars PROVE PoolTypeOK'
    OBVIOUS
  <2>1. ASSUME NEW v \in Votes, Insert(v)
        PROVE  PoolTypeOK'
    <3>1. CASE v \in received
      BY <2>1, <3>1 DEF Insert, poolVars, PoolTypeOK
    <3>2. CASE v \notin received
      <4> DEFINE h == v.target_hash
                 old == Fetch(h)
      <4>1. /\ old \in Seq(Votes) /\ h \in BlockHashes
            /\ DOMAIN cur_votes' = DOMAIN cur_votes \cup {h}
            /\ cur_votes'[h] = Append(old, v)
            /\ \A k \in DOMAIN cur_votes : k # h => cur_votes'[k] = cur_votes[k]
            /\ received' = received \cup {v}
            /\ pq' = IF h \in DOMAIN cur_votes THEN pq ELSE pq \cup {Data(v)}
            /\ Data(v) \in PoolData
        BY <2>1, <3>2, InsertBoxes
      <4> HIDE DEF old, h
      <4>2. Append(old, v) \in Seq(Votes)
        BY <4>1, AppendProperties
      <4>3. \A k \in DOMAIN cur_votes' : cur_votes'[k] \in Seq(Votes)
        BY <4>1, <4>2 DEF PoolTypeOK
      <4>4. cur_votes' = [k \in DOMAIN cur_votes' |-> cur_votes'[k]]
        BY <2>1, <3>2 DEF Insert
      <4> QED
        BY <4>1, <4>3, <4>4 DEF PoolTypeOK
    <3> QED
      BY <3>1, <3>2
  <2>2. ASSUME NEW n \in LatestBlocks, Prune(n)
        PROVE  PoolTypeOK'
    BY <2>2 DEF Prune, PoolTypeOK, Restrict
  <2>3. CASE Drain
    BY <2>3 DEF Drain, PoolTypeOK
  <2>4. CASE UNCHANGED poolVars
    BY <2>4 DEF poolVars, PoolTypeOK
  <2>5. ASSUME NEW p \in Packets(Votes), HandleVotesBroadcast(p)
        PROVE  PoolTypeOK'
    <3>1. Head(p) \in Votes /\ Insert(Head(p))
      BY <2>5 DEF Packets, HandleVotesBroadcast
    <3> QED
      BY <2>1, <3>1
  <2> QED
    BY <2>1, <2>2, <2>3, <2>4, <2>5 DEF PoolNext, PutVote
<1> QED
  BY <1>1, <1>2, PTL DEF PoolSpec
----------------------------------------------------------------------------
(* The three indexes. *)

\* The queue's entry for a block is the data of one of the votes for it: what
\* ties the number that prune looks at to the votes it removes.
EntriesAreVotes == \A d \in pq : \E v \in received : d = Data(v)

IndexInv == IndexesAgree /\ EntriesAreVotes

\* What a pruning removes: the votes for the blocks whose entries are popped.
LEMMA PruneRemoves ==
  ASSUME PoolTypeOK, ReceivedIsPooled, BoxesWellFormed, NEW n \in LatestBlocks, Prune(n)
  PROVE  /\ \A k \in DOMAIN cur_votes : \A x \in Range(cur_votes[k]) :
              x.target_hash = k /\ x \in received
         /\ \A x \in received : /\ x.target_hash \in DOMAIN cur_votes
                                /\ x \in Range(cur_votes[x.target_hash])
         /\ \A x : x \in received' <=>
              x \in received /\ x.target_hash \notin {d.target_hash : d \in Popped(n)}
<1> DEFINE gone == {d.target_hash : d \in Popped(n)}
           removed == VotesIn(Restrict(cur_votes, DOMAIN cur_votes \cap gone))
<1>1. ASSUME NEW k \in DOMAIN cur_votes, NEW x \in Range(cur_votes[k])
      PROVE  x.target_hash = k /\ x \in received
  <2>1. cur_votes[k] \in Seq(Votes)
    BY DEF PoolTypeOK
  <2>2. PICK i \in 1..Len(cur_votes[k]) : x = cur_votes[k][i]
    BY <1>1, <2>1, LenProperties DEF Range
  <2> QED
    BY <2>2 DEF BoxesWellFormed, ReceivedIsPooled, VotesIn
<1>2. ASSUME NEW x \in received
      PROVE  x.target_hash \in DOMAIN cur_votes /\ x \in Range(cur_votes[x.target_hash])
  BY <1>1 DEF ReceivedIsPooled, VotesIn
<1>3. received' = received \ removed
  BY DEF Prune
<1>4. \A x : x \in removed <=> \E k \in DOMAIN cur_votes \cap gone : x \in Range(cur_votes[k])
  BY DEF VotesIn, Restrict
<1> HIDE DEF gone, removed
<1>5. \A x \in received : x \in removed <=> x.target_hash \in gone
  <2> TAKE x \in received
  <2>1. ASSUME x \in removed PROVE x.target_hash \in gone
    <3>1. PICK k \in DOMAIN cur_votes \cap gone : x \in Range(cur_votes[k])
      BY <1>4, <2>1
    <3> QED
      BY <1>1, <3>1
  <2>2. ASSUME x.target_hash \in gone PROVE x \in removed
    BY <1>2, <1>4, <2>2
  <2> QED
    BY <2>1, <2>2
<1>6. \A x : x \in received' <=> x \in received /\ x.target_hash \notin gone
  BY <1>3, <1>5
<1> QED
  BY <1>1, <1>2, <1>6 DEF gone

\* The indexes of the pool agree after any sequence of insertions, prunings and
\* drains, and every entry of the queue comes from a vote of the pool.
THEOREM IndexInvariant == PoolSpec => []IndexInv
<1>1. PoolInit => IndexInv
  BY DEF PoolInit, IndexInv, IndexesAgree, ReceivedIsPooled, BoxesWellFormed, OneEntryPerBox,
         EntriesAreVotes, VotesIn
<1>2. PoolTypeOK /\ IndexInv /\ [PoolNext]_poolVars => IndexInv'
  <2> SUFFICES ASSUME PoolTypeOK, IndexInv, [PoolNext]_poolVars PROVE IndexInv'
    OBVIOUS
  <2> USE DEF IndexInv, IndexesAgree
  <2>1. ASSUME NEW v \in Votes, Insert(v), v \notin received
        PROVE  IndexInv'
    <3> DEFINE h == v.target_hash
               old == Fetch(h)
               n == Len(old)
    <3>1. /\ old \in Seq(Votes) /\ h \in BlockHashes
          /\ DOMAIN cur_votes' = DOMAIN cur_votes \cup {h}
          /\ cur_votes'[h] = Append(old, v)
          /\ \A k \in DOMAIN cur_votes : k # h => cur_votes'[k] = cur_votes[k]
          /\ received' = received \cup {v}
          /\ pq' = IF h \in DOMAIN cur_votes THEN pq ELSE pq \cup {Data(v)}
          /\ Data(v).target_hash = h
      BY <2>1, InsertBoxes
    <3>2. /\ n \in Nat /\ Append(old, v) # <<>>
          /\ Len(Append(old, v)) = n + 1 /\ Append(old, v)[n + 1] = v
          /\ \A i \in 1..n : Append(old, v)[i] = old[i]
      BY <3>1, AppendProperties, LenProperties
    <3>3. Range(Append(old, v)) = Range(old) \cup {v}
      BY <3>1, RangeOfAppend
    <3>4. Range(old) \subseteq received /\ (h \in DOMAIN cur_votes => old = cur_votes[h])
      <4>1. CASE h \in DOMAIN cur_votes
        BY <4>1 DEF Fetch, ReceivedIsPooled, VotesIn
      <4>2. CASE h \notin DOMAIN cur_votes
        BY <4>2 DEF Fetch, Range
      <4> QED
        BY <4>1, <4>2
    <3>5. /\ \A i \in 1..n : old[i].target_hash = h
          /\ \A i, j \in 1..n : old[i] = old[j] => i = j
          /\ \A i \in 1..n : old[i] \in Range(old)
      <4>1. DOMAIN old = 1..n
        BY <3>1, LenProperties
      <4>2. \A i \in 1..n : old[i] \in Range(old)
        BY <4>1 DEF Range
      <4>3. CASE h \in DOMAIN cur_votes
        BY <3>4, <4>2, <4>3 DEF BoxesWellFormed
      <4>4. CASE h \notin DOMAIN cur_votes
        <5>1. old = <<>> /\ n = 0
          BY <4>4, EmptySeq DEF Fetch
        <5> QED
          BY <5>1
      <4> QED
        BY <4>2, <4>3, <4>4
    <3> HIDE DEF old, n, h
    <3>6. ReceivedIsPooled'
      <4>1. ASSUME NEW x \in received'
            PROVE  x \in VotesIn(cur_votes')
        <5>1. CASE x = v
          <6>1. h \in DOMAIN cur_votes' /\ v \in Range(cur_votes'[h])
            BY <3>1, <3>3
          <6> QED
            BY <5>1, <6>1 DEF VotesIn
        <5>2. CASE x # v
          <6>1. PICK k \in DOMAIN cur_votes : x \in Range(cur_votes[k])
            BY <3>1, <5>2 DEF ReceivedIsPooled, VotesIn
          <6>2. x \in Range(cur_votes'[k])
            <7>1. CASE k = h
              BY <3>1, <3>3, <3>4, <6>1, <7>1
            <7>2. CASE k # h
              BY <3>1, <6>1, <7>2
            <7> QED
              BY <7>1, <7>2
          <6> QED
            BY <3>1, <6>2 DEF VotesIn
        <5> QED
          BY <5>1, <5>2
      <4>2. ASSUME NEW x \in VotesIn(cur_votes')
            PROVE  x \in received'
        <5>1. PICK k \in DOMAIN cur_votes' : x \in Range(cur_votes'[k])
          BY DEF VotesIn
        <5>2. CASE k = h
          BY <3>1, <3>3, <3>4, <5>1, <5>2
        <5>3. CASE k # h
          BY <3>1, <5>1, <5>3 DEF ReceivedIsPooled, VotesIn
        <5> QED
          BY <5>2, <5>3
      <4> QED
        BY <4>1, <4>2 DEF ReceivedIsPooled
    <3>7. BoxesWellFormed'
      <4> DEFINE a == Append(old, v)
      <4>1. /\ Len(a) = n + 1 /\ a[n + 1] = v /\ a # <<>> /\ n \in Nat
            /\ \A i \in 1..n : a[i] = old[i]
        BY <3>2
      <4>2. \A i \in 1..n : old[i] # v
        BY <2>1, <3>4, <3>5
      <4> HIDE DEF a
      <4>3. \A i \in 1..Len(a) : a[i].target_hash = h
        <5> TAKE i \in 1..Len(a)
        <5>1. i = n + 1 \/ i \in 1..n
          BY <4>1
        <5> QED
          BY <3>5, <4>1, <5>1 DEF h
      <4>4. \A i, j \in 1..Len(a) : a[i] = a[j] => i = j
        <5> TAKE i, j \in 1..Len(a)
        <5>1. (i = n + 1 \/ i \in 1..n) /\ (j = n + 1 \/ j \in 1..n)
          BY <4>1
        <5> QED
          BY <3>5, <4>1, <4>2, <5>1
      <4>5. ASSUME NEW k \in DOMAIN cur_votes'
            PROVE  /\ cur_votes'[k] # <<>>
                   /\ \A i \in 1..Len(cur_votes'[k]) : cur_votes'[k][i].target_hash = k
                   /\ \A i, j \in 1..Len(cur_votes'[k]) :
                        cur_votes'[k][i] = cur_votes'[k][j] => i = j
        <5>1. CASE k = h
          BY <3>1, <4>1, <4>3, <4>4, <5>1 DEF a
        <5>2. CASE k # h
          BY <3>1, <5>2 DEF BoxesWellFormed
        <5> QED
          BY <5>1, <5>2
      <4> QED
        BY <4>5 DEF BoxesWellFormed
    <3>8. OneEntryPerBox'
      BY <3>1 DEF OneEntryPerBox
    <3>9. EntriesAreVotes'
      BY <3>1 DEF EntriesAreVotes
    <3> QED
      BY <3>6, <3>7, <3>8, <3>9
  <2>2. ASSUME NEW v \in Votes, Insert(v)
        PROVE  IndexInv'
    <3>1. CASE v \in received
      BY <2>2, <3>1 DEF Insert, poolVars, ReceivedIsPooled, BoxesWellFormed, OneEntryPerBox,
                        EntriesAreVotes, VotesIn
    <3> QED
      BY <2>1, <2>2, <3>1
  <2>3. ASSUME NEW n \in LatestBlocks, Prune(n)
        PROVE  IndexInv'
    <3> DEFINE gone == {d.target_hash : d \in Popped(n)}
    <3>1. /\ pq' = pq \ Popped(n)
          /\ DOMAIN cur_votes' = DOMAIN cur_votes \ gone
          /\ \A k \in DOMAIN cur_votes' : cur_votes'[k] = cur_votes[k]
      BY <2>3 DEF Prune, Restrict
    <3>2. Popped(n) \subseteq pq
      BY DEF Popped
    <3>3. \A k \in DOMAIN cur_votes : \A x \in Range(cur_votes[k]) : x.target_hash = k
      BY <2>3, PruneRemoves
    <3>4. \A x : x \in received' <=> x \in received /\ x.target_hash \notin gone
      BY <2>3, PruneRemoves
    <3> HIDE DEF gone
    <3>6. ReceivedIsPooled'
      <4>1. \A x : x \in VotesIn(cur_votes') <=>
                     \E k \in DOMAIN cur_votes : k \notin gone /\ x \in Range(cur_votes[k])
        BY <3>1 DEF VotesIn
      <4>2. \A x : x \in received <=> \E k \in DOMAIN cur_votes : x \in Range(cur_votes[k])
        BY DEF ReceivedIsPooled, VotesIn
      <4>3. \A x : x \in received' <=> x \in VotesIn(cur_votes')
        BY <3>3, <3>4, <4>1, <4>2
      <4> QED
        BY <4>3 DEF ReceivedIsPooled
    <3>7. BoxesWellFormed'
      BY <3>1 DEF BoxesWellFormed
    <3>8. OneEntryPerBox'
      <4>1. \A d \in pq : d \in Popped(n) <=> d.target_hash \in gone
        BY <3>2 DEF gone, OneEntryPerBox
      <4> QED
        BY <3>1, <4>1 DEF OneEntryPerBox
    <3>9. EntriesAreVotes'
      <4> SUFFICES ASSUME NEW d \in pq' PROVE \E v \in received' : d = Data(v)
        BY DEF EntriesAreVotes
      <4>1. d \in pq /\ d.target_hash \notin gone
        BY <3>1, <3>2 DEF gone, OneEntryPerBox
      <4>2. PICK v \in received : d = Data(v)
        BY <4>1 DEF EntriesAreVotes
      <4>3. v.target_hash = d.target_hash
        BY <4>2 DEF Data
      <4> QED
        BY <3>4, <4>1, <4>2, <4>3
    <3> QED
      BY <3>6, <3>7, <3>8, <3>9
  <2>4. CASE Drain
    BY <2>4 DEF Drain, ReceivedIsPooled, BoxesWellFormed, OneEntryPerBox, EntriesAreVotes, VotesIn
  <2>5. CASE UNCHANGED poolVars
    BY <2>5 DEF poolVars, ReceivedIsPooled, BoxesWellFormed, OneEntryPerBox, EntriesAreVotes, VotesIn
  <2>6. ASSUME NEW p \in Packets(Votes), HandleVotesBroadcast(p)
        PROVE  IndexInv'
    <3>1. Head(p) \in Votes /\ Insert(Head(p))
      BY <2>6 DEF Packets, HandleVotesBroadcast
    <3> QED
      BY <2>2, <3>1
  <2> QED
    BY <2>2, <2>3, <2>4, <2>5, <2>6 DEF PoolNext, PutVote
<1> QED
  BY <1>1, <1>2, PoolTypeCorrect, PTL DEF PoolSpec

\* The indexes of the pool agree.
THEOREM IndexesAlwaysAgree == PoolSpec => []IndexesAgree
<1>1. IndexInv => IndexesAgree
  BY DEF IndexInv
<1> QED
  BY <1>1, IndexInvariant, PTL

\* A pruning removes a vote exactly when it is too old, provided that the votes
\* received for its block agree on the block's number.
THEOREM PruneExactWhereAgreed == PoolSpec => AgreedPruneIsExact
<1>1. ASSUME PoolTypeOK, IndexInv, NEW n \in LatestBlocks, Prune(n), NEW v \in received, Agreed(v)
      PROVE  v \in received' <=> ~TooOld(v, n)
  <2> DEFINE gone == {d.target_hash : d \in Popped(n)}
             L == LOWER_LIMIT_OF_VOTE_BLOCK_NUMBER
  <2>1. L \in Nat \ {0} /\ U64 \in Nat \ {0} /\ n \in Nat /\ v.target_number \in Nat
    BY <1>1, PoolConstants DEF PoolTypeOK, VoteEnvelope
  <2>2. v.target_hash \in DOMAIN cur_votes /\ (v \in received' <=> v.target_hash \notin gone)
    BY <1>1, PruneRemoves DEF IndexInv, IndexesAgree
  <2>3. PICK d \in pq : d.target_hash = v.target_hash
    BY <1>1, <2>2 DEF IndexInv, IndexesAgree, OneEntryPerBox
  <2>4. d.target_number = v.target_number
    <3>1. PICK w \in received : d = Data(w)
      BY <1>1 DEF IndexInv, EntriesAreVotes
    <3> QED
      BY <1>1, <2>3, <3>1 DEF Data, Agreed
  <2>5. v.target_hash \in gone <=> d \in Popped(n)
    BY <1>1, <2>3 DEF IndexInv, IndexesAgree, OneEntryPerBox, Popped
  <2>6. ASSUME NEW e \in pq, e.target_number <= d.target_number
        PROVE  OutOfRange(e, n) <=> e.target_number + L - 1 < n
    <3>1. e.target_number \in Nat
      BY <1>1 DEF PoolTypeOK, PoolData
    <3>2. e.target_number + L - 1 \in 0..(U64 - 1)
      BY <1>1, <2>1, <2>4, <2>6, <3>1 DEF Agreed
    <3>3. (e.target_number + L - 1) % U64 = e.target_number + L - 1
      BY <2>1, <3>2
    <3> QED
      BY <3>3 DEF OutOfRange
  <2>7. d \in Popped(n) <=> d.target_number + L - 1 < n
    <3>1. \A e \in pq : e.target_number \in Nat
      BY <1>1 DEF PoolTypeOK, PoolData
    <3>2. ASSUME d \in Popped(n) PROVE d.target_number + L - 1 < n
      BY <2>6, <3>1, <3>2 DEF Popped
    <3>3. ASSUME d.target_number + L - 1 < n PROVE d \in Popped(n)
      <4> SUFFICES ASSUME NEW e \in pq, e.target_number <= d.target_number
                   PROVE  OutOfRange(e, n)
        BY DEF Popped
      <4>1. e.target_number + L - 1 < n
        BY <2>1, <3>1, <3>3
      <4> QED
        BY <2>6, <4>1
    <3> QED
      BY <3>2, <3>3
  <2> QED
    BY <2>2, <2>4, <2>5, <2>7 DEF TooOld
<1>2. PoolTypeOK /\ IndexInv =>
        [pq' # pq =>
           \A n \in LatestBlocks : Prune(n) =>
             \A v \in received : Agreed(v) => (v \in received' <=> ~TooOld(v, n))]_poolVars
  BY <1>1
<1> QED
  BY <1>2, PoolTypeCorrect, IndexInvariant, PTL DEF AgreedPruneIsExact

----------------------------------------------------------------------------
(* The node. *)

\* Whatever traffic reaches a node, its tasks behave as Spec says and its pool as
\* PoolSpec says: what is proved of each of them holds in the node. The votes
\* that the tasks put into the pool are among those the pool is defined for.
THEOREM VotingImplements == VotingSpec => Spec /\ PoolSpec
<1>1. VotingInit => Init /\ PoolInit /\ traffic \in Traffic
  BY DEF VotingInit
<1>2. [VotingNext]_votingVars => [Next]_vars /\ UNCHANGED traffic
  BY DEF VotingNext, votingVars, Produce, RestartNode, PoolStep, Next
<1>3. VotingSpec => Spec /\ [](traffic \in Traffic)
  <2>1. traffic \in Traffic /\ UNCHANGED traffic => (traffic \in Traffic)'
    OBVIOUS
  <2> QED
    BY <1>1, <1>2, <2>1, PTL DEF VotingSpec, Spec
<1>4. TypeOK /\ traffic \in Traffic /\ [VotingNext]_votingVars => [PoolNext]_poolVars
  <2> SUFFICES ASSUME TypeOK, traffic \in Traffic, [VotingNext]_votingVars
               PROVE  [PoolNext]_poolVars
    OBVIOUS
  <2>1. ASSUME NEW t \in Tasks, Produce(t)
        PROVE  [PoolNext]_poolVars
    <3>1. Envelope(head[t]) \in Votes
      BY VotingConstants DEF TypeOK
    <3> QED
      BY <2>1, <3>1 DEF Produce, PoolNext
  <2>2. CASE RestartNode
    BY <2>2 DEF RestartNode, PoolNext
  <2>3. CASE PoolStep
    <3>1. traffic.votes \subseteq Votes /\ traffic.latest \subseteq LatestBlocks
      BY VotingConstants
    <3>2. Packets(traffic.votes) \subseteq Packets(Votes)
      BY <3>1 DEF Packets
    <3> QED
      BY <2>3, <3>1, <3>2 DEF PoolStep, PoolNext
  <2>4. CASE UNCHANGED votingVars
    BY <2>4 DEF votingVars
  <2> QED
    BY <2>1, <2>2, <2>3, <2>4 DEF VotingNext
<1> QED
  BY <1>1, <1>3, <1>4, TypeCorrect, PTL DEF VotingSpec, PoolSpec
============================================================================
