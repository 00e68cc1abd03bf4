------------------------- MODULE BlockImportProofs -------------------------
(***************************************************************************)
(* Proofs about block import and the fork choice, for any tree of blocks   *)
(* and any number of imports at the same time.                             *)
(***************************************************************************)
EXTENDS BlockImport, SequenceFacts

----------------------------------------------------------------------------
(* The chain of a block. *)

\* One step from a set of blocks to their parents.
Parents(S) == {Header[c].parent : c \in S}

\* u lists the ancestors of b, n generations at a time.
IsWalk(u, b, n) ==
  /\ u = [i \in 0..n |-> u[i]]
  /\ u[0] = {b}
  /\ \A i \in 1..n : u[i] = u[i - 1] \cup Parents(u[i - 1])

\* A walk of any length exists.
LEMMA WalkExists ==
  ASSUME NEW b \in Blocks, NEW n \in Nat
  PROVE  \E u : IsWalk(u, b, n)
<1> DEFINE S == {k \in Nat : ~\E u : IsWalk(u, b, k)}
<1> SUFFICES ASSUME S # {} PROVE FALSE
  OBVIOUS
<1>1. PICK m \in S : \A k \in S : m <= k
  <2>1. S \in SUBSET Nat
    OBVIOUS
  <2> QED
    BY <2>1, LeastNumber
<1>2. m # 0
  <2>1. IsWalk([i \in 0..0 |-> {b}], b, 0)
    BY DEF IsWalk
  <2> QED
    BY <2>1
<1>3. m - 1 \in Nat /\ m - 1 \notin S
  BY <1>1, <1>2
<1>4. PICK u : IsWalk(u, b, m - 1)
  BY <1>3
<1> DEFINE w == [i \in 0..m |-> IF i = m THEN u[m - 1] \cup Parents(u[m - 1]) ELSE u[i]]
<1>5. IsWalk(w, b, m)
  BY <1>2, <1>3, <1>4 DEF IsWalk
<1> QED
  BY <1>5

\* The chain of a block is the end of a walk as long as its number.
LEMMA ChainIsWalk ==
  ASSUME NEW b \in Blocks
  PROVE  \E u : IsWalk(u, b, Header[b].number) /\ Chain(b) = u[Header[b].number]
<1> DEFINE N == Header[b].number
           G(u, n) == IF n = 0 THEN {b} ELSE u[n - 1] \cup Parents(u[n - 1])
           up == CHOOSE u : u = [n \in 0..N |-> G(u, n)]
<1>1. N \in Nat
  BY TreeConstants DEF HeaderFields
<1> HIDE DEF N
<1>2. PICK w : IsWalk(w, b, N)
  BY <1>1, WalkExists
<1>3. w = [n \in 0..N |-> G(w, n)]
  <2>1. \A n \in 0..N : w[n] = G(w, n)
    BY <1>1, <1>2 DEF IsWalk
  <2> HIDE DEF G
  <2> QED
    BY <1>2, <2>1 DEF IsWalk
<1>4. up = [n \in 0..N |-> G(up, n)]
  <2> HIDE DEF G
  <2> QED
    BY <1>3
<1>5. Chain(b) = up[N]
  BY DEF Chain, Parents, N
<1> HIDE DEF up
<1>6. IsWalk(up, b, N)
  <2>1. \A n \in 0..N : up[n] = G(up, n)
    <3> HIDE DEF G
    <3> QED
      BY <1>4
  <2>2. up = [n \in 0..N |-> up[n]]
    <3> HIDE DEF G
    <3> QED
      BY <1>4
  <2>3. up[0] = {b}
    <3>1. 0 \in 0..N /\ G(up, 0) = {b}
      BY <1>1
    <3> HIDE DEF G
    <3> QED
      BY <2>1, <3>1
  <2>4. ASSUME NEW n \in 1..N PROVE up[n] = up[n - 1] \cup Parents(up[n - 1])
    <3>1. n \in 0..N /\ n # 0
      BY <1>1
    <3>2. G(up, n) = up[n - 1] \cup Parents(up[n - 1])
      BY <3>1
    <3> HIDE DEF G
    <3> QED
      BY <2>1, <3>1, <3>2
  <2> QED
    BY <2>2, <2>3, <2>4 DEF IsWalk
<1> QED
  BY <1>5, <1>6 DEF N

\* The number of the block that b's snapshot justifies.
JustifiedOf(b) == Header[Header[b].justified].number

\* What the tree's assumptions say of one header.
LEMMA HeaderFacts ==
  ASSUME NEW b \in Blocks
  PROVE  /\ Header[b].number \in Nat /\ Header[b].td \in Nat /\ JustifiedOf(b) \in Nat
         /\ Header[b].parent \in Blocks /\ Header[b].difficulty \in Nat \ {0}
         /\ Header[b].number < PlatoBlock => JustifiedOf(b) = 0
         /\ b # Genesis =>
              /\ Header[b].number = Header[Header[b].parent].number + 1
              /\ Header[b].td = Header[Header[b].parent].td + Header[b].difficulty
              /\ JustifiedOf(b) >= JustifiedOf(Header[b].parent)
         /\ b = Genesis => Header[b].number = 0
<1>1. Header[b] \in HeaderFields
  BY TreeConstants
<1>2. Header[b].justified \in Blocks /\ Header[Header[b].justified] \in HeaderFields
  BY <1>1, TreeConstants DEF HeaderFields
<1> QED
  BY <1>1, <1>2, TreeConstants DEF HeaderFields, JustifiedOf

\* c is b, or a block below b that the rule does not prefer to it.
NotAbove(c, b) ==
  /\ c \in Blocks
  /\ Header[c].number <= Header[b].number
  /\ Header[c].number = Header[b].number => c = b
  /\ Header[c].td <= Header[b].td
  /\ JustifiedOf(c) <= JustifiedOf(b)

\* Every block of a chain is in it, lower and not preferred.
LEMMA ChainFacts ==
  ASSUME NEW b \in Blocks
  PROVE  b \in Chain(b) /\ \A c \in Chain(b) : NotAbove(c, b)
<1> DEFINE N == Header[b].number
<1>1. N \in Nat
  BY HeaderFacts
<1>2. PICK u : IsWalk(u, b, N) /\ Chain(b) = u[N]
  BY ChainIsWalk
<1> DEFINE Good(i) == /\ b \in u[i]
                      /\ \A c \in u[i] : NotAbove(c, b) /\ Header[c].number >= N - i
           S == {i \in 0..N : ~Good(i)}
<1> HIDE DEF N
<1>3. Good(0)
  <2>1. u[0] = {b}
    BY <1>2 DEF IsWalk
  <2> QED
    BY <1>1, <2>1, HeaderFacts DEF NotAbove, N
<1>4. ASSUME NEW i \in 1..N, Good(i - 1)
      PROVE  Good(i)
  <2>1. u[i] = u[i - 1] \cup Parents(u[i - 1])
    BY <1>2 DEF IsWalk
  <2>2. ASSUME NEW c \in u[i - 1]
        PROVE  NotAbove(Header[c].parent, b) /\ Header[Header[c].parent].number >= N - i
    <3>1. NotAbove(c, b) /\ Header[c].number >= N - (i - 1)
      BY <1>4
    <3>2. c \in Blocks /\ c # Genesis
      BY <1>1, <3>1, HeaderFacts DEF NotAbove
    <3>3. Header[c].parent \in Blocks
      BY <3>2, HeaderFacts
    <3> QED
      BY <1>1, <3>1, <3>2, <3>3, HeaderFacts DEF NotAbove
  <2>3. \A c \in u[i - 1] : Header[c].number >= N - i
    BY <1>1, <1>4, HeaderFacts DEF NotAbove
  <2> QED
    BY <1>4, <2>1, <2>2, <2>3 DEF Parents
<1>5. S = {}
  <2> SUFFICES ASSUME S # {} PROVE FALSE
    OBVIOUS
  <2>1. S \in SUBSET Nat
    BY <1>1
  <2>2. PICK m \in S : \A k \in S : m <= k
    <3> HIDE DEF S
    <3> QED
      BY <2>1, LeastNumber
  <2>3. m \in 0..N /\ ~Good(m)
    OBVIOUS
  <2> HIDE DEF Good
  <2>4. m \in 1..N
    BY <1>1, <1>3, <2>3
  <2>5. m - 1 \notin S
    BY <2>2, <2>4
  <2>6. Good(m - 1)
    BY <1>1, <2>4, <2>5
  <2> QED
    BY <1>4, <2>3, <2>4, <2>6
<1>6. Good(N)
  <2> HIDE DEF Good
  <2> QED
    BY <1>1, <1>5
<1> QED
  BY <1>2, <1>6

\* What the rule looks at is monotone in what the headers justify.
LEMMA JustifiedNumIs ==
  ASSUME NEW b \in Blocks
  PROVE  JustifiedNum(b, TRUE) = JustifiedOf(b)
<1>1. Header[b].number < LubanBlock => JustifiedOf(b) = 0
  BY TreeConstants, HeaderFacts
<1> QED
  BY <1>1, TreeConstants, HeaderFacts DEF JustifiedNum, JustifiedOf

\* Prefers, in terms of the numbers compared.
LEMMA PrefersIs ==
  ASSUME NEW b \in Blocks, NEW c \in Blocks
  PROVE  Prefers(b, c) <=> (JustifiedOf(b) > JustifiedOf(c) \/ (JustifiedOf(b) = JustifiedOf(c) /\ Header[b].td > Header[c].td))
BY JustifiedNumIs DEF Prefers

----------------------------------------------------------------------------
(* The caches of hashes. *)

\* A cache that has room for every block forgets none.
LEMMA TouchFacts ==
  ASSUME NEW s \in Seq(Blocks), NEW b \in Blocks
  PROVE  /\ Touch(s, b) \in Seq(Blocks)
         /\ NoRepeats(s) /\ Cardinality(Blocks) <= LRU_PROCESSED_BLOCKS_SIZE =>
              NoRepeats(Touch(s, b)) /\ ToSet(Touch(s, b)) = ToSet(s) \cup {b}
<1> DEFINE r == RemoveFirst(s, b)
           c == Append(r, b)
<1>1. /\ r \in Seq(Blocks)
      /\ NoRepeats(s) => NoRepeats(r) /\ ToSet(r) = ToSet(s) \ {b}
  BY RemoveFirstFacts
<1>2. Touch(s, b) = IF Len(c) > LRU_PROCESSED_BLOCKS_SIZE THEN Tail(c) ELSE c
  BY DEF Touch
<1> HIDE DEF r
<1>3. /\ c \in Seq(Blocks) /\ c # <<>> /\ Len(c) = Len(r) + 1 /\ Len(r) \in Nat
      /\ \A i \in 1..Len(r) : c[i] = r[i]
      /\ c[Len(r) + 1] = b
      /\ DOMAIN c = 1..(Len(r) + 1) /\ DOMAIN r = 1..Len(r)
  BY <1>1, AppendProperties, LenProperties
<1> HIDE DEF c
<1>4. Touch(s, b) \in Seq(Blocks)
  BY <1>2, <1>3, HeadTailProperties
<1>5. ASSUME NoRepeats(s), Cardinality(Blocks) <= LRU_PROCESSED_BLOCKS_SIZE
      PROVE  NoRepeats(Touch(s, b)) /\ ToSet(Touch(s, b)) = ToSet(s) \cup {b}
  <2>1. \A i \in 1..Len(r) : r[i] # b
    BY <1>1, <1>3, <1>5 DEF ToSet
  <2>2. NoRepeats(c)
    <3> SUFFICES ASSUME NEW i \in 1..Len(c), NEW j \in 1..Len(c), c[i] = c[j] PROVE i = j
      BY DEF NoRepeats
    <3>1. (i = Len(r) + 1 \/ i \in 1..Len(r)) /\ (j = Len(r) + 1 \/ j \in 1..Len(r))
      BY <1>3
    <3> QED
      BY <1>1, <1>3, <1>5, <2>1, <3>1 DEF NoRepeats
  <2>3. ToSet(c) = ToSet(r) \cup {b}
    <3>1. \A i \in 1..(Len(r) + 1) : i = Len(r) + 1 \/ i \in 1..Len(r)
      BY <1>3
    <3>2. Len(r) + 1 \in DOMAIN c /\ \A i \in 1..Len(r) : i \in DOMAIN c
      BY <1>3
    <3> QED
      BY <1>3, <3>1, <3>2 DEF ToSet
  <2>4. b \in ToSet(c) /\ ToSet(c) = ToSet(s) \cup {b}
    BY <1>1, <1>5, <2>3
  <2>5. Cardinality(Blocks) \in Nat
    BY TreeConstants, FS_CardinalityType
  <2>6. Len(c) <= Cardinality(Blocks)
    BY <1>3, <2>2, TreeConstants, NoRepeatsShort
  <2>7. Touch(s, b) = c
    BY <1>2, <1>3, <1>5, <2>5, <2>6, ImportConstants
  <2> QED
    BY <2>2, <2>4, <2>7
<1> QED
  BY <1>4, <1>5

----------------------------------------------------------------------------
(* The inductive invariant. *)

Stages == {"idle", "payload", "sync", "number"} \cup Read \cup {"outcome"}

ImportRecord ==
  [at : Stages, block : Blocks, own : BOOLEAN, number : Nat, current : Blocks,
   current_td : Int, incoming_td : Int]

\* Type invariant. The head is a block of the engine's tree, and what is being
\* imported is not the genesis block.
Typed ==
  /\ known \subseteq Blocks /\ head \in known /\ target \in Blocks \cup {NoBlock}
  /\ processed \in Seq(Blocks) /\ queued \in Seq(Blocks)
  /\ td_cache \in [DOMAIN td_cache -> Int] /\ DOMAIN td_cache \subseteq Blocks
  /\ import \in [Imports -> ImportRecord]
  /\ \A i \in Imports : import[i].at # "idle" => import[i].block # Genesis
  /\ mined \subseteq Mined /\ stale \subseteq Imports /\ unsound \in BOOLEAN
  /\ settled \subseteq Blocks /\ submitted \in [Blocks -> Nat] /\ faults \in Nat

\* Until the current header's difficulty is asked for, none is recorded.
NotYetAsked ==
  \A i \in Imports :
    import[i].at \notin {"td_incoming", "choose", "outcome"} => import[i].current_td = Unknown

\* An import that no change of the head has overtaken holds the present head.
ReadersFresh ==
  \A i \in Imports \ stale :
    /\ import[i].at = "header" => import[i].number = Header[head].number
    /\ import[i].at \in Read \ {"header"} => import[i].current = head

ChoiceInv == DifficultiesRight /\ NotYetAsked /\ ReadersFresh /\ BestBlockWins

----------------------------------------------------------------------------
(* Types. *)

\* The idle slot is a record of an import.
LEMMA IdleTyped == Idle \in ImportRecord /\ Idle.at = "idle" /\ Idle.current_td = Unknown
                   /\ Idle.incoming_td = Unknown /\ Idle.current = Genesis /\ Idle.own = FALSE
BY TreeConstants DEF Idle, ImportRecord, Stages, Unknown

\* The slots after a step.
SlotsTyped == /\ import' \in [Imports -> ImportRecord]
              /\ \A j \in Imports : import'[j].at # "idle" => import'[j].block # Genesis

\* One slot is replaced.
LEMMA SlotSet ==
  ASSUME Typed, NEW i \in Imports, NEW m \in ImportRecord, m.at # "idle" => m.block # Genesis,
         import' = [import EXCEPT ![i] = m]
  PROVE  SlotsTyped
BY DEF Typed, SlotsTyped

\* An import goes on to a stage, or ends.
LEMMA SlotGoesOn ==
  ASSUME Typed, NEW i \in Imports, import[i].at # "idle"
  PROVE  /\ \A stage \in Stages : Goto(i, stage) => SlotsTyped
         /\ Finish(i) => SlotsTyped
<1>1. ASSUME NEW stage \in Stages, Goto(i, stage) PROVE SlotsTyped
  <2>1. [import[i] EXCEPT !.at = stage] \in ImportRecord
    BY DEF Typed, ImportRecord
  <2>2. [import[i] EXCEPT !.at = stage].block # Genesis
    BY DEF Typed, ImportRecord
  <2> QED
    BY <1>1, <2>1, <2>2, SlotSet DEF Goto
<1> QED
  BY <1>1, SlotSet, IdleTyped DEF Finish

\* The difficulties that a query may answer are numbers.
LEMMA TdsTyped == Tds \subseteq Int /\ \A b \in Blocks, td \in Tds : FromParent(b, td) \in Int
<1>1. \A b \in Blocks : Header[b].td \in Int /\ Header[b].difficulty \in Int
  BY HeaderFacts
<1>2. Unknown \in Int
  BY DEF Unknown
<1> HIDE DEF Unknown
<1> QED
  BY <1>1, <1>2 DEF Tds, FromParent

\* The cache of difficulties after a query.
LEMMA HeaderTdTyped ==
  ASSUME td_cache \in [DOMAIN td_cache -> Int], DOMAIN td_cache \subseteq Blocks,
         NEW b \in Blocks, NEW td \in Int, HeaderTd(b, td)
  PROVE  td_cache' \in [DOMAIN td_cache' -> Int] /\ DOMAIN td_cache' \subseteq Blocks
BY DEF HeaderTd

\* The head that an update sets is a known block.
LEMMA UpdateTyped ==
  ASSUME Typed, NEW b \in Blocks, ForkChoiceUpdated(b)
  PROVE  /\ head' \in known /\ target' \in Blocks \cup {NoBlock} /\ stale' \subseteq Imports
         /\ head' = IF b \in known /\ b \notin Chain(head) THEN b ELSE head
BY DEF Typed, ForkChoiceUpdated, SetHead

\* Every step keeps the types.
LEMMA TypedStep == Typed /\ [Next]_vars => Typed'
<1> SUFFICES ASSUME Typed, [Next]_vars PROVE Typed'
  OBVIOUS
<1> USE DEF Running, Goto, Finish, engine, caches, history
<1>0. Genesis \in Blocks /\ Mined \subseteq Blocks /\ \A i \in Imports : import[i] \in ImportRecord
  BY TreeConstants, ImportConstants DEF Typed
<1>1. ASSUME NEW i \in Imports, NEW b \in Blocks \ {Genesis}, OnNewBlock(i, b) PROVE Typed'
  <2>1. queued' \in Seq(Blocks)
    BY <1>1, TouchFacts DEF Typed, OnNewBlock
  <2>2. /\ import' \in [Imports -> ImportRecord]
        /\ \A j \in Imports : import'[j].at # "idle" => import'[j].block # Genesis
    BY <1>0, <1>1, IdleTyped DEF Typed, OnNewBlock, ImportRecord, Stages
  <2> QED
    BY <1>1, <2>1, <2>2 DEF Typed, OnNewBlock
<1>2. ASSUME NEW i \in Imports, NEW b \in Blocks \ {Genesis}, OnNewMinedBlock(i, b) PROVE Typed'
  <2>1. processed' \in Seq(Blocks)
    BY <1>2, TouchFacts DEF Typed, OnNewMinedBlock
  <2>2. /\ import' \in [Imports -> ImportRecord]
        /\ \A j \in Imports : import'[j].at # "idle" => import'[j].block # Genesis
    BY <1>0, <1>2, IdleTyped DEF Typed, OnNewMinedBlock, ImportRecord, Stages
  <2> QED
    BY <1>2, <2>1, <2>2 DEF Typed, OnNewMinedBlock
<1>3. ASSUME NEW b \in Mined, EngineInsertsBuilt(b) PROVE Typed'
  BY <1>0, <1>3 DEF Typed, EngineInsertsBuilt
<1>4. ASSUME EngineSync PROVE Typed'
  <2>1. target \in Blocks
    BY <1>4 DEF Typed, EngineSync
  <2>2. target \in Chain(target) /\ Chain(target) \subseteq Blocks
    BY <2>1, ChainFacts DEF NotAbove
  <2> QED
    BY <1>4, <2>1, <2>2 DEF Typed, EngineSync, SetHead
<1>5. ASSUME NEW i \in Imports, NewPayload(i) PROVE Typed'
  <2>0. import[i].at # "idle" /\ {"number", "sync"} \subseteq Stages
    BY <1>5 DEF NewPayload, Stages
  <2>1. SlotsTyped
    <3> HIDE DEF Goto, Finish
    <3> QED
      BY <1>5, <2>0, SlotGoesOn DEF NewPayload
  <2>2. known' \subseteq Blocks /\ known \subseteq known' /\ faults' \in Nat
    BY <1>0, <1>5 DEF Typed, NewPayload, ImportRecord, Fault
  <2> QED
    BY <1>5, <2>1, <2>2 DEF Typed, NewPayload, SlotsTyped
<1>6. ASSUME NEW i \in Imports, SyncTo(i) PROVE Typed'
  <2>1. /\ import' \in [Imports -> ImportRecord]
        /\ \A j \in Imports : import'[j].at # "idle" => import'[j].block # Genesis
    BY <1>6, IdleTyped DEF Typed, SyncTo
  <2>2. import[i].block \in Blocks
    BY <1>0 DEF ImportRecord
  <2>3. /\ head' \in known /\ target' \in Blocks \cup {NoBlock} /\ stale' \subseteq Imports
        /\ unsound' \in BOOLEAN /\ faults' \in Nat
    <3>1. CASE ForkChoiceUpdated(import[i].block) /\ unsound' = (unsound \/ head' # head) /\ UNCHANGED faults
      BY <2>2, <3>1, UpdateTyped DEF Typed
    <3>2. CASE Fault /\ UNCHANGED <<head, target, stale, unsound>>
      BY <3>2 DEF Typed, Fault
    <3> QED
      BY <1>6, <3>1, <3>2 DEF SyncTo
  <2> QED
    BY <1>6, <2>1, <2>3 DEF Typed, SyncTo
<1>7. ASSUME NEW i \in Imports, ReadNumber(i) PROVE Typed'
  <2>1. Header[head].number \in Nat
    BY HeaderFacts DEF Typed
  <2>2. /\ import' \in [Imports -> ImportRecord]
        /\ \A j \in Imports : import'[j].at # "idle" => import'[j].block # Genesis
    <3>1. import' \in [Imports -> ImportRecord]
      <4> DEFINE old == import[i]
                 next == [old EXCEPT !.at = "header", !.number = Header[head].number]
      <4>1. old \in ImportRecord /\ import' = [import EXCEPT ![i] = next]
        BY <1>0, <1>7 DEF ReadNumber
      <4> HIDE DEF old
      <4>2. next \in ImportRecord
        BY <2>1, <4>1 DEF ImportRecord, Stages, Read
      <4> HIDE DEF next
      <4> QED
        BY <4>1, <4>2 DEF Typed
    <3>2. import[i].at # "idle" /\ import[i].block # Genesis
      BY <1>7 DEF Typed, ReadNumber
    <3>3. \A j \in Imports : import'[j].at # "idle" => import[j].at # "idle" /\ import'[j].block = import[j].block
      BY <1>0, <1>7, <3>2 DEF ReadNumber, ImportRecord, Typed
    <3> QED
      BY <3>1, <3>3 DEF Typed
  <2> QED
    BY <1>7, <2>2 DEF Typed, ReadNumber
<1>8. ASSUME NEW i \in Imports, ReadHeader(i) PROVE Typed'
  <2>1. Chain(head) \subseteq Blocks
    BY ChainFacts DEF Typed, NotAbove
  <2>2. import[i].at # "idle" /\ {"outcome", "td_current"} \subseteq Stages
    BY <1>8 DEF ReadHeader, Stages, Read
  <2>3. ASSUME NEW b \in Blocks, import' = [import EXCEPT ![i].at = "td_current", ![i].current = b]
        PROVE  SlotsTyped
    <3> DEFINE m == [import[i] EXCEPT !.at = "td_current", !.current = b]
    <3>1. m \in ImportRecord /\ m.block # Genesis
      BY <1>0, <2>2 DEF ImportRecord, Typed
    <3>2. import' = [import EXCEPT ![i] = m]
      BY <2>3 DEF Typed
    <3> HIDE DEF m
    <3> QED
      BY <3>1, <3>2, SlotSet
  <2>4. SlotsTyped
    <3> HIDE DEF Goto, Finish
    <3> QED
      BY <1>8, <2>1, <2>2, <2>3, SlotGoesOn DEF ReadHeader
  <2> QED
    BY <1>8, <2>4 DEF Typed, ReadHeader, SlotsTyped
<1>9. ASSUME NEW i \in Imports, TdCurrent(i) PROVE Typed'
  <2>0. import[i].current \in Blocks
    BY <1>0 DEF ImportRecord
  <2>a. import[i].at # "idle" /\ {"outcome", "td_incoming"} \subseteq Stages
    BY <1>9 DEF TdCurrent, Stages, Read
  <2>b. ASSUME NEW td \in Int, import' = [import EXCEPT ![i].at = "td_incoming", ![i].current_td = td]
        PROVE  SlotsTyped
    <3> DEFINE m == [import[i] EXCEPT !.at = "td_incoming", !.current_td = td]
    <3>1. m \in ImportRecord /\ m.block # Genesis
      BY <1>0, <2>a DEF ImportRecord, Typed
    <3>2. import' = [import EXCEPT ![i] = m]
      BY <2>b DEF Typed
    <3> HIDE DEF m
    <3> QED
      BY <3>1, <3>2, SlotSet
  <2>1. SlotsTyped
    <3> HIDE DEF Goto, Finish
    <3> QED
      BY <1>9, <2>a, <2>b, TdsTyped, SlotGoesOn DEF TdCurrent
  <2>2. td_cache' \in [DOMAIN td_cache' -> Int] /\ DOMAIN td_cache' \subseteq Blocks
    BY <1>9, <2>0, TdsTyped, HeaderTdTyped DEF Typed, TdCurrent, HeaderTdFails
  <2> QED
    BY <1>9, <2>1, <2>2 DEF Typed, TdCurrent, Fault, SlotsTyped
<1>10. ASSUME NEW i \in Imports, TdIncoming(i) PROVE Typed'
  <2>0. import[i].block \in Blocks /\ Header[import[i].block].parent \in Blocks
    BY <1>0, HeaderFacts DEF ImportRecord
  <2>a. import[i].at # "idle" /\ {"outcome", "choose"} \subseteq Stages
    BY <1>10 DEF TdIncoming, Stages, Read
  <2>b. ASSUME NEW td \in Int, import' = [import EXCEPT ![i].at = "choose", ![i].incoming_td = td]
        PROVE  SlotsTyped
    <3> DEFINE m == [import[i] EXCEPT !.at = "choose", !.incoming_td = td]
    <3>1. m \in ImportRecord /\ m.block # Genesis
      BY <1>0, <2>a DEF ImportRecord, Typed
    <3>2. import' = [import EXCEPT ![i] = m]
      BY <2>b DEF Typed
    <3> HIDE DEF m
    <3> QED
      BY <3>1, <3>2, SlotSet
  <2>1. SlotsTyped
    <3> HIDE DEF Goto, Finish
    <3> QED
      BY <1>10, <2>0, <2>a, <2>b, TdsTyped, SlotGoesOn DEF TdIncoming
  <2>2. td_cache' \in [DOMAIN td_cache' -> Int] /\ DOMAIN td_cache' \subseteq Blocks
    BY <1>10, <2>0, TdsTyped, HeaderTdTyped DEF Typed, TdIncoming, HeaderTdFails
  <2> QED
    BY <1>10, <2>1, <2>2 DEF Typed, TdIncoming, Fault, SlotsTyped
<1>11. ASSUME NEW i \in Imports, Choose(i) PROVE Typed'
  <2>0. import[i].block \in Blocks /\ import[i].current \in Blocks
    BY <1>0 DEF ImportRecord
  <2>1. /\ import' \in [Imports -> ImportRecord]
        /\ \A j \in Imports : import'[j].at # "idle" => import'[j].block # Genesis
    BY <1>0, <1>11 DEF Typed, Choose, ImportRecord, Stages
  <2>2. /\ head' \in known /\ target' \in Blocks \cup {NoBlock} /\ stale' \subseteq Imports
        /\ unsound' \in BOOLEAN /\ settled' \subseteq Blocks
    BY <1>11, <2>0, UpdateTyped DEF Typed, Choose
  <2> QED
    BY <1>11, <2>1, <2>2 DEF Typed, Choose, Fault
<1>12. ASSUME NEW i \in Imports, Outcome(i) PROVE Typed'
  <2>0. import[i].block \in Blocks
    BY <1>0 DEF ImportRecord
  <2>1. /\ import' \in [Imports -> ImportRecord]
        /\ \A j \in Imports : import'[j].at # "idle" => import'[j].block # Genesis
    BY <1>12, IdleTyped DEF Typed, Outcome
  <2>2. processed' \in Seq(Blocks)
    BY <1>12, <2>0, TouchFacts DEF Typed, Outcome
  <2> QED
    BY <1>12, <2>1, <2>2 DEF Typed, Outcome
<1>13. ASSUME UNCHANGED vars PROVE Typed'
  BY <1>13 DEF Typed, vars
<1> QED
  BY <1>1, <1>2, <1>3, <1>4, <1>5, <1>6, <1>7, <1>8, <1>9, <1>10, <1>11, <1>12, <1>13
     DEF Next, Step, Wait

\* Type correctness: the head is a block the engine knows, and the caches, the imports
\* and the counters stay within their types.
THEOREM TypeCorrect == Spec => []Typed
<1>1. Init => Typed
  <2> SUFFICES ASSUME Init PROVE Typed
    OBVIOUS
  <2>1. import \in [Imports -> ImportRecord] /\ \A i \in Imports : import[i].at = "idle"
    BY IdleTyped DEF Init
  <2>2. td_cache \in [DOMAIN td_cache -> Int] /\ DOMAIN td_cache \subseteq Blocks
    <3>1. <<>> \in Seq(Int) /\ Len(<<>>) = 0
      BY EmptySeq
    <3>2. DOMAIN <<>> = {}
      BY <3>1, LenProperties
    <3> QED
      BY <3>1, <3>2, LenProperties DEF Init
  <2>3. processed \in Seq(Blocks) /\ queued \in Seq(Blocks)
    BY DEF Init
  <2>4. /\ known \subseteq Blocks /\ head \in known /\ target = NoBlock /\ mined = {} /\ stale = {}
        /\ unsound = FALSE /\ settled = {} /\ submitted \in [Blocks -> Nat] /\ faults = 0
    BY TreeConstants DEF Init
  <2> QED
    BY <2>1, <2>2, <2>3, <2>4 DEF Typed
<1> QED
  BY <1>1, TypedStep, PTL DEF Spec

----------------------------------------------------------------------------
(* The difficulties that the rule compares. *)

\* A query answers the block's own difficulty, or that it is unknown, and the cache
\* stays right.
LEMMA HeaderTdRight ==
  ASSUME Typed, DifficultiesRight, NEW b \in Blocks, NEW td, HeaderTd(b, td)
  PROVE  /\ td \in {Unknown, Header[b].td}
         /\ \A c \in DOMAIN td_cache' : td_cache'[c] \in {Unknown, Header[c].td}
BY DEF HeaderTd, DifficultiesRight

\* What DifficultiesRight and NotYetAsked say of one import.
SlotRight(m) ==
  /\ m.current_td \in {Unknown, Header[m.current].td}
  /\ m.incoming_td \in {Unknown, Header[m.block].td}
  /\ m.at \notin {"td_incoming", "choose", "outcome"} => m.current_td = Unknown

\* A step that replaces one import by a right one.
LEMMA SlotStaysRight ==
  ASSUME Typed, DifficultiesRight, NotYetAsked, NEW i \in Imports, NEW m, SlotRight(m),
         import' = [import EXCEPT ![i] = m],
         \A c \in DOMAIN td_cache' : td_cache'[c] \in {Unknown, Header[c].td}
  PROVE  DifficultiesRight' /\ NotYetAsked'
<1>1. \A j \in Imports : import'[j] = m \/ import'[j] = import[j]
  BY DEF Typed
<1>2. \A j \in Imports : SlotRight(import[j])
  BY DEF DifficultiesRight, NotYetAsked, SlotRight
<1> QED
  BY <1>1, <1>2 DEF DifficultiesRight, NotYetAsked, SlotRight

\* Every step keeps the difficulties right.
LEMMA DifficultiesStep ==
  Typed /\ DifficultiesRight /\ NotYetAsked /\ [Next]_vars => DifficultiesRight' /\ NotYetAsked'
<1> SUFFICES ASSUME Typed, DifficultiesRight, NotYetAsked, [Next]_vars
             PROVE  DifficultiesRight' /\ NotYetAsked'
  OBVIOUS
<1>a. \A i \in Imports : SlotRight(import[i]) /\ import[i] \in ImportRecord
  BY DEF Typed, DifficultiesRight, NotYetAsked, SlotRight
<1>b. \A c \in DOMAIN td_cache : td_cache[c] \in {Unknown, Header[c].td}
  BY DEF DifficultiesRight
<1>c. ASSUME NEW i \in Imports, UNCHANGED td_cache,
             \/ Finish(i)
             \/ \E stage \in Stages :
                  /\ Goto(i, stage)
                  /\ import[i].current_td = Unknown \/ stage = "outcome"
      PROVE  DifficultiesRight' /\ NotYetAsked'
  <2>1. CASE Finish(i)
    <3>1. SlotRight(Idle)
      BY IdleTyped DEF SlotRight
    <3> QED
      BY <1>b, <1>c, <2>1, <3>1, SlotStaysRight DEF Finish
  <2>2. ASSUME NEW stage \in Stages, Goto(i, stage),
               import[i].current_td = Unknown \/ stage = "outcome"
        PROVE  DifficultiesRight' /\ NotYetAsked'
    <3> DEFINE m == [import[i] EXCEPT !.at = stage]
    <3>1. SlotRight(m)
      BY <1>a, <2>2 DEF SlotRight, ImportRecord
    <3>2. import' = [import EXCEPT ![i] = m]
      BY <2>2 DEF Goto
    <3> HIDE DEF m
    <3> QED
      BY <1>b, <1>c, <3>1, <3>2, SlotStaysRight
  <2> QED
    BY <1>c, <2>1, <2>2
<1>d. ASSUME NEW i \in Imports, NEW m, SlotRight(m), import' = [import EXCEPT ![i] = m],
             UNCHANGED td_cache
      PROVE  DifficultiesRight' /\ NotYetAsked'
  BY <1>b, <1>d, SlotStaysRight
<1>1. ASSUME NEW i \in Imports, NEW b \in Blocks \ {Genesis}, OnNewBlock(i, b)
      PROVE  DifficultiesRight' /\ NotYetAsked'
  <2>1. SlotRight([Idle EXCEPT !.at = "payload", !.block = b])
    BY DEF Idle, SlotRight
  <2> QED
    BY <1>1, <1>d, <2>1 DEF OnNewBlock
<1>2. ASSUME NEW i \in Imports, NEW b \in Blocks \ {Genesis}, OnNewMinedBlock(i, b)
      PROVE  DifficultiesRight' /\ NotYetAsked'
  <2>1. SlotRight([Idle EXCEPT !.at = "number", !.block = b, !.own = TRUE])
    BY DEF Idle, SlotRight
  <2> QED
    BY <1>2, <1>d, <2>1 DEF OnNewMinedBlock
<1>3. ASSUME NEW i \in Imports, NewPayload(i) \/ SyncTo(i) \/ Choose(i) \/ Outcome(i)
      PROVE  DifficultiesRight' /\ NotYetAsked'
  <2>1. {"number", "sync", "outcome"} \subseteq Stages
    BY DEF Stages
  <2>2. Running(i, "payload") => import[i].current_td = Unknown
    BY DEF NotYetAsked, Running
  <2> QED
    BY <1>3, <1>c, <2>1, <2>2 DEF NewPayload, SyncTo, Choose, Outcome
<1>4. ASSUME NEW i \in Imports, ReadNumber(i) PROVE DifficultiesRight' /\ NotYetAsked'
  <2> DEFINE m == [import[i] EXCEPT !.at = "header", !.number = Header[head].number]
  <2>1. import' = [import EXCEPT ![i] = m]
    BY <1>4 DEF ReadNumber, Typed
  <2>2. import[i].current_td = Unknown
    BY <1>4 DEF ReadNumber, Running, NotYetAsked
  <2>3. SlotRight(m)
    BY <1>a, <2>2 DEF SlotRight, ImportRecord
  <2> HIDE DEF m
  <2> QED
    BY <1>4, <1>b, <2>1, <2>3, SlotStaysRight DEF ReadNumber
<1>5. ASSUME NEW i \in Imports, ReadHeader(i) PROVE DifficultiesRight' /\ NotYetAsked'
  <2>1. import[i].current_td = Unknown /\ "outcome" \in Stages
    BY <1>5 DEF ReadHeader, Running, NotYetAsked, Stages
  <2>2. ASSUME NEW b, import' = [import EXCEPT ![i].at = "td_current", ![i].current = b]
        PROVE  DifficultiesRight' /\ NotYetAsked'
    <3> DEFINE m == [import[i] EXCEPT !.at = "td_current", !.current = b]
    <3>1. import' = [import EXCEPT ![i] = m]
      BY <2>2 DEF Typed
    <3>2. SlotRight(m)
      BY <1>a, <2>1 DEF SlotRight, ImportRecord
    <3> HIDE DEF m
    <3> QED
      BY <1>5, <1>b, <3>1, <3>2, SlotStaysRight DEF ReadHeader
  <2> QED
    BY <1>5, <1>c, <2>1, <2>2 DEF ReadHeader
<1>6. ASSUME NEW i \in Imports, TdCurrent(i) PROVE DifficultiesRight' /\ NotYetAsked'
  <2>1. import[i].current \in Blocks /\ "outcome" \in Stages
    BY <1>a DEF ImportRecord, Stages
  <2>2. ASSUME NEW td, HeaderTd(import[i].current, td),
               import' = [import EXCEPT ![i].at = "td_incoming", ![i].current_td = td]
        PROVE  DifficultiesRight' /\ NotYetAsked'
    <3> DEFINE m == [import[i] EXCEPT !.at = "td_incoming", !.current_td = td]
    <3>1. import' = [import EXCEPT ![i] = m]
      BY <2>2 DEF Typed
    <3>2. /\ td \in {Unknown, Header[import[i].current].td}
          /\ \A c \in DOMAIN td_cache' : td_cache'[c] \in {Unknown, Header[c].td}
      BY <2>1, <2>2, HeaderTdRight
    <3>3. SlotRight(m)
      BY <1>a, <3>2 DEF SlotRight, ImportRecord
    <3> HIDE DEF m
    <3> QED
      BY <3>1, <3>2, <3>3, SlotStaysRight
  <2> QED
    BY <1>6, <1>c, <2>1, <2>2 DEF TdCurrent, HeaderTdFails
<1>7. ASSUME NEW i \in Imports, TdIncoming(i) PROVE DifficultiesRight' /\ NotYetAsked'
  <2> DEFINE b == import[i].block
             parent == Header[b].parent
  <2>1. /\ b \in Blocks \ {Genesis} /\ parent \in Blocks /\ "outcome" \in Stages
        /\ Header[b].td = Header[parent].td + Header[b].difficulty
    BY <1>7, <1>a, HeaderFacts DEF ImportRecord, Stages, Typed, TdIncoming, Running
  <2>2. ASSUME NEW td \in {Unknown, Header[b].td},
               \A c \in DOMAIN td_cache' : td_cache'[c] \in {Unknown, Header[c].td},
               import' = [import EXCEPT ![i].at = "choose", ![i].incoming_td = td]
        PROVE  DifficultiesRight' /\ NotYetAsked'
    <3> DEFINE m == [import[i] EXCEPT !.at = "choose", !.incoming_td = td]
    <3>1. import' = [import EXCEPT ![i] = m]
      BY <2>2 DEF Typed
    <3>2. SlotRight(m)
      BY <1>a, <2>2 DEF SlotRight, ImportRecord
    <3> HIDE DEF m
    <3> QED
      BY <2>2, <3>1, <3>2, SlotStaysRight
  <2> HIDE DEF b, parent
  <2>3. ASSUME NEW td, HeaderTd(parent, td) PROVE FromParent(b, td) \in {Unknown, Header[b].td}
    BY <2>1, <2>3, HeaderTdRight DEF FromParent
  <2>4. CASE \E td \in Tds : /\ HeaderTd(b, td)
                             /\ import' = [import EXCEPT ![i].at = "choose", ![i].incoming_td = td]
    BY <2>1, <2>2, <2>4, HeaderTdRight
  <2>5. CASE \E td \in Tds : /\ HeaderTd(parent, td)
                             /\ import' = [import EXCEPT ![i].at = "choose",
                                                         ![i].incoming_td = FromParent(b, td)]
    BY <2>1, <2>2, <2>3, <2>5, HeaderTdRight
  <2>6. CASE HeaderTdFails(parent) /\ Goto(i, "outcome")
    BY <1>c, <2>1, <2>6 DEF HeaderTdFails
  <2> QED
    BY <1>7, <2>4, <2>5, <2>6 DEF TdIncoming, b, parent
<1>8. ASSUME UNCHANGED <<import, td_cache>> PROVE DifficultiesRight' /\ NotYetAsked'
  BY <1>8 DEF DifficultiesRight, NotYetAsked
<1> QED
  BY <1>1, <1>2, <1>3, <1>4, <1>5, <1>6, <1>7, <1>8
     DEF Next, Step, Wait, vars, EngineInsertsBuilt, EngineSync

----------------------------------------------------------------------------
(* The head that an import has read. *)

\* Every step keeps the imports that were not overtaken in line with the head.
LEMMA ReadersStep == Typed /\ ReadersFresh /\ [Next]_vars => ReadersFresh'
<1> SUFFICES ASSUME Typed, ReadersFresh, [Next]_vars PROVE ReadersFresh'
  OBVIOUS
<1>a. ASSUME NEW i \in Imports, UNCHANGED stale, UNCHANGED head,
             \A j \in Imports : import'[j] = import[j] \/ import'[j].at \notin Read
      PROVE  ReadersFresh'
  BY <1>a DEF ReadersFresh, Read
<1>b. ASSUME NEW b, SetHead(b),
             \A j \in Imports : import'[j] = import[j] \/ import'[j].at \notin Read
      PROVE  ReadersFresh'
  BY <1>b DEF ReadersFresh, Read, SetHead
<1>c. ASSUME NEW i \in Imports, NEW stage \in {"payload", "number", "sync", "outcome"},
             Goto(i, stage)
      PROVE  \A j \in Imports : import'[j] = import[j] \/ import'[j].at \notin Read
  BY <1>c DEF Typed, ImportRecord, Goto, Read
<1>d. ASSUME NEW i \in Imports, Finish(i)
      PROVE  \A j \in Imports : import'[j] = import[j] \/ import'[j].at \notin Read
  BY <1>d, IdleTyped DEF Typed, Finish, Read
<1>1. ASSUME NEW i \in Imports, NEW b \in Blocks \ {Genesis}, OnNewBlock(i, b)
      PROVE  ReadersFresh'
  <2>1. \A j \in Imports : import'[j] = import[j] \/ import'[j].at \notin Read
    BY <1>1 DEF OnNewBlock, Typed, Idle, Read
  <2> QED
    BY <1>1, <1>a, <2>1 DEF OnNewBlock, engine
<1>2. ASSUME NEW i \in Imports, NEW b \in Blocks \ {Genesis}, OnNewMinedBlock(i, b)
      PROVE  ReadersFresh'
  <2>1. \A j \in Imports : import'[j] = import[j] \/ import'[j].at \notin Read
    BY <1>2 DEF OnNewMinedBlock, Typed, Idle, Read
  <2> QED
    BY <1>2, <1>a, <2>1 DEF OnNewMinedBlock, engine, history
<1>3. ASSUME EngineSync PROVE ReadersFresh'
  BY <1>3, <1>b DEF EngineSync
<1>4. ASSUME NEW i \in Imports, NewPayload(i) PROVE ReadersFresh'
  BY <1>4, <1>a, <1>c, <1>d DEF NewPayload, history
<1>5. ASSUME NEW i \in Imports, SyncTo(i) PROVE ReadersFresh'
  BY <1>5, <1>a, <1>b, <1>d DEF SyncTo, ForkChoiceUpdated
<1>6. ASSUME NEW i \in Imports, ReadNumber(i) PROVE ReadersFresh'
  <2>1. /\ import'[i].at = "header" /\ import'[i].number = Header[head].number
        /\ \A j \in Imports \ {i} : import'[j] = import[j]
    BY <1>6 DEF ReadNumber, Typed, ImportRecord
  <2> QED
    BY <1>6, <2>1 DEF ReadNumber, ReadersFresh, Read, engine
<1>7. ASSUME NEW i \in Imports, ReadHeader(i) PROVE ReadersFresh'
  <2>1. ASSUME NEW b \in Chain(head), Header[b].number = import[i].number,
               import' = [import EXCEPT ![i].at = "td_current", ![i].current = b]
        PROVE  ReadersFresh'
    <3>1. /\ import'[i].at = "td_current" /\ import'[i].current = b
          /\ \A j \in Imports \ {i} : import'[j] = import[j]
      BY <2>1 DEF Typed, ImportRecord
    <3>2. i \notin stale => b = head
      BY <1>7, <2>1, ChainFacts DEF ReadHeader, Running, ReadersFresh, Typed, NotAbove
    <3> QED
      BY <1>7, <3>1, <3>2 DEF ReadHeader, ReadersFresh, Read, engine, history
  <2> QED
    BY <1>7, <1>a, <1>c, <2>1 DEF ReadHeader, engine, history
<1>8. ASSUME NEW i \in Imports, TdCurrent(i) \/ TdIncoming(i) PROVE ReadersFresh'
  <2>1. UNCHANGED <<head, stale>>
    BY <1>8 DEF TdCurrent, TdIncoming, engine, history
  <2>2. CASE Goto(i, "outcome")
    BY <1>a, <1>c, <2>1, <2>2
  <2>3. CASE ~Goto(i, "outcome")
    <3>1. /\ import'[i].at \in {"td_incoming", "choose"} /\ import'[i].current = import[i].current
          /\ \A j \in Imports \ {i} : import'[j] = import[j]
      <4>1. CASE TdCurrent(i)
        BY <4>1, <2>3 DEF TdCurrent, Typed, ImportRecord
      <4>2. CASE TdIncoming(i)
        BY <4>2, <2>3 DEF TdIncoming, Typed, ImportRecord
      <4> QED
        BY <1>8, <4>1, <4>2
    <3>2. import[i].at \in {"td_current", "td_incoming"}
      BY <1>8 DEF TdCurrent, TdIncoming, Running
    <3> QED
      BY <2>1, <3>1, <3>2 DEF ReadersFresh, Read
  <2> QED
    BY <2>2, <2>3
<1>9. ASSUME NEW i \in Imports, Choose(i) PROVE ReadersFresh'
  <2>1. UNCHANGED <<head, stale>> \/ \E b : SetHead(b)
    BY <1>9 DEF Choose, ForkChoiceUpdated
  <2> QED
    BY <1>9, <1>a, <1>b, <1>c, <2>1 DEF Choose
<1>10. ASSUME NEW i \in Imports, Outcome(i) PROVE ReadersFresh'
  BY <1>10, <1>a, <1>d DEF Outcome, engine, history
<1>11. ASSUME UNCHANGED <<import, head, stale>> PROVE ReadersFresh'
  BY <1>11 DEF ReadersFresh
<1> QED
  BY <1>1, <1>2, <1>3, <1>4, <1>5, <1>6, <1>7, <1>8, <1>9, <1>10, <1>11
     DEF Next, Step, Wait, vars, EngineInsertsBuilt, history

----------------------------------------------------------------------------
(* The rule, and the head it chooses. *)

\* Prefers orders the blocks: what is not preferred to a block is not preferred to
\* one that is no worse.
LEMMA PreferenceOrder ==
  ASSUME NEW b \in Blocks, NEW c \in Blocks, NEW d \in Blocks, ~Prefers(b, c), ~Prefers(c, d)
  PROVE  ~Prefers(b, d)
<1>1. \A x \in {b, c, d} : JustifiedOf(x) \in Nat /\ Header[x].td \in Nat
  BY HeaderFacts
<1> QED
  BY <1>1, PrefersIs

\* is_need_reorg, with every snapshot found and the difficulties right: its answer
\* is in favour of a block that the rule does not like less.
LEMMA RuleFollowsPreference ==
  ASSUME NEW m \in ImportRecord, SlotRight(m), NEW reorg \in NeedReorg(m, {})
  PROVE  /\ reorg \in BOOLEAN
         /\ reorg => ~Prefers(m.current, m.block)
         /\ ~reorg => ~Prefers(m.block, m.current)
<1> DEFINE jb == JustifiedOf(m.block)
           jc == JustifiedOf(m.current)
           B == ForForkchoice(m.block, m.incoming_td, jb)
           C == ForForkchoice(m.current, m.current_td, jc)
<1>0. m.block \in Blocks /\ m.current \in Blocks
  BY DEF ImportRecord
<1>1. NeedReorg(m, {}) = IsNeedReorg(B, C)
  <2>1. JustifiedNum(m.block, m.block \notin {}) = jb /\ JustifiedNum(m.current, m.current \notin {}) = jc
    <3>1. (m.block \notin {}) = TRUE /\ (m.current \notin {}) = TRUE
      OBVIOUS
    <3> QED
      BY <1>0, <3>1, JustifiedNumIs
  <2> QED
    BY <2>1 DEF NeedReorg
<1>2. /\ jb \in Nat /\ jc \in Nat /\ Header[m.block].td \in Nat /\ Header[m.current].td \in Nat
      /\ Header[m.block].number \in Nat /\ Header[m.current].number \in Nat
      /\ Header[m.block].number < PlatoBlock => jb = 0
      /\ Header[m.current].number < PlatoBlock => jc = 0
  BY <1>0, HeaderFacts
<1>3. /\ B.block = m.block /\ B.td = m.incoming_td /\ B.justified_num = jb
      /\ C.block = m.current /\ C.td = m.current_td /\ C.justified_num = jc
  BY DEF ForForkchoice
<1> HIDE DEF B, C, jb, jc
<1>4. CASE FastFinalityDecides(B, C)
  <2>1. reorg = (jb > jc) /\ jb # jc
    BY <1>1, <1>3, <1>4 DEF IsNeedReorg, FastFinalityDecides
  <2>2. /\ jb > jc => ~Prefers(m.current, m.block)
        /\ ~(jb > jc) => ~Prefers(m.block, m.current)
    BY <1>0, <1>2, <2>1, PrefersIs DEF jb, jc
  <2>3. CASE jb > jc
    <3>1. reorg = TRUE
      BY <2>1, <2>3
    <3> QED
      BY <2>2, <2>3, <3>1
  <2>4. CASE ~(jb > jc)
    <3>1. reorg = FALSE
      <4>1. (jb > jc) = FALSE
        BY <2>4
      <4> QED
        BY <2>1, <4>1, Zenon
    <3> QED
      BY <2>2, <2>4, <3>1
  <2> QED
    BY <2>3, <2>4
<1>5. CASE ~FastFinalityDecides(B, C)
  <2>1. jb = jc
    BY <1>2, <1>3, <1>5, TreeConstants DEF FastFinalityDecides
  <2>2. reorg \in HeadChoiceWithTd(B, C)
    BY <1>1, <1>5 DEF IsNeedReorg
  <2>3. /\ Unknown \notin {m.incoming_td, m.current_td}
        /\ m.incoming_td # m.current_td => reorg = (m.incoming_td > m.current_td)
    BY <1>3, <2>2 DEF HeadChoiceWithTd
  <2>4. m.incoming_td = Header[m.block].td /\ m.current_td = Header[m.current].td
    BY <2>3 DEF SlotRight
  <2>5. reorg \in BOOLEAN
    <3>1. \/ \E x, y : HeadChoiceWithTd(B, C) \in {{x < y}, {x > y}}
          \/ HeadChoiceWithTd(B, C) \in {{}, BOOLEAN}
      BY Zenon DEF HeadChoiceWithTd, TieBreak
    <3>2. \A x, y : (x < y) \in BOOLEAN /\ (x > y) \in BOOLEAN
      OBVIOUS
    <3>3. ASSUME NEW x, NEW y, HeadChoiceWithTd(B, C) \in {{x < y}, {x > y}} PROVE reorg \in BOOLEAN
      <4>1. reorg = (x < y) \/ reorg = (x > y)
        BY <2>2, <3>3, Zenon
      <4> QED
        BY <3>2, <4>1, Zenon
    <3>4. ASSUME HeadChoiceWithTd(B, C) \in {{}, BOOLEAN} PROVE reorg \in BOOLEAN
      <4>1. HeadChoiceWithTd(B, C) = {} \/ HeadChoiceWithTd(B, C) = BOOLEAN
        BY <3>4
      <4> QED
        BY <2>2, <4>1, Zenon
    <3>5. CASE \E x, y : HeadChoiceWithTd(B, C) \in {{x < y}, {x > y}}
      BY <3>3, <3>5
    <3> QED
      BY <3>1, <3>4, <3>5
  <2> QED
    BY <1>0, <1>2, <2>1, <2>3, <2>4, <2>5, PrefersIs DEF jb, jc
<1> QED
  BY <1>4, <1>5

\* A block of the head's chain is not preferred to the head.
LEMMA ChainNotPreferred ==
  ASSUME NEW h \in Blocks, NEW c \in Chain(h)
  PROVE  c \in Blocks /\ ~Prefers(c, h)
<1>1. NotAbove(c, h)
  BY ChainFacts
<1> QED
  BY <1>1, PrefersIs, HeaderFacts DEF NotAbove

\* What one step does to the head as long as the history is sound: update_forkchoice
\* of one import leaves it or moves it to a block that is no worse, and the block it
\* settles is not better than the head.
CleanStep ==
  /\ ~unsound
  /\ head' \in Blocks /\ ~Prefers(head, head')
  /\ \A b \in settled' \ settled : b \in Blocks /\ ~Prefers(b, head')

\* Every step that leaves the history sound is such a step.
LEMMA CleanStepLemma ==
  Typed /\ DifficultiesRight /\ NotYetAsked /\ ReadersFresh /\ [Next]_vars /\ ~unsound' => CleanStep
<1> SUFFICES ASSUME Typed, DifficultiesRight, NotYetAsked, ReadersFresh, [Next]_vars, ~unsound'
             PROVE  CleanStep
  OBVIOUS
<1>a. head \in Blocks /\ ~Prefers(head, head)
  <2>1. head \in Blocks
    BY DEF Typed
  <2> QED
    BY <2>1, ChainFacts, ChainNotPreferred
<1>b. ASSUME UNCHANGED <<unsound, head, settled>> PROVE CleanStep
  BY <1>a, <1>b DEF CleanStep
<1>1. ASSUME NEW i \in Imports, SyncTo(i) PROVE CleanStep
  <2>1. UNCHANGED settled
    BY <1>1 DEF SyncTo
  <2>2. CASE unsound' = (unsound \/ head' # head)
    <3>1. ~unsound /\ head' = head
      BY <2>2
    <3> QED
      BY <1>a, <2>1, <3>1 DEF CleanStep
  <2> QED
    BY <1>1, <1>b, <2>1, <2>2 DEF SyncTo
<1>2. ASSUME NEW i \in Imports, Choose(i) PROVE CleanStep
  <2> DEFINE m == import[i]
  <2>1. m \in ImportRecord /\ SlotRight(m) /\ m.block \in Blocks /\ m.current \in Blocks
    BY DEF Typed, ImportRecord, SlotRight, DifficultiesRight, NotYetAsked
  <2>2. m.at = "choose"
    BY <1>2 DEF Choose, Running
  <2> HIDE DEF m
  <2>3. ASSUME NEW reorg \in NeedReorg(m, {}),
               ForkChoiceUpdated(IF reorg THEN m.block ELSE m.current),
               unsound' = (unsound \/ (head' # head /\ i \in stale) \/ {} # {}),
               settled' = IF target' = NoBlock THEN settled \cup {m.block} ELSE settled
        PROVE  CleanStep
    <3> DEFINE x == IF reorg THEN m.block ELSE m.current
    <3>1. /\ reorg \in BOOLEAN
          /\ reorg => ~Prefers(m.current, m.block)
          /\ ~reorg => ~Prefers(m.block, m.current)
      BY <2>1, RuleFollowsPreference
    <3>2. x \in Blocks /\ head' = (IF x \in known /\ x \notin Chain(head) THEN x ELSE head)
      BY <2>1, <2>3, UpdateTyped
    <3>3. target' = NoBlock => x \in known
      BY <2>3, <3>2, ImportConstants DEF ForkChoiceUpdated
    <3>4. ~unsound /\ (head' # head => i \notin stale)
      BY <2>3
    <3>5. settled' \ settled \subseteq {m.block} /\ (settled' \ settled # {} => x \in known)
      BY <2>3, <3>3
    <3>6. CASE head' = head
      <4>1. ASSUME x \in known PROVE ~Prefers(m.block, head)
        <5>1. x \in Chain(head)
          BY <3>2, <3>6, <4>1, <1>a, ChainFacts
        <5>2. ~Prefers(x, head)
          BY <1>a, <5>1, ChainNotPreferred
        <5>3. CASE reorg
          BY <5>2, <5>3
        <5>4. CASE ~reorg
          <6>1. x = m.current
            BY <5>4
          <6> QED
            BY <1>a, <2>1, <3>1, <5>2, <5>4, <6>1, PreferenceOrder
        <5> QED
          BY <3>1, <5>3, <5>4
      <4> QED
        BY <1>a, <2>1, <3>4, <3>5, <3>6, <4>1 DEF CleanStep
    <3>7. CASE head' # head
      <4>1. m.current = head
        BY <2>2, <3>4, <3>7 DEF ReadersFresh, Read, m
      <4>2. reorg /\ x = m.block /\ head' = m.block
        BY <1>a, <3>1, <3>2, <3>7, <4>1, ChainFacts
      <4>3. ~Prefers(head, head')
        BY <3>1, <4>1, <4>2
      <4>4. ~Prefers(m.block, m.block)
        BY <2>1, ChainFacts, ChainNotPreferred
      <4> QED
        BY <2>1, <3>4, <3>5, <4>2, <4>3, <4>4 DEF CleanStep
    <3> QED
      BY <3>6, <3>7
  <2>4. ASSUME NEW missing, missing # {},
               unsound' = (unsound \/ (head' # head /\ i \in stale) \/ missing # {})
        PROVE  FALSE
    BY <2>4
  <2>5. CASE UNCHANGED <<head, target, stale, unsound, settled>>
    BY <1>b, <2>5
  <2> QED
    BY <1>2, <2>3, <2>4, <2>5 DEF Choose, m
<1>3. ASSUME EngineSync PROVE FALSE
  BY <1>3 DEF EngineSync
<1>4. ASSUME NEW i \in Imports,
             NewPayload(i) \/ ReadNumber(i) \/ ReadHeader(i) \/ TdCurrent(i) \/ TdIncoming(i) \/ Outcome(i)
      PROVE  CleanStep
  BY <1>4, <1>b DEF NewPayload, ReadNumber, ReadHeader, TdCurrent, TdIncoming, Outcome, engine, history
<1>5. ASSUME NEW i \in Imports, NEW b \in Blocks, OnNewBlock(i, b) \/ OnNewMinedBlock(i, b)
      PROVE  CleanStep
  BY <1>5, <1>b DEF OnNewBlock, OnNewMinedBlock, engine, history
<1>6. ASSUME NEW b \in Mined, EngineInsertsBuilt(b) PROVE CleanStep
  BY <1>6, <1>b DEF EngineInsertsBuilt, history
<1>7. ASSUME UNCHANGED vars PROVE CleanStep
  BY <1>7, <1>b DEF vars
<1> QED
  BY <1>1, <1>2, <1>3, <1>4, <1>5, <1>6, <1>7 DEF Next, Step, Wait

\* Every step keeps the inductive invariant.
LEMMA ChoiceStep == Typed /\ ChoiceInv /\ [Next]_vars => ChoiceInv'
<1> SUFFICES ASSUME Typed, ChoiceInv, [Next]_vars PROVE ChoiceInv'
  OBVIOUS
<1>1. DifficultiesRight' /\ NotYetAsked' /\ ReadersFresh'
  BY DifficultiesStep, ReadersStep DEF ChoiceInv
<1>2. ASSUME ~unsound', NEW b \in settled' PROVE ~Prefers(b, head')
  <2>1. CleanStep
    BY <1>2, CleanStepLemma DEF ChoiceInv
  <2>2. CASE b \in settled
    <3>1. ~Prefers(b, head) /\ ~Prefers(head, head') /\ b \in Blocks /\ head \in Blocks /\ head' \in Blocks
      BY <2>1, <2>2 DEF CleanStep, ChoiceInv, BestBlockWins, Typed
    <3> QED
      BY <3>1, PreferenceOrder
  <2>3. CASE b \notin settled
    BY <1>2, <2>1, <2>3 DEF CleanStep
  <2> QED
    BY <2>2, <2>3
<1> QED
  BY <1>1, <1>2 DEF ChoiceInv, BestBlockWins

\* The inductive invariant holds of every behaviour of the import service.
THEOREM ChoiceInvariant == Spec => [](Typed /\ ChoiceInv)
<1>1. Init => ChoiceInv
  <2> SUFFICES ASSUME Init PROVE ChoiceInv
    OBVIOUS
  <2>1. \A i \in Imports : /\ import[i].at = "idle" /\ import[i].current_td = Unknown
                           /\ import[i].incoming_td = Unknown
    BY IdleTyped DEF Init
  <2>2. td_cache = <<>> /\ settled = {}
    BY DEF Init
  <2>3. DOMAIN <<>> = {}
    <3>1. <<>> \in Seq(Int) /\ Len(<<>>) = 0
      BY EmptySeq
    <3> QED
      BY <3>1, LenProperties
  <2> QED
    BY <2>1, <2>2, <2>3 DEF ChoiceInv, DifficultiesRight, NotYetAsked, ReadersFresh, Read, BestBlockWins
<1> QED
  BY <1>1, ChoiceStep, TypeCorrect, PTL DEF Spec

\* header_td: a difficulty that is cached, or that an import compares, is the block's own
\* or unknown, whichever queries fail and whatever the other imports do.
THEOREM DifficultiesAreRight == Spec => []DifficultiesRight
<1>1. Typed /\ ChoiceInv => DifficultiesRight
  BY DEF ChoiceInv
<1> QED
  BY <1>1, ChoiceInvariant, PTL

\* update_forkchoice: on a sound history no block it has settled is better than the head.
THEOREM BestBlockIsHead == Spec => []BestBlockWins
<1>1. Typed /\ ChoiceInv => BestBlockWins
  BY DEF ChoiceInv
<1> QED
  BY <1>1, ChoiceInvariant, PTL

\* On a sound history the head is never replaced by a block that the rule likes less.
THEOREM HeadNeverWorse == Spec => CleanHeadNeverWorse
<1>1. Typed /\ ChoiceInv /\ [Next]_vars => [~unsound' => ~Prefers(head, head')]_vars
  BY CleanStepLemma DEF ChoiceInv, CleanStep
<1> QED
  BY <1>1, ChoiceInvariant, PTL DEF Spec, CleanHeadNeverWorse

\* On a sound history a block that the head's snapshot finalizes stays in the head's chain,
\* if fewer than a third of the voters are dishonest (AccountableSafety).
THEOREM FinalizedNeverLeaves == Spec => FinalizedStays
<1>1. Typed /\ ChoiceInv /\ [Next]_vars => [~unsound' => Header[head].finalized \in Chain(head')]_vars
  <2> SUFFICES ASSUME Typed, ChoiceInv, [Next]_vars, ~unsound'
               PROVE  Header[head].finalized \in Chain(head')
    OBVIOUS
  <2>1. head \in Blocks /\ head' \in Blocks /\ ~Prefers(head, head')
    BY CleanStepLemma DEF ChoiceInv, CleanStep, Typed
  <2>2. JustifiedOf(head') >= JustifiedOf(head)
    BY <2>1, PrefersIs, HeaderFacts
  <2> QED
    BY <2>1, <2>2, AccountableSafety DEF JustifiedOf
<1> QED
  BY <1>1, ChoiceInvariant, PTL DEF Spec, FinalizedStays

----------------------------------------------------------------------------
(* A block is imported once. *)

RoomForAll == Cardinality(Blocks) <= LRU_PROCESSED_BLOCKS_SIZE

\* With room for every block, the caches hold what was submitted and what was built.
CachesHoldAll ==
  RoomForAll =>
    /\ NoRepeats(processed) /\ NoRepeats(queued)
    /\ mined \subseteq ToSet(processed)
    /\ \A b \in Blocks : /\ submitted[b] > 0 => b \in ToSet(queued)
                         /\ submitted[b] <= 1
                         /\ b \in Mined => submitted[b] = 0

\* Every step keeps it.
LEMMA CachesStep == Typed /\ CachesHoldAll /\ [Next]_vars => CachesHoldAll'
<1> SUFFICES ASSUME Typed, CachesHoldAll, [Next]_vars, RoomForAll
             PROVE  /\ NoRepeats(processed') /\ NoRepeats(queued')
                    /\ mined' \subseteq ToSet(processed')
                    /\ \A b \in Blocks : /\ submitted'[b] > 0 => b \in ToSet(queued')
                                         /\ submitted'[b] <= 1
                                         /\ b \in Mined => submitted'[b] = 0
  BY DEF CachesHoldAll
<1> DEFINE Goal == /\ NoRepeats(processed') /\ NoRepeats(queued')
                   /\ mined' \subseteq ToSet(processed')
                   /\ \A b \in Blocks : /\ submitted'[b] > 0 => b \in ToSet(queued')
                                        /\ submitted'[b] <= 1
                                        /\ b \in Mined => submitted'[b] = 0
<1>a. \A s \in Seq(Blocks), b \in Blocks :
        NoRepeats(s) => NoRepeats(Touch(s, b)) /\ ToSet(Touch(s, b)) = ToSet(s) \cup {b}
  BY TouchFacts DEF RoomForAll
<1>b. /\ processed \in Seq(Blocks) /\ queued \in Seq(Blocks) /\ submitted \in [Blocks -> Nat]
      /\ NoRepeats(processed) /\ NoRepeats(queued) /\ mined \subseteq ToSet(processed)
      /\ \A b \in Blocks : /\ submitted[b] > 0 => b \in ToSet(queued)
                           /\ submitted[b] <= 1
                           /\ b \in Mined => submitted[b] = 0
  BY DEF Typed, CachesHoldAll
<1>1. ASSUME NEW i \in Imports, NEW b \in Blocks, OnNewBlock(i, b) PROVE Goal
  <2>1. b \notin Mined /\ submitted[b] = 0
    BY <1>1, <1>b DEF OnNewBlock, NotSeen
  <2>2. NoRepeats(queued') /\ ToSet(queued') = ToSet(queued) \cup {b} /\ UNCHANGED <<processed, mined>>
    BY <1>1, <1>a, <1>b DEF OnNewBlock
  <2>3. submitted' = [submitted EXCEPT ![b] = @ + 1]
    BY <1>1 DEF OnNewBlock
  <2> QED
    BY <1>b, <2>1, <2>2, <2>3
<1>2. ASSUME NEW i \in Imports, NEW b \in Blocks, OnNewMinedBlock(i, b) PROVE Goal
  <2>1. NoRepeats(processed') /\ ToSet(processed') = ToSet(processed) \cup {b}
    BY <1>2, <1>a, <1>b DEF OnNewMinedBlock
  <2>2. mined' = mined \cup {b} /\ UNCHANGED <<queued, submitted>>
    BY <1>2 DEF OnNewMinedBlock, history
  <2> QED
    BY <1>b, <2>1, <2>2
<1>3. ASSUME NEW i \in Imports, Outcome(i) PROVE Goal
  <2>0. import[i].block \in Blocks
    BY DEF Typed, ImportRecord
  <2>1. NoRepeats(processed') /\ ToSet(processed) \subseteq ToSet(processed')
    BY <1>3, <1>a, <1>b, <2>0 DEF Outcome
  <2>2. UNCHANGED <<queued, submitted, mined>>
    BY <1>3 DEF Outcome, history
  <2> QED
    BY <1>b, <2>1, <2>2
<1>4. ASSUME UNCHANGED <<processed, queued, mined, submitted>> PROVE Goal
  BY <1>b, <1>4
<1> HIDE DEF Goal
<1>5. Goal
  BY <1>1, <1>2, <1>3, <1>4
     DEF Next, Step, Wait, vars, caches, history, engine, EngineInsertsBuilt, EngineSync, NewPayload,
         SyncTo, ReadNumber, ReadHeader, TdCurrent, TdIncoming, Choose
<1> QED
  BY <1>5 DEF Goal

\* The service sends a block to the engine at most once, and one that it built not at all,
\* however the deliveries and the imports interleave, if its caches hold every block.
THEOREM BlocksImportedOnce == Spec => []ImportedOnce
<1>1. Init => CachesHoldAll
  <2> SUFFICES ASSUME Init PROVE CachesHoldAll
    OBVIOUS
  <2>1. NoRepeats(<<>>)
    BY EmptySeq DEF NoRepeats
  <2> QED
    BY <2>1 DEF Init, CachesHoldAll
<1>2. Typed /\ CachesHoldAll => ImportedOnce
  <2> SUFFICES ASSUME Typed, CachesHoldAll, RoomForAll, NEW b \in Blocks
               PROVE  submitted[b] + Cardinality({b} \cap mined) <= 1
    BY DEF ImportedOnce, RoomForAll
  <2>1. CASE b \in mined
    <3>1. {b} \cap mined = {b} /\ submitted[b] = 0
      BY <2>1 DEF Typed, CachesHoldAll
    <3> QED
      BY <3>1, FS_Singleton
  <2>2. CASE b \notin mined
    <3>1. {b} \cap mined = {} /\ submitted[b] <= 1 /\ submitted[b] \in Nat
      BY <2>2 DEF Typed, CachesHoldAll
    <3>2. Cardinality({}) = 0
      BY FS_EmptySet
    <3> QED
      BY <3>1, <3>2
  <2> QED
    BY <2>1, <2>2
<1> QED
  BY <1>1, <1>2, CachesStep, TypeCorrect, PTL DEF Spec
============================================================================
