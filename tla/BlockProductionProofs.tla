----------------------- MODULE BlockProductionProofs -----------------------
(***************************************************************************)
(* What is proved of the nodes that build and execute blocks, for every    *)
(* pool of transactions, every set of voters, every schedule of forks and  *)
(* any height.                                                             *)
(***************************************************************************)
EXTENDS BlockProduction, SequenceFacts

----------------------------------------------------------------------------
(* Sequences of anything. *)

IsSequence(s) == \E S : s \in Seq(S)

LEMMA SequenceAppend ==
  ASSUME NEW s, IsSequence(s), NEW x
  PROVE  /\ IsSequence(Append(s, x)) /\ Len(s) \in Nat /\ Len(Append(s, x)) = Len(s) + 1
         /\ Append(s, x) # <<>> /\ Last(Append(s, x)) = x
         /\ \A i \in 1..Len(s) : Append(s, x)[i] = s[i]
<1>1. PICK S : s \in Seq(S)
  BY DEF IsSequence
<1>2. s \in Seq(S \cup {x})
  BY <1>1
<1>3. Append(s, x) \in Seq(S \cup {x})
  BY <1>2
<1> QED
  BY <1>2, <1>3 DEF IsSequence, Last

LEMMA SequenceEmpty == IsSequence(<<>>)
BY EmptySeq DEF IsSequence

----------------------------------------------------------------------------
(* Executors. *)

JobFields ==
  {"is_miner", "number", "beneficiary", "day", "parent", "env", "chain", "snaps", "snap"}

WorkFields ==
  {"world", "gas_used", "receipts", "txs", "system_txs", "assembled_system_txs",
   "current_validators", "election_info", "shared_validators", "shared_turn", "block", "err"}

CacheFields == {"validator_cache", "turn_length_cache"}

WorldFields ==
  {"nonce", "delegate", "system", "system_reward", "deposits", "paid", "validators", "turn",
   "power", "observed", "slashes", "weights", "initialized", "code", "history_storage"}

IsWorld(w) == WorldFields \subseteq DOMAIN w

IsExecutor(ex) == JobFields \cup WorkFields \cup CacheFields \subseteq DOMAIN ex /\ IsWorld(ex.world)

\* The same block on the same chain.
SameJob(a, b) == \A f \in JobFields : a[f] = b[f]

SameCaches(a, b) == \A f \in CacheFields : a[f] = b[f]

SameCode(v, w) == v.code = w.code /\ v.history_storage = w.history_storage

\* What every step between the upgrades leaves as it is.
Frame(a, b) ==
  /\ IsExecutor(b) /\ SameJob(a, b) /\ SameCode(a.world, b.world) /\ SameCaches(a, b)
  /\ IsSequence(a.txs) => IsSequence(b.txs)
  /\ a.shared_validators = b.shared_validators /\ a.shared_turn = b.shared_turn

LEMMA FrameTransitive ==
  ASSUME NEW a, NEW b, NEW c, Frame(a, b), Frame(b, c)
  PROVE  Frame(a, c)
BY DEF Frame, SameJob, SameCode, SameCaches

LEMMA EffectFrame ==
  ASSUME NEW w, NEW tx, IsWorld(w)
  PROVE  IsWorld(Effect(w, tx)) /\ SameCode(w, Effect(w, tx))
BY DEF IsWorld, WorldFields, SameCode, Effect

LEMMA SystemTxFrame ==
  ASSUME NEW ex, IsExecutor(ex), NEW tx
  PROVE  Frame(ex, transact_system_tx(ex, tx))
<1> DEFINE sender == ex.beneficiary
           t == set_nonce(tx, ex.world.nonce[sender])
           w == [ex.world EXCEPT !.nonce[sender] = @ + 1]
           g == SystemGas[t.call]
           done == [ex EXCEPT !.world = Effect(w, t), !.gas_used = @ + g, !.receipts = Append(@, g)]
<1>1. IsWorld(w) /\ SameCode(ex.world, w)
  BY DEF IsExecutor, IsWorld, WorldFields, SameCode
<1>2. IsWorld(Effect(w, t)) /\ SameCode(ex.world, Effect(w, t))
  BY <1>1, EffectFrame DEF SameCode
<1>3. \/ transact_system_tx(ex, tx) = ex
      \/ transact_system_tx(ex, tx) = [done EXCEPT !.assembled_system_txs = Append(@, t)]
      \/ transact_system_tx(ex, tx) = [done EXCEPT !.system_txs = Tail(@)]
      \/ transact_system_tx(ex, tx) = [ex EXCEPT !.err = "UnexpectedSystemTx"]
  <2> DEFINE miner == [done EXCEPT !.assembled_system_txs = Append(@, t)]
             next == [done EXCEPT !.system_txs = Tail(@)]
             wrong == [ex EXCEPT !.err = "UnexpectedSystemTx"]
  <2>1. transact_system_tx(ex, tx)
          = IF ~Ok(ex) THEN ex
            ELSE IF ex.is_miner THEN miner
            ELSE IF ex.system_txs # <<>> /\ Head(ex.system_txs) = t THEN next
            ELSE IF MayBeMissing(ex, t) THEN ex
            ELSE wrong
    BY DEF transact_system_tx, Fail
  <2> HIDE DEF miner, next, wrong, t
  <2>2. \/ transact_system_tx(ex, tx) = ex \/ transact_system_tx(ex, tx) = miner
        \/ transact_system_tx(ex, tx) = next \/ transact_system_tx(ex, tx) = wrong
    BY <2>1
  <2> QED
    BY <2>2 DEF miner, next, wrong
<1> HIDE DEF w, t, g
<1>4. Frame(ex, done)
  BY <1>2 DEF Frame, IsExecutor, SameJob, SameCaches, JobFields, WorkFields, CacheFields
<1> HIDE DEF done
<1>5. Frame(ex, ex)
  BY DEF Frame, SameJob, SameCaches, SameCode
<1>6. ASSUME NEW x, Frame(ex, x), NEW u
      PROVE  /\ Frame(ex, [x EXCEPT !.assembled_system_txs = u])
             /\ Frame(ex, [x EXCEPT !.system_txs = u])
             /\ Frame(ex, [x EXCEPT !.err = u])
  BY <1>6 DEF Frame, IsExecutor, SameJob, SameCaches, JobFields, WorkFields, CacheFields
<1>7. /\ Frame(ex, [done EXCEPT !.assembled_system_txs = Append(@, t)])
      /\ Frame(ex, [done EXCEPT !.system_txs = Tail(@)])
      /\ Frame(ex, [ex EXCEPT !.err = "UnexpectedSystemTx"])
  BY <1>4, <1>5, <1>6
<1> QED
  BY <1>3, <1>5, <1>7, Zenon

----------------------------------------------------------------------------
(* A step for each of several transactions. *)

\* The three kinds of steps.
StepOf(kind, ex, tx) ==
  IF kind = "system" THEN transact_system_tx(ex, tx)
  ELSE IF kind = "checked" THEN execute_checked_transaction(ex, tx)
  ELSE Pack(ex, tx)

IsRunOf(f, kind, ex, txs, n) ==
  f = [i \in 0..n |-> IF i = 0 THEN ex ELSE StepOf(kind, f[i - 1], txs[i])]

LEMMA RunOfExists ==
  ASSUME NEW kind, NEW ex, NEW txs, NEW n \in Nat
  PROVE  \E f : IsRunOf(f, kind, ex, txs, n)
<1> DEFINE G == {k \in 0..n : \E f : IsRunOf(f, kind, ex, txs, k)}
<1>1. 0 \in G
  <2>1. IsRunOf([i \in 0..0 |-> ex], kind, ex, txs, 0)
    BY DEF IsRunOf
  <2> QED
    BY <2>1
<1>2. ASSUME NEW k \in 1..n, k - 1 \in G PROVE k \in G
  <2>1. PICK f : IsRunOf(f, kind, ex, txs, k - 1)
    BY <1>2
  <2> DEFINE h == [i \in 0..k |-> IF i = k THEN StepOf(kind, f[k - 1], txs[k]) ELSE f[i]]
  <2>2. \A i \in 0..(k - 1) : f[i] = IF i = 0 THEN ex ELSE StepOf(kind, f[i - 1], txs[i])
    BY <2>1 DEF IsRunOf
  <2>3. ASSUME NEW i \in 0..k PROVE h[i] = IF i = 0 THEN ex ELSE StepOf(kind, h[i - 1], txs[i])
    <3>1. CASE i = 0
      BY <2>2, <3>1
    <3>2. CASE i \in 1..(k - 1)
      <4>1. h[i] = f[i] /\ h[i - 1] = f[i - 1] /\ f[i] = StepOf(kind, f[i - 1], txs[i])
        BY <2>2, <3>2
      <4> QED
        BY <3>2, <4>1
    <3>3. CASE i = k
      <4>1. h[k] = StepOf(kind, f[k - 1], txs[k]) /\ h[k - 1] = f[k - 1]
        OBVIOUS
      <4> QED
        BY <3>3, <4>1
    <3> QED
      BY <3>1, <3>2, <3>3
  <2>4. h = [i \in 0..k |-> h[i]]
    OBVIOUS
  <2> HIDE DEF h
  <2>5. IsRunOf(h, kind, ex, txs, k)
    BY <2>3, <2>4 DEF IsRunOf
  <2> QED
    BY <2>5
<1> HIDE DEF G
<1>3. \A k \in 0..n : k \in G
  BY <1>1, <1>2, CountUp
<1>4. n \in G
  BY <1>3
<1> QED
  BY <1>4 DEF G

\* The executors one after the other.
IsTrail(r, kind, ex, txs) ==
  r[0] = ex /\ \A i \in 1..Len(txs) : r[i] = StepOf(kind, r[i - 1], txs[i])

LEMMA RunAllTrail ==
  ASSUME NEW ex, NEW txs, Len(txs) \in Nat
  PROVE  /\ \E r : /\ IsTrail(r, "system", ex, txs)
                   /\ transact_system_txs(ex, txs) = r[Len(txs)]
         /\ \E r : /\ IsTrail(r, "checked", ex, txs)
                   /\ RunAll(execute_checked_transaction, ex, txs) = r[Len(txs)]
         /\ \E r : /\ IsTrail(r, "pack", ex, txs)
                   /\ RunAll(Pack, ex, txs) = r[Len(txs)]
<1> DEFINE n == Len(txs)
<1>1. ASSUME NEW kind, NEW f, IsRunOf(f, kind, ex, txs, n) PROVE IsTrail(f, kind, ex, txs)
  <2>1. \A i \in 0..n : f[i] = IF i = 0 THEN ex ELSE StepOf(kind, f[i - 1], txs[i])
    BY <1>1, Zenon DEF IsRunOf
  <2> QED
    BY <2>1 DEF IsTrail
<1>2. \E r : /\ IsTrail(r, "system", ex, txs)
             /\ transact_system_txs(ex, txs) = r[Len(txs)]
  <2> DEFINE P(f) == f = [i \in 0..n |-> IF i = 0 THEN ex ELSE transact_system_tx(f[i - 1], txs[i])]
             r == CHOOSE f : P(f)
  <2>1. \A f : IsRunOf(f, "system", ex, txs, n) <=> P(f)
    BY DEF IsRunOf, StepOf
  <2>2. PICK f : IsRunOf(f, "system", ex, txs, n)
    BY RunOfExists
  <2>3. P(r)
    BY <2>1, <2>2, Zenon
  <2>4. transact_system_txs(ex, txs) = r[n]
    BY DEF transact_system_txs, RunAll
  <2> HIDE DEF r, P
  <2>5. IsTrail(r, "system", ex, txs)
    BY <1>1, <2>1, <2>3
  <2> QED
    BY <2>4, <2>5
<1>3. \E r : /\ IsTrail(r, "checked", ex, txs)
             /\ RunAll(execute_checked_transaction, ex, txs) = r[Len(txs)]
  <2> DEFINE P(f) == f = [i \in 0..n |-> IF i = 0 THEN ex ELSE execute_checked_transaction(f[i - 1], txs[i])]
             r == CHOOSE f : P(f)
  <2>1. \A f : IsRunOf(f, "checked", ex, txs, n) <=> P(f)
    BY DEF IsRunOf, StepOf
  <2>2. PICK f : IsRunOf(f, "checked", ex, txs, n)
    BY RunOfExists
  <2>3. P(r)
    BY <2>1, <2>2, Zenon
  <2>4. RunAll(execute_checked_transaction, ex, txs) = r[n]
    BY DEF RunAll
  <2> HIDE DEF r, P
  <2>5. IsTrail(r, "checked", ex, txs)
    BY <1>1, <2>1, <2>3
  <2> QED
    BY <2>4, <2>5
<1>4. \E r : /\ IsTrail(r, "pack", ex, txs)
             /\ RunAll(Pack, ex, txs) = r[Len(txs)]
  <2> DEFINE P(f) == f = [i \in 0..n |-> IF i = 0 THEN ex ELSE Pack(f[i - 1], txs[i])]
             r == CHOOSE f : P(f)
  <2>1. \A f : IsRunOf(f, "pack", ex, txs, n) <=> P(f)
    BY DEF IsRunOf, StepOf
  <2>2. PICK f : IsRunOf(f, "pack", ex, txs, n)
    BY RunOfExists
  <2>3. P(r)
    BY <2>1, <2>2, Zenon
  <2>4. RunAll(Pack, ex, txs) = r[n]
    BY DEF RunAll
  <2> HIDE DEF r, P
  <2>5. IsTrail(r, "pack", ex, txs)
    BY <1>1, <2>1, <2>3
  <2> QED
    BY <2>4, <2>5
<1> QED
  BY <1>2, <1>3, <1>4

LEMMA FrameReflexive ==
  ASSUME NEW ex, IsExecutor(ex)
  PROVE  Frame(ex, ex)
BY DEF Frame, SameJob, SameCaches, SameCode

LEMMA IncomingFrame ==
  ASSUME NEW ex, IsExecutor(ex)
  PROVE  Frame(ex, distribute_incoming(ex))
<1> DEFINE drained == [ex EXCEPT !.world.system = 0]
           shared == /\ ~IsActive("Kepler", ex.number)
                     /\ ex.world.system_reward < MAX_SYSTEM_REWARD
           to_system == IF shared THEN ex.world.system \div 2 ^ SYSTEM_REWARD_PERCENT ELSE 0
           paid == IF to_system > 0 THEN transact_system_tx(drained, distribute_to_system(to_system))
                   ELSE drained
           last == transact_system_tx(paid,
                     distribute_to_validator(ex.beneficiary, ex.world.system - to_system))
<1>1. Frame(ex, drained)
  BY DEF Frame, IsExecutor, SameJob, SameCaches, SameCode, JobFields, WorkFields, CacheFields,
         IsWorld, WorldFields
<1>2. distribute_incoming(ex) = IF ~Ok(ex) \/ ex.world.system = 0 THEN ex ELSE last
  BY DEF distribute_incoming
<1> HIDE DEF drained, to_system
<1>3. Frame(drained, paid)
  <2>1. IsExecutor(drained)
    BY <1>1 DEF Frame
  <2> QED
    BY <2>1, SystemTxFrame, FrameReflexive
<1> HIDE DEF paid
<1>4. Frame(paid, last)
  BY <1>3, SystemTxFrame DEF Frame
<1> HIDE DEF last
<1>5. Frame(ex, last)
  BY <1>1, <1>3, <1>4, FrameTransitive
<1> QED
  BY <1>2, <1>5, FrameReflexive

\* The system transactions of an ordinary block.
LEMMA DueFrame ==
  ASSUME NEW ex, IsExecutor(ex), NEW inturn
  PROVE  Frame(ex, transact_due(ex, inturn))
<1> DEFINE a == IF ~inturn /\ Spoiled(ex) THEN slash_spoiled_validator(ex) ELSE ex
           b == distribute_incoming(a)
           c == do_distribute_finality_reward(b)
           d == update_validator_set(c)
<1>1. transact_due(ex, inturn) = d
  BY DEF transact_due
<1>2. Frame(ex, a)
  BY SystemTxFrame, FrameReflexive DEF slash_spoiled_validator
<1> HIDE DEF a
<1>3. Frame(a, b)
  BY <1>2, IncomingFrame DEF Frame
<1> HIDE DEF b
<1>4. Frame(b, c)
  <2>1. IsExecutor(b)
    BY <1>3 DEF Frame
  <2> QED
    BY <2>1, SystemTxFrame, FrameReflexive DEF do_distribute_finality_reward
<1> HIDE DEF c
<1>5. Frame(c, d)
  <2>1. IsExecutor(c)
    BY <1>4 DEF Frame
  <2> QED
    BY <2>1, SystemTxFrame, FrameReflexive DEF update_validator_set
<1> HIDE DEF d
<1> QED
  BY <1>1, <1>2, <1>3, <1>4, <1>5, FrameTransitive

LEMMA TransactFrame ==
  ASSUME NEW w, NEW n, NEW env, NEW tx, IsWorld(w)
  PROVE  IsWorld(Transact(w, n, env, tx)) /\ SameCode(w, Transact(w, n, env, tx))
BY DEF Transact, IsWorld, WorldFields, SameCode

LEMMA UserTxFrame ==
  ASSUME NEW ex, IsExecutor(ex), NEW tx
  PROVE  /\ Frame(ex, execute_transaction(ex, tx))
         /\ Frame(ex, execute_checked_transaction(ex, tx))
         /\ Frame(ex, Pack(ex, tx))
<1> DEFINE w == Transact(ex.world, ex.number, ex.env, tx)
           done == [ex EXCEPT !.world = w, !.gas_used = @ + tx.gas,
                              !.receipts = Append(@, tx.gas), !.txs = Append(@, tx)]
<1>0. IsWorld(w) /\ SameCode(ex.world, w)
  BY TransactFrame DEF IsExecutor
<1>1. \/ execute_transaction(ex, tx) = ex
      \/ \E why : execute_transaction(ex, tx) = [ex EXCEPT !.err = why]
      \/ execute_transaction(ex, tx) = done
  BY DEF execute_transaction, Fail
<1> HIDE DEF w
<1>2. Frame(ex, done)
  BY <1>0, SequenceAppend DEF Frame, IsExecutor, SameJob, SameCaches, JobFields, WorkFields, CacheFields
<1> HIDE DEF done
<1>3. ASSUME NEW u
      PROVE  Frame(ex, [ex EXCEPT !.err = u]) /\ Frame(ex, [ex EXCEPT !.system_txs = u])
  BY DEF Frame, IsExecutor, SameJob, SameCaches, SameCode, JobFields, WorkFields, CacheFields
<1>4. Frame(ex, execute_transaction(ex, tx))
  BY <1>1, <1>2, <1>3, FrameReflexive
<1> QED
  BY <1>3, <1>4, FrameReflexive DEF execute_checked_transaction, Pack

LEMMA StepFrame ==
  ASSUME NEW ex, IsExecutor(ex), NEW kind, NEW tx
  PROVE  Frame(ex, StepOf(kind, ex, tx))
BY SystemTxFrame, UserTxFrame DEF StepOf

LEMMA TrailFrame ==
  ASSUME NEW ex, IsExecutor(ex), NEW kind, NEW txs, Len(txs) \in Nat, NEW r,
         IsTrail(r, kind, ex, txs)
  PROVE  \A i \in 0..Len(txs) : Frame(ex, r[i])
<1> DEFINE G == {i \in 0..Len(txs) : Frame(ex, r[i])}
<1>1. 0 \in G
  BY FrameReflexive DEF IsTrail
<1>2. ASSUME NEW i \in 1..Len(txs), i - 1 \in G PROVE i \in G
  <2>1. Frame(ex, r[i - 1]) /\ r[i] = StepOf(kind, r[i - 1], txs[i])
    BY <1>2 DEF IsTrail
  <2>2. Frame(r[i - 1], r[i])
    BY <2>1, StepFrame DEF Frame
  <2>3. Frame(ex, r[i])
    BY <2>1, <2>2, FrameTransitive
  <2> QED
    BY <2>3
<1> HIDE DEF G
<1>3. \A i \in 0..Len(txs) : i \in G
  BY <1>1, <1>2, CountUp
<1> QED
  BY <1>3 DEF G

LEMMA RunFrame ==
  ASSUME NEW ex, IsExecutor(ex), NEW txs, Len(txs) \in Nat
  PROVE  /\ Frame(ex, transact_system_txs(ex, txs))
         /\ Frame(ex, RunAll(execute_checked_transaction, ex, txs))
         /\ Frame(ex, RunAll(Pack, ex, txs))
<1>1. PICK r : IsTrail(r, "system", ex, txs) /\ transact_system_txs(ex, txs) = r[Len(txs)]
  BY RunAllTrail
<1>2. PICK s : /\ IsTrail(s, "checked", ex, txs)
               /\ RunAll(execute_checked_transaction, ex, txs) = s[Len(txs)]
  BY RunAllTrail
<1>3. PICK t : IsTrail(t, "pack", ex, txs) /\ RunAll(Pack, ex, txs) = t[Len(txs)]
  BY RunAllTrail
<1>4. Frame(ex, r[Len(txs)]) /\ Frame(ex, s[Len(txs)]) /\ Frame(ex, t[Len(txs)])
  <2>1. Len(txs) \in 0..Len(txs)
    OBVIOUS
  <2> QED
    BY <1>1, <1>2, <1>3, <2>1, TrailFrame
<1>5. Frame(ex, transact_system_txs(ex, txs))
  BY <1>1, <1>4
<1>6. Frame(ex, RunAll(execute_checked_transaction, ex, txs))
  BY <1>2, <1>4
<1>7. Frame(ex, RunAll(Pack, ex, txs))
  BY <1>3, <1>4
<1> QED
  BY <1>5, <1>6, <1>7

LEMMA InitializeFrame ==
  ASSUME NEW ex, IsExecutor(ex)
  PROVE  Frame(ex, initialize_contracts(ex))
<1>1. Len(feynman_contracts_txs) \in Nat /\ Len(genesis_contracts_txs) \in Nat
  BY DEF feynman_contracts_txs, genesis_contracts_txs
<1> DEFINE feynman == IF IsTransition("Feynman", ex.number)
                      THEN transact_system_txs(ex, feynman_contracts_txs) ELSE ex
<1>2. Frame(ex, feynman)
  BY <1>1, RunFrame, FrameReflexive
<1>3. initialize_contracts(ex)
        = IF ex.number = 1 THEN transact_system_txs(feynman, genesis_contracts_txs) ELSE feynman
  BY DEF initialize_contracts
<1> HIDE DEF feynman
<1>4. Frame(feynman, transact_system_txs(feynman, genesis_contracts_txs))
  BY <1>1, <1>2, RunFrame DEF Frame
<1>5. Frame(ex, transact_system_txs(feynman, genesis_contracts_txs))
  BY <1>2, <1>4, FrameTransitive
<1> QED
  BY <1>2, <1>3, <1>5

----------------------------------------------------------------------------
(* The code of the contracts. *)

\* What CodeIsLatest says of a state after block n.
ShipsBy(c, n) ==
  {i \in DOMAIN UpgradeOrder : IsActive(UpgradeOrder[i], n) /\ c \in Upgrades[UpgradeOrder[i]]}

CodeAt(w, n) ==
  /\ \A c \in Contracts : w.code[c] = IF ShipsBy(c, n) = {} THEN "Genesis" ELSE LastFork(ShipsBy(c, n))
  /\ w.history_storage = (n >= PragueBlock)

ShipsAt(c, n) ==
  {i \in DOMAIN UpgradeOrder : IsTransition(UpgradeOrder[i], n) /\ c \in Upgrades[UpgradeOrder[i]]}

LEMMA OrderFacts ==
  /\ DOMAIN UpgradeOrder = 1..9
  /\ \A i \in 1..9 : ForkBlock[UpgradeOrder[i]] \in Nat \ {0}
  /\ PragueBlock \in Nat \ {0} /\ FeynmanBlock \in Nat \ {0}
<1>1. DOMAIN UpgradeOrder = 1..9
  BY DEF UpgradeOrder
<1>2. \A i \in 1..9 : i \in {1, 2, 3, 4, 5, 6, 7, 8, 9}
  OBVIOUS
<1>3. /\ BohrBlock \in Nat \ {0} /\ LorentzBlock \in Nat \ {0} /\ MaxwellBlock \in Nat \ {0}
      /\ FermiBlock \in Nat \ {0}
  BY SnapshotConstants
<1>4. /\ LubanBlock \in Nat \ {0} /\ PlatoBlock \in Nat \ {0} /\ KeplerBlock \in Nat \ {0}
      /\ FeynmanBlock \in Nat \ {0} /\ CancunBlock \in Nat \ {0} /\ PragueBlock \in Nat \ {0}
  BY ContractConstants
<1>5. ASSUME NEW i \in 1..9 PROVE ForkBlock[UpgradeOrder[i]] \in Nat \ {0}
  <2>1. UpgradeOrder[i] \in {"Luban", "Plato", "Kepler", "Feynman", "Cancun", "Bohr", "Lorentz",
                             "Maxwell", "Fermi"}
    BY <1>2 DEF UpgradeOrder
  <2> QED
    BY <1>3, <1>4, <2>1 DEF ForkBlock
<1> QED
  BY <1>1, <1>4, <1>5

LEMMA ShipsGrow ==
  ASSUME NEW c, NEW n \in Nat \ {0}
  PROVE  /\ ShipsBy(c, n) = ShipsBy(c, n - 1) \cup ShipsAt(c, n)
         /\ ShipsAt(c, n) # {} => LastFork(ShipsBy(c, n)) = LastFork(ShipsAt(c, n))
<1>1. ShipsBy(c, n) = ShipsBy(c, n - 1) \cup ShipsAt(c, n)
  <2>1. \A i \in 1..9 : IsActive(UpgradeOrder[i], n)
                         <=> IsActive(UpgradeOrder[i], n - 1) \/ IsTransition(UpgradeOrder[i], n)
    BY OrderFacts DEF IsActive, IsTransition
  <2> QED
    BY <2>1, OrderFacts DEF ShipsBy, ShipsAt
<1>2. ASSUME ShipsAt(c, n) # {} PROVE LastFork(ShipsBy(c, n)) = LastFork(ShipsAt(c, n))
  <2>1. ASSUME NEW i \in ShipsBy(c, n - 1), NEW j \in ShipsAt(c, n) PROVE i < j
    <3>1. i \in 1..9 /\ j \in 1..9 /\ ForkBlock[UpgradeOrder[i]] < ForkBlock[UpgradeOrder[j]]
      BY OrderFacts DEF ShipsBy, ShipsAt, IsActive, IsTransition
    <3>2. c \in Upgrades[UpgradeOrder[i]] /\ c \in Upgrades[UpgradeOrder[j]]
      BY DEF ShipsBy, ShipsAt
    <3>3. j < i => ForkBlock[UpgradeOrder[j]] <= ForkBlock[UpgradeOrder[i]]
      BY <3>1, <3>2, OrderFacts, UpgradesInOrder
    <3>4. ForkBlock[UpgradeOrder[i]] \in Nat /\ ForkBlock[UpgradeOrder[j]] \in Nat
      BY <3>1, OrderFacts
    <3>5. ~(j < i) /\ i # j
      BY <3>1, <3>3, <3>4
    <3> QED
      BY <3>1, <3>5
  <2> DEFINE A == ShipsAt(c, n)
             B == ShipsBy(c, n)
  <2>2. A \in SUBSET (0..9) /\ B \in SUBSET (0..9)
    BY OrderFacts DEF ShipsBy, ShipsAt
  <2>3. PICK m \in A : \A k \in A : k <= m
    BY <1>2, <2>2, GreatestNumber
  <2>4. m \in B /\ \A k \in B : k <= m
    <3>1. ASSUME NEW k \in B PROVE k <= m
      <4>1. CASE k \in A
        BY <2>3, <4>1
      <4>2. CASE k \in ShipsBy(c, n - 1)
        <5>1. k < m /\ k \in Int /\ m \in Int
          BY <2>1, <2>2, <2>3, <4>2
        <5> QED
          BY <5>1
      <4> QED
        BY <1>1, <4>1, <4>2
    <3> QED
      BY <1>1, <2>3, <3>1
  <2> HIDE DEF A, B
  <2>5. Max(A) = m /\ Max(B) = m
    <3>1. ASSUME NEW S \in SUBSET (0..9), m \in S, \A k \in S : k <= m PROVE Max(S) = m
      <4>1. \A x \in S : (\A y \in S : x >= y) => x = m
        BY <3>1
      <4>2. \A y \in S : m >= y
        BY <3>1
      <4> QED
        BY <3>1, <4>1, <4>2 DEF Max
    <3> QED
      BY <2>2, <2>3, <2>4, <3>1
  <2> QED
    BY <2>5 DEF LastFork, A, B
<1> QED
  BY <1>1, <1>2

\* The code of one more block.
LEMMA UpgradedCode ==
  ASSUME NEW n \in Nat \ {0}, NEW code,
         \A c \in Contracts :
           code[c] = IF ShipsBy(c, n - 1) = {} THEN "Genesis" ELSE LastFork(ShipsBy(c, n - 1))
  PROVE  \A c \in Contracts :
           upgrade_system_contract(code, get_upgrade_system_contracts(n))[c]
             = IF ShipsBy(c, n) = {} THEN "Genesis" ELSE LastFork(ShipsBy(c, n))
<1> SUFFICES ASSUME NEW c \in Contracts
             PROVE  upgrade_system_contract(code, get_upgrade_system_contracts(n))[c]
                      = IF ShipsBy(c, n) = {} THEN "Genesis" ELSE LastFork(ShipsBy(c, n))
  OBVIOUS
<1> DEFINE new == get_upgrade_system_contracts(n)
<1>1. /\ c \in DOMAIN new <=> ShipsAt(c, n) # {}
      /\ ShipsAt(c, n) # {} => new[c] = LastFork(ShipsAt(c, n))
  BY DEF get_upgrade_system_contracts, ShipsAt
<1> HIDE DEF new
<1>2. upgrade_system_contract(code, new)[c] = IF ShipsAt(c, n) = {} THEN code[c] ELSE LastFork(ShipsAt(c, n))
  BY <1>1 DEF upgrade_system_contract
<1>3. CASE ShipsAt(c, n) = {}
  <2>1. ShipsBy(c, n) = ShipsBy(c, n - 1)
    BY <1>3, ShipsGrow
  <2> QED
    BY <1>2, <1>3, <2>1 DEF new
<1>4. CASE ShipsAt(c, n) # {}
  <2>1. ShipsBy(c, n) # {} /\ LastFork(ShipsBy(c, n)) = LastFork(ShipsAt(c, n))
    BY <1>4, ShipsGrow
  <2> QED
    BY <1>2, <1>4, <2>1 DEF new
<1> QED
  BY <1>3, <1>4

\* What upgrades leave as it is: everything but the code.
SansCode(v, w) == \A f \in WorldFields \ {"code", "history_storage"} : v[f] = w[f]

Upgrading(a, b) ==
  /\ IsExecutor(b) /\ SameJob(a, b) /\ SameCaches(a, b) /\ SansCode(a.world, b.world)
  /\ \A f \in WorkFields \ {"world"} : a[f] = b[f]

LEMMA UpgradeFacts ==
  ASSUME NEW ex, IsExecutor(ex), NEW begin \in BOOLEAN
  PROVE  LET new == try_update_build_in_system_contract(ex, begin)
             due == begin <=> ~IsActive("Feynman", ex.number - 1)
         IN /\ Upgrading(ex, new)
            /\ new.world.code = IF due THEN upgrade_system_contract(ex.world.code,
                                              get_upgrade_system_contracts(ex.number))
                                ELSE ex.world.code
            /\ new.world.history_storage = IF begin /\ IsPragueTransition(ex.number) THEN TRUE
                                           ELSE ex.world.history_storage
<1> DEFINE due == begin <=> ~IsActive("Feynman", ex.number - 1)
           c == upgrade_system_contract(ex.world.code, get_upgrade_system_contracts(ex.number))
           up == IF due THEN [ex EXCEPT !.world.code = c] ELSE ex
           last == [up EXCEPT !.world.history_storage = TRUE]
           new == try_update_build_in_system_contract(ex, begin)
<1>1. new = IF begin /\ IsPragueTransition(ex.number) THEN last ELSE up
  <2>1. (begin = ~IsActive("Feynman", ex.number - 1)) <=> due
    BY DEF IsActive
  <2> QED
    BY <2>1 DEF try_update_build_in_system_contract, upgrade_contracts, apply_history_storage_account
<1> HIDE DEF c, due
<1>2. Upgrading(ex, up) /\ up.world.code = (IF due THEN c ELSE ex.world.code)
      /\ up.world.history_storage = ex.world.history_storage
  <2>1. CASE due
    <3> DEFINE r == [ex EXCEPT !.world.code = c]
    <3>1. r.world = [ex.world EXCEPT !.code = c] /\ DOMAIN r = DOMAIN ex
          /\ \A f \in DOMAIN ex \ {"world"} : r[f] = ex[f]
      BY DEF IsExecutor, WorkFields
    <3> HIDE DEF r
    <3>2. /\ IsWorld(r.world) /\ SansCode(ex.world, r.world) /\ r.world.code = c
          /\ r.world.history_storage = ex.world.history_storage
      BY <3>1 DEF IsExecutor, IsWorld, WorldFields, SansCode
    <3>3. /\ SameJob(ex, r) /\ SameCaches(ex, r) /\ \A f \in WorkFields \ {"world"} : ex[f] = r[f]
      BY <3>1 DEF IsExecutor, JobFields, WorkFields, CacheFields, SameJob, SameCaches
    <3>4. IsExecutor(r)
      BY <3>1, <3>2 DEF IsExecutor
    <3> QED
      BY <2>1, <3>2, <3>3, <3>4 DEF Upgrading, r
  <2>2. CASE ~due
    BY <2>2 DEF Upgrading, SameJob, SameCaches, SansCode
  <2> QED
    BY <2>1, <2>2
<1> HIDE DEF up
<1>3. Upgrading(ex, last) /\ last.world.code = up.world.code /\ last.world.history_storage = TRUE
  <2>0. IsExecutor(up)
    BY <1>2 DEF Upgrading
  <2>1. last.world = [up.world EXCEPT !.history_storage = TRUE] /\ DOMAIN last = DOMAIN up
        /\ \A f \in DOMAIN up \ {"world"} : last[f] = up[f]
    BY <2>0 DEF IsExecutor, WorkFields
  <2> HIDE DEF last
  <2>2. /\ IsWorld(last.world) /\ SansCode(up.world, last.world) /\ last.world.code = up.world.code
        /\ last.world.history_storage = TRUE
    BY <2>0, <2>1 DEF IsExecutor, IsWorld, WorldFields, SansCode
  <2>3. /\ SameJob(up, last) /\ SameCaches(up, last) /\ \A f \in WorkFields \ {"world"} : up[f] = last[f]
    BY <2>0, <2>1 DEF IsExecutor, JobFields, WorkFields, CacheFields, SameJob, SameCaches
  <2>4. IsExecutor(last)
    BY <2>0, <2>1, <2>2 DEF IsExecutor
  <2> QED
    BY <1>2, <2>2, <2>3, <2>4 DEF Upgrading, SameJob, SameCaches, SansCode
<1> HIDE DEF last, new
<1> QED
  BY <1>1, <1>2, <1>3 DEF new, due, c

\* Both upgrades of a block together install its code, whichever of the two is due.
LEMMA CodeInstalled ==
  ASSUME NEW n \in Nat \ {0}, NEW a, NEW b, NEW c, NEW d, IsExecutor(a), IsExecutor(c),
         a.number = n, c.number = n, CodeAt(a.world, n - 1),
         b = try_update_build_in_system_contract(a, TRUE), SameCode(b.world, c.world),
         d = try_update_build_in_system_contract(c, FALSE)
  PROVE  CodeAt(d.world, n)
<1> DEFINE late == IsActive("Feynman", n - 1)
           up(code) == upgrade_system_contract(code, get_upgrade_system_contracts(n))
<1>1. /\ b.world.code = IF ~late THEN up(a.world.code) ELSE a.world.code
      /\ b.world.history_storage = IF IsPragueTransition(n) THEN TRUE ELSE a.world.history_storage
  BY UpgradeFacts
<1>2. /\ d.world.code = IF late THEN up(c.world.code) ELSE c.world.code
      /\ d.world.history_storage = c.world.history_storage
  BY UpgradeFacts
<1>3. d.world.code = up(a.world.code)
  BY <1>1, <1>2 DEF SameCode
<1>4. d.world.history_storage = (n >= PragueBlock)
  <2>1. d.world.history_storage = IF IsPragueTransition(n) THEN TRUE ELSE a.world.history_storage
    BY <1>1, <1>2 DEF SameCode
  <2>2. a.world.history_storage = (n - 1 >= PragueBlock)
    BY DEF CodeAt
  <2>3. /\ IsPragueTransition(n) => (n >= PragueBlock) = TRUE
        /\ ~IsPragueTransition(n) => (n >= PragueBlock) = (n - 1 >= PragueBlock)
    BY OrderFacts DEF IsPragueTransition
  <2> HIDE DEF late, up
  <2>4. CASE IsPragueTransition(n)
    <3>1. d.world.history_storage = TRUE
      BY <2>1, <2>4
    <3> QED
      BY <2>3, <2>4, <3>1
  <2>5. CASE ~IsPragueTransition(n)
    <3>1. d.world.history_storage = (n - 1 >= PragueBlock)
      BY <2>1, <2>2, <2>5
    <3> QED
      BY <2>3, <2>5, <3>1
  <2> QED
    BY <2>4, <2>5
<1>5. \A x \in Contracts : up(a.world.code)[x]
                             = IF ShipsBy(x, n) = {} THEN "Genesis" ELSE LastFork(ShipsBy(x, n))
  BY UpgradedCode DEF CodeAt
<1> QED
  BY <1>3, <1>4, <1>5 DEF CodeAt

----------------------------------------------------------------------------
(* The execution of a block, stage by stage. *)

Begun(ex, block) == apply_pre_execution_changes(ex, block)
Ran(ex, block) == RunAll(execute_checked_transaction, Begun(ex, block), block.txs)
Gathered(ex, block) == [Ran(ex, block) EXCEPT !.system_txs = @ \o block.system_txs]
Upgraded(ex, block) == try_update_build_in_system_contract(Gathered(ex, block), FALSE)
Initialized(ex, block) == initialize_contracts(Upgraded(ex, block))
Settled(ex, block) == transact_due(Initialized(ex, block), block.inturn)

\* The stages of an execution that is not the proposer's.
LEMMA Stages ==
  ASSUME NEW ex, NEW block
  PROVE  LET ran == Ran(ex, block)
             ended == EndOfRole(Initialized(ex, block), block)
         IN execute_block(ex, block)
              = IF ~Ok(Begun(ex, block)) THEN Begun(ex, block)
                ELSE IF ~Ok(ran) THEN ran
                ELSE IF ~Ok(Gathered(ex, block)) THEN Gathered(ex, block)
                ELSE ended
BY DEF execute_block, Ran, Begun, Gathered, finish, Then, Upgraded, Initialized

\* A reading of the contracts: the state stays.
Reading(a, b) ==
  /\ IsExecutor(b) /\ SameJob(a, b)
  /\ \A f \in WorkFields \ {"current_validators", "election_info", "err"} : a[f] = b[f]

LEMMA CheckReads ==
  ASSUME NEW ex, IsExecutor(ex), NEW block
  PROVE  /\ Reading(ex, check_new_block(ex, block))
         /\ Reading(ex, prepare_new_block(ex)) /\ SameCaches(ex, prepare_new_block(ex))
         /\ check_new_block(ex, block).turn_length_cache = ex.turn_length_cache
         /\ check_new_block(ex, block).validator_cache
              \in {ex.validator_cache,
                   get_current_validators_with_cache(ex, ex.parent).validator_cache}
<1> DEFINE with == get_current_validators_with_cache(ex, ex.parent)
           read == IF ex.number % ex.snap.epoch_num = 0
                   THEN [with EXCEPT !.current_validators = with.validator_cache[ex.parent]] ELSE ex
           Good(x) == /\ Reading(ex, x) /\ x.turn_length_cache = ex.turn_length_cache
                      /\ x.validator_cache \in {ex.validator_cache, with.validator_cache}
<1>1. \/ check_new_block(ex, block) = read_election_info(read)
      \/ check_new_block(ex, block) = [ex EXCEPT !.err = "attestation"]
      \/ check_new_block(ex, block) = [ex EXCEPT !.err = "seal"]
  BY DEF check_new_block, Fail
<1>2. Good(ex)
  BY DEF Reading, SameJob
<1>3. Good(with)
  BY DEF get_current_validators_with_cache, Reading, IsExecutor, SameJob, JobFields, WorkFields,
         CacheFields
<1> HIDE DEF with
<1>4. ASSUME NEW x, Good(x), NEW u
      PROVE  /\ Good([x EXCEPT !.current_validators = u]) /\ Good([x EXCEPT !.election_info = u])
             /\ Good([x EXCEPT !.err = u])
  BY <1>4 DEF Reading, IsExecutor, SameJob, JobFields, WorkFields, CacheFields
<1>5. Good(read)
  BY <1>2, <1>3, <1>4
<1> HIDE DEF read
<1>6. ASSUME NEW x, Good(x) PROVE Good(read_election_info(x))
  BY <1>4, <1>6 DEF read_election_info
<1>7. Good(check_new_block(ex, block))
  <2>1. Good(read_election_info(read))
    BY <1>5, <1>6
  <2>2. Good([ex EXCEPT !.err = "attestation"]) /\ Good([ex EXCEPT !.err = "seal"])
    BY <1>2, <1>4
  <2> HIDE DEF Good
  <2> QED
    BY <1>1, <2>1, <2>2, Zenon
<1>8. SameCaches(ex, prepare_new_block(ex))
  BY DEF prepare_new_block, read_election_info, IsExecutor, SameCaches, CacheFields
<1> QED
  BY <1>2, <1>6, <1>7, <1>8 DEF prepare_new_block, with

\* What the end of an execution changes: the caches and the error.
CacheStep(a, b) ==
  /\ IsExecutor(b) /\ SameJob(a, b)
  /\ \A f \in WorkFields \ {"err"} : a[f] = b[f]

LEMMA CacheSteps ==
  ASSUME NEW ex, IsExecutor(ex), NEW block
  PROVE  CacheStep(ex, cache_for_next_epoch(ex, block))
<1> DEFINE cached == get_current_validators_with_cache(ex, block)
<1>1. CacheStep(ex, ex)
  BY DEF CacheStep, SameJob
<1>2. CacheStep(ex, cached)
  BY DEF get_current_validators_with_cache, CacheStep, IsExecutor, SameJob, JobFields, WorkFields,
         CacheFields
<1> HIDE DEF cached
<1>3. ASSUME NEW x, CacheStep(ex, x), NEW u
      PROVE  CacheStep(ex, [x EXCEPT !.turn_length_cache = u]) /\ CacheStep(ex, [x EXCEPT !.err = u])
  BY <1>3 DEF CacheStep, IsExecutor, SameJob, JobFields, WorkFields, CacheFields
<1>4. ASSUME NEW u
      PROVE  CacheStep(ex, [cached EXCEPT !.turn_length_cache = u]) /\ CacheStep(ex, [ex EXCEPT !.err = u])
  BY <1>1, <1>2, <1>3
<1>5. \/ cache_for_next_epoch(ex, block) = ex
      \/ \E u : cache_for_next_epoch(ex, block) = [ex EXCEPT !.err = u]
      \/ cache_for_next_epoch(ex, block) = cached
      \/ \E u : cache_for_next_epoch(ex, block) = [cached EXCEPT !.turn_length_cache = u]
  BY DEF cache_for_next_epoch, Fail, CacheTurnLength, cached
<1> QED
  BY <1>1, <1>2, <1>4, <1>5, Zenon

\* Every executor stays on its job.
LEMMA StageFacts ==
  ASSUME NEW ex, IsExecutor(ex), ~ex.is_miner, NEW block, Len(block.txs) \in Nat
  PROVE  /\ IsExecutor(Begun(ex, block)) /\ SameJob(ex, Begun(ex, block))
         /\ Ok(check_new_block(ex, block)) =>
              Begun(ex, block)
                = try_update_build_in_system_contract(check_new_block(ex, block), TRUE)
         /\ ~Ok(check_new_block(ex, block)) => Begun(ex, block) = check_new_block(ex, block)
         /\ Frame(Begun(ex, block), Ran(ex, block))
         /\ Frame(Ran(ex, block), Gathered(ex, block))
         /\ Upgrading(Gathered(ex, block), Upgraded(ex, block))
         /\ Frame(Upgraded(ex, block), Initialized(ex, block))
         /\ Frame(Initialized(ex, block), Settled(ex, block))
         /\ SameJob(ex, Settled(ex, block)) /\ SameJob(ex, Initialized(ex, block))
         /\ SameCaches(Begun(ex, block), Settled(ex, block))
<1> DEFINE chk == check_new_block(ex, block)
           beg == Begun(ex, block)
<1>0. Reading(ex, chk)
  BY CheckReads
<1>1. beg = IF Ok(chk) THEN try_update_build_in_system_contract(chk, TRUE) ELSE chk
  BY DEF Begun, apply_pre_execution_changes, Then
<1>2. IsExecutor(beg) /\ SameJob(ex, beg)
  <2>1. Upgrading(chk, try_update_build_in_system_contract(chk, TRUE))
    BY <1>0, UpgradeFacts DEF Reading
  <2> QED
    BY <1>0, <1>1, <2>1 DEF Reading, Upgrading, SameJob
<1> HIDE DEF beg
<1>3. Frame(beg, Ran(ex, block))
  BY <1>2, RunFrame DEF Ran, beg
<1>4. Frame(Ran(ex, block), Gathered(ex, block))
  <2>1. ASSUME NEW x, IsExecutor(x), NEW u PROVE Frame(x, [x EXCEPT !.system_txs = u])
    BY <2>1 DEF Frame, IsExecutor, SameJob, SameCaches, SameCode, JobFields, WorkFields, CacheFields
  <2>2. IsExecutor(Ran(ex, block))
    BY <1>3 DEF Frame
  <2> QED
    BY <2>1, <2>2 DEF Gathered
<1>5. Upgrading(Gathered(ex, block), Upgraded(ex, block))
  BY <1>4, UpgradeFacts DEF Frame, Upgraded
<1>6. Frame(Upgraded(ex, block), Initialized(ex, block))
  BY <1>5, InitializeFrame DEF Upgrading, Initialized
<1>7. Frame(Initialized(ex, block), Settled(ex, block))
  BY <1>6, DueFrame DEF Frame, Settled
<1>8. SameJob(ex, Settled(ex, block)) /\ SameJob(ex, Initialized(ex, block))
  BY <1>2, <1>3, <1>4, <1>5, <1>6, <1>7 DEF SameJob, Frame, Upgrading
<1>9. SameCaches(beg, Settled(ex, block))
  BY <1>3, <1>4, <1>5, <1>6, <1>7 DEF SameCaches, Frame, Upgrading
<1> QED
  BY <1>1, <1>2, <1>3, <1>4, <1>5, <1>6, <1>7, <1>8, <1>9 DEF beg

\* An execution that fails nowhere goes through all the stages.
LEMMA GoodExecution ==
  ASSUME NEW ex, IsExecutor(ex), ~ex.is_miner, NEW block, Len(block.txs) \in Nat,
         Ok(execute_block(ex, block))
  PROVE  /\ Ok(check_new_block(ex, block)) /\ Ok(Ran(ex, block)) /\ Ok(Initialized(ex, block))
         /\ verify_validators(Initialized(ex, block), block)
         /\ verify_turn_length(Initialized(ex, block), block)
         /\ Ok(Settled(ex, block)) /\ Settled(ex, block).system_txs = <<>>
         /\ SnapshotOf(Settled(ex, block), block) # NoSnapshot
         /\ execute_block(ex, block) = cache_for_next_epoch(Settled(ex, block), block)
<1> DEFINE chk == check_new_block(ex, block)
           beg == Begun(ex, block)
           ran == Ran(ex, block)
           gat == Gathered(ex, block)
           ini == Initialized(ex, block)
           set == Settled(ex, block)
           end == execute_block(ex, block)
<1>1. end = IF ~Ok(beg) THEN beg ELSE IF ~Ok(ran) THEN ran ELSE IF ~Ok(gat) THEN gat
            ELSE EndOfRole(ini, block)
  BY Stages
<1>2. Ok(beg) /\ Ok(ran) /\ Ok(gat) /\ end = EndOfRole(ini, block)
  BY <1>1
<1>3. Ok(chk)
  <2>1. ~Ok(chk) => beg = chk
    BY StageFacts
  <2> QED
    BY <1>2, <2>1
<1>4. ~ini.is_miner /\ IsExecutor(ini) /\ IsExecutor(set)
  BY StageFacts DEF SameJob, JobFields, Frame
<1> HIDE DEF ini, end, ran, beg, chk, gat
<1>5. Ok(ini) /\ end = post_check_new_block(ini, block)
  BY <1>2, <1>4 DEF EndOfRole, end
<1>6. ASSUME NEW x, IsExecutor(x), NEW why, why # "" PROVE ~Ok(Fail(x, why))
  BY <1>6 DEF Ok, Fail, IsExecutor, WorkFields
<1>7. /\ verify_validators(ini, block) /\ verify_turn_length(ini, block)
      /\ end = cache_for_next_epoch(set, block)
  <2>1. post_check_new_block(ini, block)
          = IF ~verify_validators(ini, block) THEN Fail(ini, "Invalid validators")
            ELSE IF ~verify_turn_length(ini, block) THEN Fail(ini, "MismatchingEpochTurnLengthError")
            ELSE cache_for_next_epoch(set, block)
    BY DEF post_check_new_block, Settled, ini
  <2>2. ~Ok(Fail(ini, "Invalid validators")) /\ ~Ok(Fail(ini, "MismatchingEpochTurnLengthError"))
    BY <1>4, <1>6
  <2>3. Ok(end)
    BY DEF end
  <2> QED
    BY <1>5, <2>1, <2>2, <2>3
<1> HIDE DEF set
<1>8. Ok(set) /\ set.system_txs = <<>> /\ SnapshotOf(set, block) # NoSnapshot
  <2>1. /\ ~Ok(set) => end = set
        /\ Ok(set) /\ set.system_txs # <<>> => end = Fail(set, "UnexpectedSystemTx")
        /\ Ok(set) /\ set.system_txs = <<>> /\ SnapshotOf(set, block) = NoSnapshot
             => end = Fail(set, "snapshot")
    BY <1>7 DEF cache_for_next_epoch
  <2>2. ~Ok(Fail(set, "UnexpectedSystemTx")) /\ ~Ok(Fail(set, "snapshot"))
    BY <1>4, <1>6
  <2>3. Ok(end)
    BY DEF end
  <2> QED
    BY <2>1, <2>2, <2>3
<1> QED
  BY <1>2, <1>3, <1>5, <1>7, <1>8 DEF ini, set, end, ran, chk

\* A block that is executed to its end has the code of its height.
LEMMA ExecutedCode ==
  ASSUME NEW ex, IsExecutor(ex), ~ex.is_miner, NEW block, Len(block.txs) \in Nat,
         ex.number \in Nat \ {0}, CodeAt(ex.world, ex.number - 1), Ok(execute_block(ex, block))
  PROVE  CodeAt(execute_block(ex, block).world, ex.number) /\ IsWorld(execute_block(ex, block).world)
<1> DEFINE n == ex.number
           chk == check_new_block(ex, block)
           beg == Begun(ex, block)
           gat == Gathered(ex, block)
           upg == Upgraded(ex, block)
           end == execute_block(ex, block)
<1>1. Reading(ex, chk)
  BY CheckReads
<1>2. IsExecutor(chk) /\ chk.number = n /\ CodeAt(chk.world, n - 1)
  BY <1>1 DEF Reading, SameJob, JobFields, WorkFields
<1>3. beg = try_update_build_in_system_contract(chk, TRUE)
  BY GoodExecution, StageFacts
<1>4. Frame(beg, gat)
  BY StageFacts, FrameTransitive
<1>5. IsExecutor(gat) /\ SameCode(beg.world, gat.world) /\ gat.number = n
  <2>1. SameJob(ex, beg)
    BY StageFacts
  <2> QED
    BY <1>4, <2>1 DEF Frame, SameJob, JobFields
<1>6. upg = try_update_build_in_system_contract(gat, FALSE)
  BY DEF Upgraded
<1>7. CodeAt(upg.world, n)
  <2> HIDE DEF upg, gat, beg, chk
  <2> QED
    BY <1>2, <1>3, <1>5, <1>6, CodeInstalled
<1>8. Frame(upg, Settled(ex, block))
  BY StageFacts, FrameTransitive
<1>9. CacheStep(Settled(ex, block), end)
  <2>1. IsExecutor(Settled(ex, block))
    BY <1>8 DEF Frame
  <2> QED
    BY <2>1, GoodExecution, CacheSteps
<1>10. SameCode(upg.world, end.world) /\ IsWorld(end.world)
  BY <1>8, <1>9 DEF CacheStep, WorkFields, Frame, IsExecutor
<1> QED
  BY <1>7, <1>10 DEF CodeAt, SameCode

----------------------------------------------------------------------------
(* The building of a block. *)

PlainFields ==
  {"number", "beneficiary", "inturn", "day", "extra", "txs", "system_txs", "gas_used",
   "receipts_root"}

AddedFields ==
  {"base_fee_per_gas", "withdrawals_root", "parent_beacon_block_root", "requests_hash",
   "blob_gas_used", "excess_blob_gas"}

BlockFields == PlainFields \cup AddedFields

IsBlock(b) == b = [f \in BlockFields |-> b[f]]

\* What the proposer's executor is when its block is assembled.
Bare(ex) == finish(ex, GenesisBlock)

LEMMA BareFacts ==
  ASSUME NEW ex, IsExecutor(ex), ex.is_miner, Ok(ex), Ok(Bare(ex)),
         ex.shared_validators = {}, ex.shared_turn = NoTurn, IsSequence(ex.txs)
  PROVE  /\ IsExecutor(Bare(ex)) /\ SameJob(ex, Bare(ex)) /\ SameCaches(ex, Bare(ex))
         /\ IsSequence(Bare(ex).txs)
         /\ Bare(ex).shared_validators \in {{}, Bare(ex).world.validators}
         /\ Bare(ex).shared_turn \in {NoTurn, Bare(ex).world.turn}
<1> DEFINE upg == try_update_build_in_system_contract(ex, FALSE)
           ini == initialize_contracts(upg)
           due == transact_due(ini, ini.beneficiary = InturnValidator(ini.snap))
           bare == Bare(ex)
<1>1. Upgrading(ex, upg)
  BY UpgradeFacts
<1>2. Frame(upg, ini)
  BY <1>1, InitializeFrame DEF Upgrading
<1>3. bare = IF ~Ok(ini) THEN ini ELSE share_for_next_epoch(due)
  <2>1. ini.is_miner
    BY <1>1, <1>2 DEF Upgrading, Frame, SameJob, JobFields
  <2> QED
    BY <2>1 DEF Bare, finish, Then, EndOfRole, finalize_new_block
<1> HIDE DEF upg
<1>4. Frame(ini, due)
  BY <1>2, DueFrame DEF Frame
<1> HIDE DEF ini
<1>5. /\ IsExecutor(due) /\ SameJob(ex, due) /\ SameCaches(ex, due) /\ IsSequence(due.txs)
      /\ due.shared_validators = {} /\ due.shared_turn = NoTurn
  <2>1. /\ IsSequence(upg.txs) /\ upg.shared_validators = {} /\ upg.shared_turn = NoTurn
    BY <1>1 DEF Upgrading, WorkFields
  <2> QED
    BY <1>1, <1>2, <1>4, <2>1 DEF Upgrading, Frame, SameJob, SameCaches
<1> HIDE DEF due
<1>6. bare = share_for_next_epoch(due)
  BY <1>3 DEF Bare
<1>7. ASSUME NEW u, NEW v
      PROVE  LET x == [due EXCEPT !.shared_validators = u, !.shared_turn = v]
             IN /\ IsExecutor(x) /\ SameJob(ex, x) /\ SameCaches(ex, x) /\ IsSequence(x.txs)
                /\ x.world = due.world /\ x.shared_validators = u /\ x.shared_turn = v
  BY <1>5 DEF IsExecutor, SameJob, SameCaches, JobFields, WorkFields, CacheFields
<1>8. \/ bare = due
      \/ \E v \in {NoTurn, due.world.turn} :
           bare = [due EXCEPT !.shared_validators = due.world.validators, !.shared_turn = v]
  BY <1>6 DEF share_for_next_epoch, get_current_validators, get_turn_length
<1> HIDE DEF bare
<1>9. CASE bare = due
  BY <1>5, <1>9 DEF bare
<1>10. CASE bare # due
  <2>1. PICK v \in {NoTurn, due.world.turn} :
           bare = [due EXCEPT !.shared_validators = due.world.validators, !.shared_turn = v]
    BY <1>8, <1>10
  <2>2. /\ IsExecutor(bare) /\ SameJob(ex, bare) /\ SameCaches(ex, bare) /\ IsSequence(bare.txs)
        /\ bare.world = due.world /\ bare.shared_validators = due.world.validators
        /\ bare.shared_turn = v
    <3> DEFINE x == [due EXCEPT !.shared_validators = due.world.validators, !.shared_turn = v]
    <3>1. /\ IsExecutor(x) /\ SameJob(ex, x) /\ SameCaches(ex, x) /\ IsSequence(x.txs)
          /\ x.world = due.world /\ x.shared_validators = due.world.validators
          /\ x.shared_turn = v
      BY <1>7
    <3>2. bare = x
      BY <2>1
    <3> HIDE DEF x
    <3> QED
      BY <3>1, <3>2
  <2> QED
    BY <2>1, <2>2 DEF bare
<1> QED
  BY <1>9, <1>10

\* The header of what was executed, before it is sealed.
UnsealedHeader(ex) ==
  WithFields(
    [number |-> ex.number, beneficiary |-> ex.beneficiary, inturn |-> FALSE, day |-> ex.day,
     extra |-> <<>>, txs |-> ex.txs, system_txs |-> ex.assembled_system_txs,
     gas_used |-> ex.gas_used, receipts_root |-> ex.receipts],
    ForkFields(ex.number, ex.parent, ex.txs))

UnsealedExtra(ex, votes) ==
  ExtraData(ex.number, prepare_validators(ex), prepare_turn_length(ex),
            assemble_vote_attestation(ex.snaps, votes, ex.number))

LEMMA UnsealedFacts ==
  ASSUME NEW ex
  PROVE  LET h == UnsealedHeader(ex)
             added == ForkFields(ex.number, ex.parent, ex.txs)
         IN /\ IsBlock(h) /\ h.number = ex.number /\ h.beneficiary = ex.beneficiary /\ h.txs = ex.txs
            /\ h.system_txs = ex.assembled_system_txs /\ h.gas_used = ex.gas_used
            /\ h.receipts_root = ex.receipts
            /\ \A f \in AddedFields : h[f] = added[f]
<1> DEFINE plain == [number |-> ex.number, beneficiary |-> ex.beneficiary, inturn |-> FALSE,
                     day |-> ex.day, extra |-> <<>>, txs |-> ex.txs,
                     system_txs |-> ex.assembled_system_txs,
                     gas_used |-> ex.gas_used, receipts_root |-> ex.receipts]
           added == ForkFields(ex.number, ex.parent, ex.txs)
           h == UnsealedHeader(ex)
<1>1. h = [f \in DOMAIN plain \cup DOMAIN added |-> IF f \in DOMAIN plain THEN plain[f] ELSE added[f]]
  BY DEF UnsealedHeader, WithFields
<1>2. DOMAIN plain = PlainFields
  BY DEF PlainFields
<1>3. DOMAIN added = AddedFields
  BY DEF ForkFields, AddedFields
<1>4. PlainFields \cap AddedFields = {}
  BY DEF PlainFields, AddedFields
<1> HIDE DEF added
<1>5. /\ h.number = ex.number /\ h.beneficiary = ex.beneficiary /\ h.txs = ex.txs
      /\ h.system_txs = ex.assembled_system_txs /\ h.gas_used = ex.gas_used
      /\ h.receipts_root = ex.receipts
  BY <1>1, <1>2 DEF PlainFields
<1> HIDE DEF plain, h
<1>6. IsBlock(h)
  BY <1>1, <1>2, <1>3 DEF IsBlock, BlockFields
<1>7. \A f \in AddedFields : h[f] = added[f]
  BY <1>1, <1>2, <1>3, <1>4
<1> QED
  BY <1>5, <1>6, <1>7 DEF h, added

\* The block that is built: its fields are those of what was executed.
LEMMA AssembledFacts ==
  ASSUME NEW ex, IsExecutor(ex), Ok(ex), NEW votes, Ok(assemble_block_bsc(ex, votes))
  PROVE  LET new == assemble_block_bsc(ex, votes)
             added == ForkFields(ex.number, ex.parent, ex.txs)
             zeroed == [UnsealedHeader(ex) EXCEPT
                          !.inturn = (ex.beneficiary = InturnValidator(ex.snap)),
                          !.extra = Append(UnsealedExtra(ex, votes), <<"seal", ZeroAddress, None>>)]
             b == new.block
         IN /\ prepare_turn_length(ex) # ErrTurn
            /\ new = [ex EXCEPT !.block = Sealed(zeroed, ex.beneficiary)]
            /\ IsExecutor(new) /\ b = Sealed(zeroed, ex.beneficiary)
            /\ IsBlock(b) /\ b.number = ex.number /\ b.beneficiary = ex.beneficiary /\ b.txs = ex.txs
            /\ b.system_txs = ex.assembled_system_txs /\ b.gas_used = ex.gas_used
            /\ b.receipts_root = ex.receipts
            /\ b.inturn = (ex.beneficiary = InturnValidator(ex.snap))
            /\ \A f \in AddedFields : b[f] = added[f]
<1> DEFINE new == assemble_block_bsc(ex, votes)
           h == UnsealedHeader(ex)
           inturn == (ex.beneficiary = InturnValidator(ex.snap))
           x == Append(UnsealedExtra(ex, votes), <<"seal", ZeroAddress, None>>)
           zeroed == [h EXCEPT !.inturn = inturn, !.extra = x]
           y == Append(Front(zeroed.extra), seal_header(zeroed, ex.beneficiary))
           b == [zeroed EXCEPT !.extra = y]
<1>1. new = IF prepare_turn_length(ex) = ErrTurn THEN Fail(ex, "TurnLengthNotFound")
            ELSE [ex EXCEPT !.block = Sealed(zeroed, ex.beneficiary)]
  BY DEF assemble_block_bsc, finalize_new_header, UnsealedHeader, UnsealedExtra
<1>2. Sealed(zeroed, ex.beneficiary) = b
  BY DEF Sealed
<1>3. ~Ok(Fail(ex, "TurnLengthNotFound"))
  BY DEF Ok, Fail, IsExecutor, WorkFields
<1>4. prepare_turn_length(ex) # ErrTurn /\ new = [ex EXCEPT !.block = b]
  BY <1>1, <1>2, <1>3
<1> HIDE DEF new, y, x, h, inturn
<1>5. /\ IsBlock(h) /\ h.number = ex.number /\ h.beneficiary = ex.beneficiary /\ h.txs = ex.txs
      /\ h.system_txs = ex.assembled_system_txs /\ h.gas_used = ex.gas_used
      /\ h.receipts_root = ex.receipts
  BY UnsealedFacts DEF h
<1>6. DOMAIN h = BlockFields
  BY <1>5 DEF IsBlock
<1>7. /\ DOMAIN b = BlockFields /\ b = [f \in DOMAIN b |-> b[f]]
      /\ \A f \in BlockFields \ {"inturn", "extra"} : b[f] = h[f]
      /\ b.inturn = inturn
  BY <1>6 DEF BlockFields, PlainFields
<1> HIDE DEF b, zeroed
<1>8. /\ IsBlock(b) /\ b.number = ex.number /\ b.beneficiary = ex.beneficiary /\ b.txs = ex.txs
      /\ b.system_txs = ex.assembled_system_txs /\ b.gas_used = ex.gas_used
      /\ b.receipts_root = ex.receipts
  BY <1>5, <1>7 DEF IsBlock, BlockFields, PlainFields
<1>9. \A f \in AddedFields : b[f] = ForkFields(ex.number, ex.parent, ex.txs)[f]
  <2>1. AddedFields \subseteq BlockFields \ {"inturn", "extra"}
    BY DEF BlockFields, PlainFields, AddedFields
  <2> QED
    BY <1>7, <2>1, UnsealedFacts DEF h
<1>10. IsExecutor(new) /\ new.block = b
  BY <1>4 DEF IsExecutor, WorkFields, JobFields, CacheFields
<1> QED
  BY <1>2, <1>4, <1>7, <1>8, <1>9, <1>10 DEF b, zeroed, x, h, inturn, new

LEMMA AssembledFields ==
  ASSUME NEW ex, IsExecutor(ex), Ok(ex), NEW votes, Ok(assemble_block_bsc(ex, votes))
  PROVE  /\ IsBlock(assemble_block_bsc(ex, votes).block)
         /\ assemble_block_bsc(ex, votes).block.number = ex.number
         /\ assemble_block_bsc(ex, votes).block.beneficiary = ex.beneficiary
         /\ assemble_block_bsc(ex, votes).block.txs = ex.txs
BY AssembledFacts, Zenon

\* What a node has when it has built a block.
LEMMA BuilderFacts ==
  ASSUME NEW ex, IsExecutor(ex), ex.is_miner, Ok(ex), NEW votes, Ok(builder_finish(ex, votes)),
         ex.shared_validators = {}, ex.shared_turn = NoTurn, IsSequence(ex.txs)
  PROVE  LET new == builder_finish(ex, votes)
             bare == Bare(ex)
         IN /\ Ok(bare) /\ Ok(assemble_block_bsc(bare, votes))
            /\ new.block = assemble_block_bsc(bare, votes).block
            /\ new.world = bare.world
            /\ IsBlock(new.block) /\ new.block.number = ex.number /\ IsSequence(new.block.txs)
            /\ new.block.beneficiary = ex.beneficiary
            /\ new.validator_cache = ex.validator_cache
               \/ new.validator_cache = Insert(ex.validator_cache, new.block, new.world.validators)
            /\ new.turn_length_cache = ex.turn_length_cache
               \/ new.turn_length_cache = Insert(ex.turn_length_cache, new.block, new.world.turn)
<1> DEFINE new == builder_finish(ex, votes)
           bare == Bare(ex)
           asm == assemble_block_bsc(bare, votes)
<1>1. new = IF Ok(bare) THEN cache_shared(asm) ELSE bare
  BY DEF builder_finish, assemble, Bare
<1>2. Ok(bare)
  BY <1>1
<1>3. /\ IsExecutor(bare) /\ SameJob(ex, bare) /\ SameCaches(ex, bare) /\ IsSequence(bare.txs)
      /\ bare.shared_validators \in {{}, bare.world.validators}
      /\ bare.shared_turn \in {NoTurn, bare.world.turn}
  BY <1>2, BareFacts
<1>4. Ok(asm)
  <2>1. ~Ok(asm) => cache_shared(asm) = asm
    BY DEF cache_shared
  <2> QED
    BY <1>1, <1>2, <2>1
<1>5. /\ asm = [bare EXCEPT !.block = asm.block] /\ IsBlock(asm.block)
      /\ asm.block.number = ex.number /\ asm.block.beneficiary = ex.beneficiary
      /\ asm.block.txs = bare.txs
  <2> HIDE DEF bare
  <2>1. /\ IsBlock(asm.block) /\ asm.block.number = bare.number
        /\ asm.block.beneficiary = bare.beneficiary /\ asm.block.txs = bare.txs
    BY <1>2, <1>3, <1>4, AssembledFields
  <2>2. asm = [bare EXCEPT !.block = asm.block]
    <3> DEFINE zeroed == [UnsealedHeader(bare) EXCEPT
                          !.inturn = (bare.beneficiary = InturnValidator(bare.snap)),
                          !.extra = Append(UnsealedExtra(bare, votes), <<"seal", ZeroAddress, None>>)]
               s == Sealed(zeroed, bare.beneficiary)
    <3>1. asm = [bare EXCEPT !.block = s] /\ asm.block = s
      BY <1>2, <1>3, <1>4, AssembledFacts
    <3> HIDE DEF s, asm
    <3> QED
      BY <3>1
  <2> QED
    BY <1>3, <2>1, <2>2 DEF SameJob, JobFields
<1> HIDE DEF bare
<1> DEFINE b == asm.block
           v == IF bare.shared_validators = {} THEN bare.validator_cache
                ELSE Insert(bare.validator_cache, b, bare.shared_validators)
           t == IF bare.shared_turn = NoTurn THEN bare.turn_length_cache
                ELSE Insert(bare.turn_length_cache, b, bare.shared_turn)
<1>6. /\ IsExecutor(asm) /\ asm.shared_validators = bare.shared_validators
      /\ asm.shared_turn = bare.shared_turn /\ asm.world = bare.world
      /\ asm.validator_cache = bare.validator_cache
      /\ asm.turn_length_cache = bare.turn_length_cache
  <2> HIDE DEF asm
  <2> QED
    BY <1>3, <1>5 DEF IsExecutor, WorkFields, JobFields, CacheFields
<1> HIDE DEF asm
<1>7. new = [asm EXCEPT !.validator_cache = v, !.turn_length_cache = t]
  BY <1>1, <1>2, <1>4, <1>6 DEF cache_shared
<1> HIDE DEF v, t, new
<1>8. /\ new.block = b /\ new.world = bare.world /\ new.validator_cache = v
      /\ new.turn_length_cache = t
  BY <1>6, <1>7 DEF IsExecutor, WorkFields, JobFields, CacheFields
<1>9. bare.validator_cache = ex.validator_cache /\ bare.turn_length_cache = ex.turn_length_cache
  BY <1>3 DEF SameCaches, CacheFields
<1>10. /\ v = ex.validator_cache \/ v = Insert(ex.validator_cache, b, bare.world.validators)
       /\ t = ex.turn_length_cache \/ t = Insert(ex.turn_length_cache, b, bare.world.turn)
  BY <1>3, <1>9 DEF v, t
<1> QED
  BY <1>2, <1>3, <1>4, <1>5, <1>8, <1>10 DEF new, bare, asm

----------------------------------------------------------------------------
(* Executors that differ only in what is in their caches. *)

Twin(a, b) ==
  /\ IsExecutor(a) /\ IsExecutor(b) /\ SameJob(a, b)
  /\ \A f \in WorkFields : a[f] = b[f]

\* Twins get the same values.
LEMMA TwinPut ==
  ASSUME NEW a, NEW b, Twin(a, b), NEW u, NEW v, NEW x, NEW y
  PROVE  /\ Twin([a EXCEPT !.err = u], [b EXCEPT !.err = u])
         /\ Twin([a EXCEPT !.system_txs = u], [b EXCEPT !.system_txs = u])
         /\ Twin([a EXCEPT !.election_info = u], [b EXCEPT !.election_info = u])
         /\ Twin([a EXCEPT !.current_validators = u], [b EXCEPT !.current_validators = u])
         /\ Twin([a EXCEPT !.validator_cache = u], [b EXCEPT !.validator_cache = v])
         /\ Twin([a EXCEPT !.turn_length_cache = u], [b EXCEPT !.turn_length_cache = v])
         /\ IsWorld(u) => /\ Twin([a EXCEPT !.world = u], [b EXCEPT !.world = u])
                          /\ Twin([a EXCEPT !.world = u, !.gas_used = v, !.receipts = x],
                                  [b EXCEPT !.world = u, !.gas_used = v, !.receipts = x])
                          /\ Twin([a EXCEPT !.world = u, !.gas_used = v, !.receipts = x, !.txs = y],
                                  [b EXCEPT !.world = u, !.gas_used = v, !.receipts = x, !.txs = y])
         /\ Twin([a EXCEPT !.assembled_system_txs = u], [b EXCEPT !.assembled_system_txs = u])
<1> USE DEF Twin, IsExecutor, SameJob, JobFields, WorkFields, CacheFields
<1>1. Twin([a EXCEPT !.err = u], [b EXCEPT !.err = u])
  OBVIOUS
<1>2. Twin([a EXCEPT !.system_txs = u], [b EXCEPT !.system_txs = u])
  OBVIOUS
<1>3. Twin([a EXCEPT !.election_info = u], [b EXCEPT !.election_info = u])
  OBVIOUS
<1>4. Twin([a EXCEPT !.current_validators = u], [b EXCEPT !.current_validators = u])
  OBVIOUS
<1>5. Twin([a EXCEPT !.validator_cache = u], [b EXCEPT !.validator_cache = v])
  OBVIOUS
<1>6. Twin([a EXCEPT !.turn_length_cache = u], [b EXCEPT !.turn_length_cache = v])
  OBVIOUS
<1>7. ASSUME IsWorld(u) PROVE Twin([a EXCEPT !.world = u], [b EXCEPT !.world = u])
  BY <1>7
<1>8. ASSUME IsWorld(u) PROVE Twin([a EXCEPT !.world = u, !.gas_used = v, !.receipts = x],
                                   [b EXCEPT !.world = u, !.gas_used = v, !.receipts = x])
  BY <1>8
<1>9. ASSUME IsWorld(u) PROVE Twin([a EXCEPT !.world = u, !.gas_used = v, !.receipts = x, !.txs = y],
                                   [b EXCEPT !.world = u, !.gas_used = v, !.receipts = x, !.txs = y])
  BY <1>9
<1>10. Twin([a EXCEPT !.assembled_system_txs = u], [b EXCEPT !.assembled_system_txs = u])
  OBVIOUS
<1> HIDE DEF Twin, IsExecutor, SameJob, JobFields, WorkFields, CacheFields
<1> QED
  BY <1>1, <1>2, <1>3, <1>4, <1>5, <1>6, <1>7, <1>8, <1>9, <1>10

LEMMA TwinSame ==
  ASSUME NEW a, NEW b, Twin(a, b)
  PROVE  /\ IsExecutor(a) /\ IsExecutor(b) /\ a.is_miner = b.is_miner /\ a.number = b.number
         /\ a.beneficiary = b.beneficiary /\ a.day = b.day /\ a.parent = b.parent /\ a.env = b.env
         /\ a.chain = b.chain /\ a.snaps = b.snaps /\ a.snap = b.snap /\ a.world = b.world
         /\ a.gas_used = b.gas_used /\ a.receipts = b.receipts /\ a.txs = b.txs
         /\ a.system_txs = b.system_txs /\ a.assembled_system_txs = b.assembled_system_txs
         /\ a.current_validators = b.current_validators /\ a.election_info = b.election_info
         /\ a.err = b.err /\ Ok(a) = Ok(b)
BY DEF Twin, SameJob, JobFields, WorkFields, Ok

LEMMA SystemTxTwin ==
  ASSUME NEW a, NEW b, Twin(a, b), NEW tx
  PROVE  Twin(transact_system_tx(a, tx), transact_system_tx(b, tx))
<1> DEFINE sender == a.beneficiary
           t == set_nonce(tx, a.world.nonce[sender])
           w == [a.world EXCEPT !.nonce[sender] = @ + 1]
           g == SystemGas[t.call]
           e == Effect(w, t)
           done(x) == [x EXCEPT !.world = e, !.gas_used = a.gas_used + g,
                                !.receipts = Append(a.receipts, g)]
           miner(x) == [done(x) EXCEPT !.assembled_system_txs = Append(a.assembled_system_txs, t)]
           next(x) == [done(x) EXCEPT !.system_txs = Tail(a.system_txs)]
           wrong(x) == [x EXCEPT !.err = "UnexpectedSystemTx"]
<1>0. /\ IsExecutor(a) /\ IsExecutor(b) /\ Ok(a) = Ok(b) /\ a.is_miner = b.is_miner
      /\ a.beneficiary = b.beneficiary /\ a.world = b.world /\ a.gas_used = b.gas_used
      /\ a.receipts = b.receipts /\ a.system_txs = b.system_txs
      /\ a.assembled_system_txs = b.assembled_system_txs
  BY TwinSame
<1>1. IsWorld(e)
  <2>1. IsWorld(w)
    BY <1>0 DEF IsExecutor, IsWorld
  <2> QED
    BY <2>1, EffectFrame
<1>2. ASSUME NEW x, IsExecutor(x), x.beneficiary = a.beneficiary, x.world = a.world,
             x.gas_used = a.gas_used, x.receipts = a.receipts, x.system_txs = a.system_txs,
             x.assembled_system_txs = a.assembled_system_txs
      PROVE  transact_system_tx(x, tx)
               = IF ~Ok(x) THEN x
                 ELSE IF x.is_miner THEN miner(x)
                 ELSE IF a.system_txs # <<>> /\ Head(a.system_txs) = t THEN next(x)
                 ELSE IF t.to = "slash" /\ (a.system_txs = <<>> \/ Head(a.system_txs).to # "slash")
                      THEN x
                 ELSE wrong(x)
  <2> DEFINE d == [x EXCEPT !.world = Effect([x.world EXCEPT !.nonce[x.beneficiary] = @ + 1],
                                             set_nonce(tx, x.world.nonce[x.beneficiary])),
                            !.gas_used = x.gas_used
                               + SystemGas[set_nonce(tx, x.world.nonce[x.beneficiary]).call],
                            !.receipts = Append(x.receipts,
                               SystemGas[set_nonce(tx, x.world.nonce[x.beneficiary]).call])]
             u == set_nonce(tx, x.world.nonce[x.beneficiary])
  <2>1. transact_system_tx(x, tx)
               = IF ~Ok(x) THEN x
                 ELSE IF x.is_miner
                      THEN [d EXCEPT !.assembled_system_txs = Append(d.assembled_system_txs, u)]
                 ELSE IF x.system_txs # <<>> /\ Head(x.system_txs) = u
                      THEN [d EXCEPT !.system_txs = Tail(d.system_txs)]
                 ELSE IF u.to = "slash" /\ (x.system_txs = <<>> \/ Head(x.system_txs).to # "slash")
                      THEN x
                 ELSE [x EXCEPT !.err = "UnexpectedSystemTx"]
    BY DEF transact_system_tx, Fail, MayBeMissing
  <2>2. u = t /\ d = done(x)
    BY <1>2
  <2>3. d.assembled_system_txs = a.assembled_system_txs /\ d.system_txs = a.system_txs
    <3> HIDE DEF u
    <3> QED
      BY <1>2 DEF IsExecutor, WorkFields
  <2> HIDE DEF d, u, done, t
  <2> QED
    BY <1>2, <2>1, <2>2, <2>3
<1> HIDE DEF t, e, g
<1>3. Twin(done(a), done(b))
  BY <1>1, TwinPut
<1> HIDE DEF done
<1>4. Twin(miner(a), miner(b)) /\ Twin(next(a), next(b)) /\ Twin(wrong(a), wrong(b))
  BY <1>3, TwinPut
<1> HIDE DEF miner, next, wrong
<1> QED
  BY <1>0, <1>2, <1>4

LEMMA IncomingTwin ==
  ASSUME NEW a, NEW b, Twin(a, b)
  PROVE  Twin(distribute_incoming(a), distribute_incoming(b))
<1> DEFINE drained(x) == [x EXCEPT !.world.system = 0]
           shared == /\ ~IsActive("Kepler", a.number)
                     /\ a.world.system_reward < MAX_SYSTEM_REWARD
           to_system == IF shared THEN a.world.system \div 2 ^ SYSTEM_REWARD_PERCENT ELSE 0
           paid(x) == IF to_system > 0
                      THEN transact_system_tx(drained(x), distribute_to_system(to_system))
                      ELSE drained(x)
           tx == distribute_to_validator(a.beneficiary, a.world.system - to_system)
           last(x) == transact_system_tx(paid(x), tx)
<1>0. /\ a.number = b.number /\ a.world = b.world /\ a.beneficiary = b.beneficiary /\ Ok(a) = Ok(b)
      /\ IsExecutor(a) /\ IsExecutor(b)
  BY TwinSame
<1>1. Twin(drained(a), drained(b))
  <2> DEFINE w == [a.world EXCEPT !.system = 0]
  <2>1. IsWorld(w)
    BY <1>0 DEF IsExecutor, IsWorld
  <2>2. drained(a) = [a EXCEPT !.world = w] /\ drained(b) = [b EXCEPT !.world = w]
    BY <1>0
  <2> HIDE DEF w, drained
  <2>3. Twin([a EXCEPT !.world = w], [b EXCEPT !.world = w])
    BY <2>1, TwinPut
  <2> QED
    BY <2>2, <2>3
<1>2. /\ distribute_incoming(a) = IF ~Ok(a) \/ a.world.system = 0 THEN a ELSE last(a)
      /\ distribute_incoming(b) = IF ~Ok(a) \/ a.world.system = 0 THEN b ELSE last(b)
  <2>1. distribute_incoming(a) = IF ~Ok(a) \/ a.world.system = 0 THEN a ELSE last(a)
    BY DEF distribute_incoming
  <2> DEFINE shared2 == /\ ~IsActive("Kepler", b.number)
                        /\ b.world.system_reward < MAX_SYSTEM_REWARD
             to_system2 == IF shared2 THEN b.world.system \div 2 ^ SYSTEM_REWARD_PERCENT ELSE 0
             paid2 == IF to_system2 > 0
                      THEN transact_system_tx(drained(b), distribute_to_system(to_system2))
                      ELSE drained(b)
             tx2 == distribute_to_validator(b.beneficiary, b.world.system - to_system2)
  <2>2. distribute_incoming(b) = IF ~Ok(b) \/ b.world.system = 0 THEN b
                                 ELSE transact_system_tx(paid2, tx2)
    BY DEF distribute_incoming
  <2>3. to_system2 = to_system /\ tx2 = tx
    BY <1>0
  <2> HIDE DEF drained, to_system, to_system2, tx, tx2
  <2> QED
    BY <1>0, <2>1, <2>2, <2>3
<1> HIDE DEF drained, to_system, tx
<1>3. Twin(paid(a), paid(b))
  BY <1>1, SystemTxTwin
<1> HIDE DEF paid
<1>4. Twin(last(a), last(b))
  BY <1>3, SystemTxTwin
<1> HIDE DEF last
<1> QED
  BY <1>2, <1>4

LEMMA DueTwin ==
  ASSUME NEW a, NEW b, Twin(a, b), NEW inturn
  PROVE  Twin(transact_due(a, inturn), transact_due(b, inturn))
<1> DEFINE slashed(x) == IF ~inturn /\ Spoiled(x) THEN slash_spoiled_validator(x) ELSE x
<1>1. \A x : transact_due(x, inturn)
               = update_validator_set(do_distribute_finality_reward(distribute_incoming(slashed(x))))
  BY DEF transact_due
<1>2. Twin(slashed(a), slashed(b))
  <2>1. a.snap = b.snap /\ a.number = b.number
    BY TwinSame
  <2>2. Spoiled(a) <=> Spoiled(b)
    BY <2>1 DEF Spoiled
  <2>3. Twin(slash_spoiled_validator(a), slash_spoiled_validator(b))
    BY <2>1, SystemTxTwin DEF slash_spoiled_validator
  <2> QED
    BY <2>2, <2>3
<1>3. ASSUME NEW x, NEW y, Twin(x, y)
      PROVE  Twin(do_distribute_finality_reward(x), do_distribute_finality_reward(y))
  <2>1. x.number = y.number /\ x.snaps = y.snaps /\ x.chain = y.chain
    BY <1>3, TwinSame
  <2> DEFINE tx == distribute_finality_reward(NonZero(AttestationWeights(x.number, x.snaps, x.chain)))
  <2>2. Twin(transact_system_tx(x, tx), transact_system_tx(y, tx))
    BY <1>3, SystemTxTwin
  <2> QED
    BY <1>3, <2>1, <2>2 DEF do_distribute_finality_reward
<1>4. ASSUME NEW x, NEW y, Twin(x, y)
      PROVE  Twin(update_validator_set(x), update_validator_set(y))
  <2>1. x.number = y.number /\ x.parent = y.parent /\ x.day = y.day /\ x.election_info = y.election_info
    BY <1>4, TwinSame
  <2> DEFINE tx == update_validator_set_v2(
                     get_top_validators_by_voting_power(x.election_info, MaxElectedValidators))
  <2>2. Twin(transact_system_tx(x, tx), transact_system_tx(y, tx))
    BY <1>4, SystemTxTwin
  <2> QED
    BY <1>4, <2>1, <2>2 DEF update_validator_set
<1> HIDE DEF slashed
<1>5. Twin(distribute_incoming(slashed(a)), distribute_incoming(slashed(b)))
  BY <1>2, IncomingTwin
<1> QED
  BY <1>1, <1>3, <1>4, <1>5

LEMMA UserTxTwin ==
  ASSUME NEW a, NEW b, Twin(a, b), NEW tx
  PROVE  Twin(execute_checked_transaction(a, tx), execute_checked_transaction(b, tx))
<1> DEFINE w == Transact(a.world, a.number, a.env, tx)
           done(x) == [x EXCEPT !.world = w, !.gas_used = a.gas_used + tx.gas,
                                !.receipts = Append(a.receipts, tx.gas), !.txs = Append(a.txs, tx)]
           full(x) == [x EXCEPT !.err = "TransactionGasLimitMoreThanAvailableBlockGas"]
           invalid(x) == [x EXCEPT !.err = "InvalidTx"]
           aside(x) == [x EXCEPT !.system_txs = Append(a.system_txs, AsSystem(tx))]
           Result(x) == IF ~Ok(a) THEN x
                        ELSE IF is_system_transaction(tx, a.beneficiary) THEN aside(x)
                        ELSE IF tx.gas > GasLimit - a.gas_used THEN full(x)
                        ELSE IF ~IsValid(tx, a.number) \/ tx.price < a.env.basefee THEN invalid(x)
                        ELSE done(x)
<1>0. /\ a.number = b.number /\ a.world = b.world /\ a.beneficiary = b.beneficiary /\ Ok(a) = Ok(b)
      /\ a.env = b.env /\ a.gas_used = b.gas_used /\ a.receipts = b.receipts /\ a.txs = b.txs
      /\ a.system_txs = b.system_txs /\ IsExecutor(a) /\ IsExecutor(b)
  BY TwinSame
<1>1. IsWorld(w)
  BY <1>0, TransactFrame DEF IsExecutor
<1>2. execute_checked_transaction(a, tx) = Result(a) /\ execute_checked_transaction(b, tx) = Result(b)
  <2>1. execute_checked_transaction(a, tx) = Result(a)
    BY DEF execute_checked_transaction, execute_transaction, Fail
  <2>2. execute_checked_transaction(b, tx) = Result(b)
    BY <1>0 DEF execute_checked_transaction, execute_transaction, Fail
  <2> QED
    BY <2>1, <2>2
<1> HIDE DEF w
<1>3. Twin(done(a), done(b)) /\ Twin(full(a), full(b)) /\ Twin(invalid(a), invalid(b))
      /\ Twin(aside(a), aside(b))
  BY <1>1, TwinPut
<1> HIDE DEF done, full, invalid, aside
<1> QED
  BY <1>2, <1>3

LEMMA TrailTwin ==
  ASSUME NEW a, NEW b, Twin(a, b), NEW kind \in {"system", "checked"}, NEW txs, Len(txs) \in Nat,
         NEW r, NEW s, IsTrail(r, kind, a, txs), IsTrail(s, kind, b, txs)
  PROVE  Twin(r[Len(txs)], s[Len(txs)])
<1> DEFINE G == {i \in 0..Len(txs) : Twin(r[i], s[i])}
<1>1. 0 \in G
  BY DEF IsTrail
<1>2. ASSUME NEW i \in 1..Len(txs), i - 1 \in G PROVE i \in G
  <2>1. /\ Twin(r[i - 1], s[i - 1]) /\ r[i] = StepOf(kind, r[i - 1], txs[i])
        /\ s[i] = StepOf(kind, s[i - 1], txs[i])
    BY <1>2 DEF IsTrail
  <2>2. Twin(r[i], s[i])
    BY <2>1, SystemTxTwin, UserTxTwin DEF StepOf
  <2> QED
    BY <2>2
<1> HIDE DEF G
<1>3. \A i \in 0..Len(txs) : i \in G
  BY <1>1, <1>2, CountUp
<1>4. Len(txs) \in G
  BY <1>3
<1> QED
  BY <1>4 DEF G

LEMMA RunTwin ==
  ASSUME NEW a, NEW b, Twin(a, b), NEW txs, Len(txs) \in Nat
  PROVE  /\ Twin(transact_system_txs(a, txs), transact_system_txs(b, txs))
         /\ Twin(RunAll(execute_checked_transaction, a, txs), RunAll(execute_checked_transaction, b, txs))
<1>1. PICK r : IsTrail(r, "system", a, txs) /\ transact_system_txs(a, txs) = r[Len(txs)]
  BY RunAllTrail
<1>2. PICK s : IsTrail(s, "system", b, txs) /\ transact_system_txs(b, txs) = s[Len(txs)]
  BY RunAllTrail
<1>3. PICK p : IsTrail(p, "checked", a, txs) /\ RunAll(execute_checked_transaction, a, txs) = p[Len(txs)]
  BY RunAllTrail
<1>4. PICK q : IsTrail(q, "checked", b, txs) /\ RunAll(execute_checked_transaction, b, txs) = q[Len(txs)]
  BY RunAllTrail
<1>5. Twin(r[Len(txs)], s[Len(txs)])
  BY <1>1, <1>2, TrailTwin
<1>6. Twin(p[Len(txs)], q[Len(txs)])
  BY <1>3, <1>4, TrailTwin
<1>7. Twin(transact_system_txs(a, txs), transact_system_txs(b, txs))
  BY <1>1, <1>2, <1>5
<1>8. Twin(RunAll(execute_checked_transaction, a, txs), RunAll(execute_checked_transaction, b, txs))
  BY <1>3, <1>4, <1>6
<1> QED
  BY <1>7, <1>8

LEMMA InitializeTwin ==
  ASSUME NEW a, NEW b, Twin(a, b)
  PROVE  Twin(initialize_contracts(a), initialize_contracts(b))
<1>0. a.number = b.number
  BY TwinSame
<1>1. Len(feynman_contracts_txs) \in Nat /\ Len(genesis_contracts_txs) \in Nat
  BY DEF feynman_contracts_txs, genesis_contracts_txs
<1> DEFINE feynman(x) == IF IsTransition("Feynman", x.number)
                         THEN transact_system_txs(x, feynman_contracts_txs) ELSE x
<1>2. \A x : initialize_contracts(x)
        = IF x.number = 1 THEN transact_system_txs(feynman(x), genesis_contracts_txs) ELSE feynman(x)
  BY DEF initialize_contracts
<1>3. Twin(feynman(a), feynman(b))
  BY <1>0, <1>1, RunTwin
<1> HIDE DEF feynman
<1>4. Twin(transact_system_txs(feynman(a), genesis_contracts_txs),
           transact_system_txs(feynman(b), genesis_contracts_txs))
  BY <1>1, <1>3, RunTwin
<1> QED
  BY <1>0, <1>2, <1>3, <1>4

LEMMA UpgradeTwin ==
  ASSUME NEW a, NEW b, Twin(a, b), NEW begin \in BOOLEAN
  PROVE  Twin(try_update_build_in_system_contract(a, begin), try_update_build_in_system_contract(b, begin))
<1> DEFINE due == begin = ~IsActive("Feynman", a.number - 1)
           w == [a.world EXCEPT !.code = upgrade_system_contract(@, get_upgrade_system_contracts(a.number))]
           up(x) == IF due THEN [x EXCEPT !.world = w] ELSE x
           z == [(IF due THEN w ELSE a.world) EXCEPT !.history_storage = TRUE]
           last(x) == [up(x) EXCEPT !.world = z]
           prague == begin /\ IsPragueTransition(a.number)
<1>0. a.number = b.number /\ a.world = b.world /\ IsExecutor(a) /\ IsExecutor(b)
  BY TwinSame
<1>1. ASSUME NEW x, IsExecutor(x), x.number = a.number, x.world = a.world
      PROVE  try_update_build_in_system_contract(x, begin) = IF prague THEN last(x) ELSE up(x)
  <2> DEFINE c == upgrade_system_contract(x.world.code, get_upgrade_system_contracts(x.number))
             up2 == IF due THEN [x EXCEPT !.world.code = c] ELSE x
  <2>1. try_update_build_in_system_contract(x, begin)
          = IF prague THEN [up2 EXCEPT !.world.history_storage = TRUE] ELSE up2
    BY <1>1 DEF try_update_build_in_system_contract, upgrade_contracts, apply_history_storage_account
  <2>2. up2 = up(x)
    BY <1>1
  <2> HIDE DEF up2
  <2>3. (IF due THEN w ELSE a.world) = up(x).world
    BY <1>1 DEF IsExecutor, WorkFields
  <2>4. [up(x) EXCEPT !.world.history_storage = TRUE] = [up(x) EXCEPT !.world = [up(x).world EXCEPT !.history_storage = TRUE]]
    OBVIOUS
  <2> HIDE DEF w, up, due, prague
  <2> QED
    BY <2>1, <2>2, <2>3, <2>4
<1>2. IsWorld(w) /\ IsWorld(z)
  BY <1>0 DEF IsExecutor, IsWorld
<1> HIDE DEF w, z, due, prague
<1>3. Twin(up(a), up(b))
  <2>1. Twin([a EXCEPT !.world = w], [b EXCEPT !.world = w])
    BY <1>2, TwinPut
  <2> QED
    BY <2>1
<1> HIDE DEF up
<1>4. Twin(last(a), last(b))
  BY <1>2, <1>3, TwinPut
<1> HIDE DEF last
<1> QED
  BY <1>0, <1>1, <1>3, <1>4

\* An entry for the parent is what the contract says.
ParentCached(ex) ==
  ex.parent \in DOMAIN ex.validator_cache => ex.validator_cache[ex.parent] = ex.world.validators

LEMMA CachedTwin ==
  ASSUME NEW a, NEW b, Twin(a, b), NEW k, NEW l
  PROVE  Twin(get_current_validators_with_cache(a, k), get_current_validators_with_cache(b, l))
BY DEF get_current_validators_with_cache, Twin, IsExecutor, SameJob, JobFields, WorkFields,
       CacheFields

LEMMA CheckTwin ==
  ASSUME NEW a, NEW b, Twin(a, b), ParentCached(a), ParentCached(b), NEW block
  PROVE  Twin(check_new_block(a, block), check_new_block(b, block))
<1> DEFINE epoch == a.number % a.snap.epoch_num = 0
           with(x) == get_current_validators_with_cache(x, x.parent)
           put(x) == [with(x) EXCEPT !.current_validators = with(x).validator_cache[x.parent]]
           read(x) == IF epoch THEN put(x) ELSE x
           bad(x) == [x EXCEPT !.err = "attestation"]
           unsealed(x) == [x EXCEPT !.err = "seal"]
<1>0. /\ a.number = b.number /\ a.snap = b.snap /\ a.snaps = b.snaps /\ a.world = b.world
      /\ a.parent = b.parent /\ IsExecutor(a) /\ IsExecutor(b)
  BY TwinSame
<1>1. ASSUME NEW x, x.number = a.number, x.snap = a.snap, x.snaps = a.snaps
      PROVE  check_new_block(x, block) = IF ~verify_vote_attestation(a.snaps, block) THEN bad(x)
                                         ELSE IF ~verify_seal(a.snap, block) THEN unsealed(x)
                                         ELSE read_election_info(read(x))
  BY <1>1 DEF check_new_block, Fail
<1>2. ASSUME NEW x, IsExecutor(x), ParentCached(x)
      PROVE  with(x).validator_cache[x.parent] = x.world.validators
  <2>1. CASE x.parent \in DOMAIN x.validator_cache
    BY <1>2, <2>1 DEF get_current_validators_with_cache, ParentCached
  <2>2. CASE x.parent \notin DOMAIN x.validator_cache
    <3> DEFINE c == Insert(x.validator_cache, x.parent, x.world.validators)
    <3>1. with(x) = [x EXCEPT !.validator_cache = c]
      BY <2>2 DEF get_current_validators_with_cache, get_current_validators
    <3>2. c[x.parent] = x.world.validators
      BY DEF Insert
    <3> HIDE DEF c
    <3>3. with(x).validator_cache = c
      BY <1>2, <3>1 DEF IsExecutor, CacheFields
    <3> QED
      BY <3>2, <3>3
  <2> QED
    BY <2>1, <2>2
<1>3. /\ with(a).validator_cache[a.parent] = a.world.validators
      /\ with(b).validator_cache[b.parent] = b.world.validators
  BY <1>0, <1>2
<1>5. Twin(with(a), with(b))
  BY CachedTwin
<1> HIDE DEF with
<1>6. Twin(put(a), put(b))
  <2> DEFINE v == a.world.validators
  <2>1. Twin([with(a) EXCEPT !.current_validators = v], [with(b) EXCEPT !.current_validators = v])
    BY <1>5, TwinPut
  <2>2. /\ put(a) = [with(a) EXCEPT !.current_validators = v]
        /\ put(b) = [with(b) EXCEPT !.current_validators = v]
    BY <1>0, <1>3
  <2> QED
    BY <2>1, <2>2
<1> HIDE DEF put
<1>7. Twin(read(a), read(b))
  BY <1>6
<1> HIDE DEF read
<1>8. Twin(read_election_info(read(a)), read_election_info(read(b)))
  <2> DEFINE x == read(a)
             y == read(b)
             p == x.world.power
  <2>1. x.number = y.number /\ x.parent = y.parent /\ x.day = y.day /\ x.world = y.world
    BY <1>7, TwinSame
  <2>2. Twin([x EXCEPT !.election_info = p], [y EXCEPT !.election_info = p])
    BY <1>7, TwinPut
  <2>3. /\ read_election_info(x) = IF ElectsValidators(x.number, x.parent, x.day)
                                   THEN [x EXCEPT !.election_info = p] ELSE x
        /\ read_election_info(y) = IF ElectsValidators(x.number, x.parent, x.day)
                                   THEN [y EXCEPT !.election_info = p] ELSE y
    BY <2>1 DEF read_election_info, get_validator_election_info
  <2> HIDE DEF x, y, p
  <2>4. Twin(read_election_info(x), read_election_info(y))
    BY <1>7, <2>2, <2>3 DEF x, y
  <2> QED
    BY <2>4 DEF x, y
<1>9. Twin(bad(a), bad(b)) /\ Twin(unsealed(a), unsealed(b))
  BY TwinPut
<1> HIDE DEF bad, unsealed
<1> QED
  BY <1>0, <1>1, <1>8, <1>9

LEMMA SnapshotTwin ==
  ASSUME NEW a, NEW b, SameJob(a, b), NEW block
  PROVE  SnapshotOf(a, block) = SnapshotOf(b, block)
<1>1. a.number = b.number /\ a.snap = b.snap /\ a.chain = b.chain /\ a.snaps = b.snaps
  BY DEF SameJob, JobFields
<1> QED
  BY <1>1 DEF SnapshotOf

LEMMA CacheStepTwin ==
  ASSUME NEW a, NEW b, Twin(a, b), NEW block
  PROVE  Twin(cache_for_next_epoch(a, block), cache_for_next_epoch(b, block))
<1> DEFINE snap == SnapshotOf(a, block)
           cached(x) == get_current_validators_with_cache(x, block)
           t == a.world.turn
           turned(x) == [cached(x) EXCEPT !.turn_length_cache = Insert(@, block, t)]
           left(x) == [x EXCEPT !.err = "UnexpectedSystemTx"]
           lost(x) == [x EXCEPT !.err = "snapshot"]
           Result(x) == IF ~Ok(a) THEN x
                        ELSE IF a.system_txs # <<>> THEN left(x)
                        ELSE IF snap = NoSnapshot THEN lost(x)
                        ELSE IF (a.number + 1) % snap.epoch_num # 0 THEN x
                        ELSE IF IsBohr(a.number) THEN turned(x) ELSE cached(x)
<1>0. /\ Ok(a) = Ok(b) /\ a.system_txs = b.system_txs /\ a.number = b.number /\ a.world = b.world
      /\ SnapshotOf(b, block) = snap
  BY TwinSame, SnapshotTwin DEF Twin
<1>1. Twin(cached(a), cached(b)) /\ Twin(cached(a), a) /\ Twin(cached(b), b)
  <2>1. Twin(cached(a), cached(b))
    BY CachedTwin
  <2>2. Twin(cached(a), a) /\ Twin(cached(b), b)
    BY DEF get_current_validators_with_cache, Twin, IsExecutor, SameJob, JobFields, WorkFields,
           CacheFields
  <2> QED
    BY <2>1, <2>2
<1>2. ASSUME NEW x, Ok(x) = Ok(a), x.system_txs = a.system_txs, x.number = a.number,
             SnapshotOf(x, block) = snap, cached(x).world = a.world
      PROVE  cache_for_next_epoch(x, block) = Result(x)
  BY <1>2 DEF cache_for_next_epoch, CacheTurnLength, get_turn_length, Fail
<1>3. cached(a).world = a.world /\ cached(b).world = a.world
  BY <1>0, <1>1, TwinSame
<1> HIDE DEF cached, snap
<1>4. Twin(turned(a), turned(b)) /\ Twin(left(a), left(b)) /\ Twin(lost(a), lost(b))
  BY <1>1, TwinPut
<1> HIDE DEF turned, left, lost
<1>5. Twin(Result(a), Result(b))
  BY <1>1, <1>4
<1>6. cache_for_next_epoch(a, block) = Result(a)
  BY <1>2, <1>3 DEF snap
<1>7. cache_for_next_epoch(b, block) = Result(b)
  BY <1>0, <1>2, <1>3
<1> QED
  BY <1>5, <1>6, <1>7

\* What comes of the execution of a block does not depend on what was cached, as long as it
\* was true.
LEMMA ExecutionTwin ==
  ASSUME NEW a, NEW b, Twin(a, b), ParentCached(a), ParentCached(b), ~a.is_miner,
         NEW block, Len(block.txs) \in Nat
  PROVE  Twin(execute_block(a, block), execute_block(b, block))
<1>0. ~b.is_miner
  BY TwinSame
<1>1. Twin(check_new_block(a, block), check_new_block(b, block))
  BY CheckTwin
<1>2. Twin(Begun(a, block), Begun(b, block))
  <2>1. Ok(check_new_block(a, block)) = Ok(check_new_block(b, block))
    BY <1>1, TwinSame
  <2>2. Twin(try_update_build_in_system_contract(check_new_block(a, block), TRUE),
             try_update_build_in_system_contract(check_new_block(b, block), TRUE))
    BY <1>1, UpgradeTwin
  <2> QED
    BY <1>0, <1>1, <2>1, <2>2 DEF Begun, apply_pre_execution_changes, Then
<1>3. Twin(Ran(a, block), Ran(b, block))
  BY <1>2, RunTwin DEF Ran
<1>4. Twin(Gathered(a, block), Gathered(b, block))
  <2>1. Ran(a, block).system_txs = Ran(b, block).system_txs
    BY <1>3, TwinSame
  <2> DEFINE u == Ran(a, block).system_txs \o block.system_txs
  <2>2. Twin([Ran(a, block) EXCEPT !.system_txs = u], [Ran(b, block) EXCEPT !.system_txs = u])
    BY <1>3, TwinPut
  <2>3. /\ Gathered(a, block) = [Ran(a, block) EXCEPT !.system_txs = u]
        /\ Gathered(b, block) = [Ran(b, block) EXCEPT !.system_txs = u]
    BY <2>1 DEF Gathered
  <2> QED
    BY <2>2, <2>3
<1>5. Twin(Upgraded(a, block), Upgraded(b, block))
  BY <1>4, UpgradeTwin DEF Upgraded
<1>6. Twin(Initialized(a, block), Initialized(b, block))
  BY <1>5, InitializeTwin DEF Initialized
<1>7. Twin(Settled(a, block), Settled(b, block))
  BY <1>6, DueTwin DEF Settled
<1>8. Twin(EndOfRole(Initialized(a, block), block), EndOfRole(Initialized(b, block), block))
  <2> DEFINE x == Initialized(a, block)
             y == Initialized(b, block)
             v(z) == [z EXCEPT !.err = "Invalid validators"]
             t(z) == [z EXCEPT !.err = "MismatchingEpochTurnLengthError"]
             c(z) == cache_for_next_epoch(transact_due(z, block.inturn), block)
  <2>1. /\ Ok(x) = Ok(y) /\ x.number = y.number /\ x.snap = y.snap /\ x.world = y.world
        /\ x.current_validators = y.current_validators
    BY <1>6, TwinSame
  <2>2. ~x.is_miner /\ ~y.is_miner
    BY <1>0, StageFacts, TwinSame, <1>6 DEF SameJob, JobFields, Twin
  <2>3. /\ verify_validators(x, block) <=> verify_validators(y, block)
        /\ verify_turn_length(x, block) <=> verify_turn_length(y, block)
    BY <2>1 DEF verify_validators, verify_turn_length
  <2>4. Twin(v(x), v(y)) /\ Twin(t(x), t(y))
    BY <1>6, TwinPut
  <2>5. Twin(c(x), c(y))
    BY <1>7, CacheStepTwin DEF Settled
  <2>6. \A z : ~z.is_miner => EndOfRole(z, block)
                               = IF ~Ok(z) THEN z
                                 ELSE IF ~verify_validators(z, block) THEN v(z)
                                 ELSE IF ~verify_turn_length(z, block) THEN t(z)
                                 ELSE c(z)
    BY DEF EndOfRole, post_check_new_block, Fail
  <2>7. Twin(x, y)
    BY <1>6
  <2> HIDE DEF x, y, v, t, c
  <2>8. Twin(EndOfRole(x, block), EndOfRole(y, block))
    BY <2>1, <2>2, <2>3, <2>4, <2>5, <2>6, <2>7
  <2> QED
    BY <2>8 DEF x, y
<1>9. /\ Ok(Begun(a, block)) = Ok(Begun(b, block)) /\ Ok(Ran(a, block)) = Ok(Ran(b, block))
      /\ Ok(Gathered(a, block)) = Ok(Gathered(b, block))
  BY <1>2, <1>3, <1>4, TwinSame
<1> QED
  BY <1>2, <1>3, <1>4, <1>8, <1>9, Stages

----------------------------------------------------------------------------
(* What an execution leaves in the caches. *)

\* b's cache has a's entries.
Keeps(a, b) == DOMAIN a \subseteq DOMAIN b /\ \A k \in DOMAIN a : b[k] = a[k]

LEMMA CheckedCaches ==
  ASSUME NEW ex, IsExecutor(ex), NEW block
  PROVE  LET c == check_new_block(ex, block)
         IN /\ c.turn_length_cache = ex.turn_length_cache
            /\ Keeps(ex.validator_cache, c.validator_cache)
            /\ DOMAIN c.validator_cache \subseteq DOMAIN ex.validator_cache \cup {ex.parent}
            /\ ex.parent \in DOMAIN c.validator_cache \ DOMAIN ex.validator_cache =>
                 c.validator_cache[ex.parent] = ex.world.validators
<1> DEFINE c == check_new_block(ex, block)
           v == ex.validator_cache
           w == get_current_validators_with_cache(ex, ex.parent).validator_cache
<1>1. c.turn_length_cache = ex.turn_length_cache /\ c.validator_cache \in {v, w}
  BY CheckReads
<1>2. /\ ex.parent \in DOMAIN v => w = v
      /\ ex.parent \notin DOMAIN v => w = Insert(v, ex.parent, ex.world.validators)
  BY DEF get_current_validators_with_cache, get_current_validators, IsExecutor, CacheFields
<1>3. /\ Keeps(v, w) /\ DOMAIN w \subseteq DOMAIN v \cup {ex.parent}
      /\ ex.parent \in DOMAIN w \ DOMAIN v => w[ex.parent] = ex.world.validators
  <2> HIDE DEF v, w
  <2>1. CASE ex.parent \in DOMAIN v
    BY <1>2, <2>1 DEF Keeps
  <2>2. CASE ex.parent \notin DOMAIN v
    <3>1. /\ DOMAIN w = DOMAIN v \cup {ex.parent} /\ w[ex.parent] = ex.world.validators
          /\ \A l \in DOMAIN v \ {ex.parent} : w[l] = v[l]
      BY <1>2, <2>2 DEF Insert
    <3> QED
      BY <2>2, <3>1 DEF Keeps
  <2> QED
    BY <2>1, <2>2
<1>4. Keeps(v, v)
  BY DEF Keeps
<1> HIDE DEF c, v, w
<1> QED
  BY <1>1, <1>3, <1>4 DEF c, v, w

LEMMA CacheStepCaches ==
  ASSUME NEW ex, IsExecutor(ex), NEW block
  PROVE  LET end == cache_for_next_epoch(ex, block)
         IN /\ Keeps(ex.validator_cache, end.validator_cache)
            /\ DOMAIN end.validator_cache \subseteq DOMAIN ex.validator_cache \cup {block}
            /\ block \in DOMAIN end.validator_cache \ DOMAIN ex.validator_cache =>
                 end.validator_cache[block] = ex.world.validators
            /\ DOMAIN end.turn_length_cache \subseteq DOMAIN ex.turn_length_cache \cup {block}
            /\ \A k \in DOMAIN ex.turn_length_cache \ {block} :
                 k \in DOMAIN end.turn_length_cache
                 /\ end.turn_length_cache[k] = ex.turn_length_cache[k]
            /\ Ok(end) /\ (ex.number + 1) % SnapshotOf(ex, block).epoch_num = 0 =>
                 /\ block \in DOMAIN end.validator_cache
                 /\ IsBohr(ex.number) => /\ block \in DOMAIN end.turn_length_cache
                                         /\ end.turn_length_cache[block] = ex.world.turn
<1> DEFINE end == cache_for_next_epoch(ex, block)
           cached == get_current_validators_with_cache(ex, block)
           v == ex.validator_cache
           t == ex.turn_length_cache
           new == Insert(v, block, ex.world.validators)
           turned == CacheTurnLength(cached, block)
<1>1. /\ block \in DOMAIN v => cached = ex
      /\ block \notin DOMAIN v => cached = [ex EXCEPT !.validator_cache = new]
  BY DEF get_current_validators_with_cache, get_current_validators
<1>2. /\ cached.validator_cache = IF block \in DOMAIN v THEN v ELSE new
      /\ cached.turn_length_cache = t /\ cached.world = ex.world /\ IsExecutor(cached)
  <2> HIDE DEF new, cached
  <2> QED
    BY <1>1 DEF IsExecutor, JobFields, WorkFields, CacheFields
<1> HIDE DEF cached
<1>3. /\ turned.validator_cache = cached.validator_cache
      /\ turned.turn_length_cache = Insert(t, block, ex.world.turn)
  BY <1>2 DEF CacheTurnLength, get_turn_length, IsExecutor, CacheFields
<1> DEFINE Cases(x) == IF ~Ok(ex) THEN x = ex
                       ELSE IF ex.system_txs # <<>> THEN x = Fail(ex, "UnexpectedSystemTx")
                       ELSE IF SnapshotOf(ex, block) = NoSnapshot THEN x = Fail(ex, "snapshot")
                       ELSE IF (ex.number + 1) % SnapshotOf(ex, block).epoch_num # 0 THEN x = ex
                       ELSE IF IsBohr(ex.number) THEN x = turned ELSE x = cached
<1>4. Cases(end)
  BY DEF cache_for_next_epoch, cached
<1> HIDE DEF turned, end
<1>5. \A why : why # "" => /\ Fail(ex, why).validator_cache = v /\ Fail(ex, why).turn_length_cache = t
                           /\ ~Ok(Fail(ex, why))
  BY DEF Fail, Ok, IsExecutor, WorkFields, CacheFields
<1>6. CASE end.validator_cache = v /\ end.turn_length_cache = t
           /\ ~(Ok(end) /\ (ex.number + 1) % SnapshotOf(ex, block).epoch_num = 0)
  BY <1>6 DEF Keeps, end
<1>7. CASE end \in {turned, cached} /\ (IsBohr(ex.number) => end = turned)
  <2>1. end.validator_cache = cached.validator_cache
    BY <1>3, <1>7
  <2>2. /\ Keeps(v, end.validator_cache) /\ DOMAIN end.validator_cache = DOMAIN v \cup {block}
        /\ block \notin DOMAIN v => end.validator_cache[block] = ex.world.validators
    <3>1. /\ DOMAIN new = DOMAIN v \cup {block} /\ new[block] = ex.world.validators
          /\ \A l \in DOMAIN v \ {block} : new[l] = v[l]
      BY DEF Insert
    <3> HIDE DEF v, new
    <3> QED
      BY <1>2, <2>1, <3>1 DEF Keeps
  <2>3. end.turn_length_cache \in {t, Insert(t, block, ex.world.turn)}
        /\ (IsBohr(ex.number) => end.turn_length_cache = Insert(t, block, ex.world.turn))
    BY <1>2, <1>3, <1>7
  <2>4. /\ DOMAIN end.turn_length_cache \subseteq DOMAIN t \cup {block}
        /\ \A k \in DOMAIN t \ {block} : k \in DOMAIN end.turn_length_cache
                                         /\ end.turn_length_cache[k] = t[k]
        /\ IsBohr(ex.number) => /\ block \in DOMAIN end.turn_length_cache
                                /\ end.turn_length_cache[block] = ex.world.turn
    <3> DEFINE u == Insert(t, block, ex.world.turn)
    <3>1. /\ DOMAIN u = DOMAIN t \cup {block} /\ u[block] = ex.world.turn
          /\ \A l \in DOMAIN t \ {block} : u[l] = t[l]
      BY DEF Insert
    <3>2. end.turn_length_cache \in {t, u} /\ (IsBohr(ex.number) => end.turn_length_cache = u)
      BY <2>3
    <3> HIDE DEF t, u
    <3> QED
      BY <3>1, <3>2
  <2> QED
    BY <2>2, <2>4 DEF end
<1>8. \/ /\ end.validator_cache = v /\ end.turn_length_cache = t
         /\ ~(Ok(end) /\ (ex.number + 1) % SnapshotOf(ex, block).epoch_num = 0)
      \/ end \in {turned, cached} /\ (IsBohr(ex.number) => end = turned)
  <2>1. CASE end = ex /\ (~Ok(ex) \/ (ex.number + 1) % SnapshotOf(ex, block).epoch_num # 0)
    BY <2>1
  <2>2. CASE end \in {Fail(ex, "UnexpectedSystemTx"), Fail(ex, "snapshot")}
    <3>1. PICK why \in {"UnexpectedSystemTx", "snapshot"} : end = Fail(ex, why)
      BY <2>2
    <3>2. why # ""
      OBVIOUS
    <3>3. end.validator_cache = v /\ end.turn_length_cache = t /\ ~Ok(end)
      BY <1>5, <3>1, <3>2
    <3> QED
      BY <3>3
  <2>3. CASE end = (IF IsBohr(ex.number) THEN turned ELSE cached)
    BY <2>3
  <2>4. \/ end = ex /\ (~Ok(ex) \/ (ex.number + 1) % SnapshotOf(ex, block).epoch_num # 0)
        \/ end = Fail(ex, "UnexpectedSystemTx") \/ end = Fail(ex, "snapshot")
        \/ end = (IF IsBohr(ex.number) THEN turned ELSE cached)
    BY <1>4
  <2> HIDE DEF v, t
  <2> QED
    BY <2>1, <2>2, <2>3, <2>4
<1> QED
  BY <1>6, <1>7, <1>8

\* The caches after an execution.
ExecutedCaches(ex, block, end) ==
  /\ Keeps(ex.validator_cache, end.validator_cache)
  /\ DOMAIN end.validator_cache \subseteq DOMAIN ex.validator_cache \cup {ex.parent, block}
  /\ ex.parent # block /\ ex.parent \in DOMAIN end.validator_cache \ DOMAIN ex.validator_cache =>
       end.validator_cache[ex.parent] = ex.world.validators
  /\ \A k \in DOMAIN ex.turn_length_cache \ {block} :
       k \in DOMAIN end.turn_length_cache /\ end.turn_length_cache[k] = ex.turn_length_cache[k]
  /\ Ok(end) =>
       /\ ex.parent # block /\ block \in DOMAIN end.validator_cache \ DOMAIN ex.validator_cache =>
            end.validator_cache[block] = end.world.validators
       /\ (ex.number + 1) % SnapshotOf(ex, block).epoch_num = 0 =>
            /\ block \in DOMAIN end.validator_cache
            /\ IsBohr(ex.number) => /\ block \in DOMAIN end.turn_length_cache
                                    /\ end.turn_length_cache[block] = end.world.turn

LEMMA CachesOfExecution ==
  ASSUME NEW ex, IsExecutor(ex), ~ex.is_miner, NEW block, Len(block.txs) \in Nat
  PROVE  ExecutedCaches(ex, block, execute_block(ex, block))
<1> DEFINE chk == check_new_block(ex, block)
           beg == Begun(ex, block)
           set == Settled(ex, block)
           ini == Initialized(ex, block)
           end == execute_block(ex, block)
           last == cache_for_next_epoch(set, block)
<1>1. /\ chk.turn_length_cache = ex.turn_length_cache
      /\ Keeps(ex.validator_cache, chk.validator_cache)
      /\ DOMAIN chk.validator_cache \subseteq DOMAIN ex.validator_cache \cup {ex.parent}
      /\ ex.parent \in DOMAIN chk.validator_cache \ DOMAIN ex.validator_cache =>
           chk.validator_cache[ex.parent] = ex.world.validators
  BY CheckedCaches
<1>2. SameCaches(chk, beg)
  <2>1. IsExecutor(chk)
    BY CheckReads DEF Reading
  <2>2. Upgrading(chk, try_update_build_in_system_contract(chk, TRUE))
    BY <2>1, UpgradeFacts
  <2> QED
    BY <2>2, StageFacts DEF Upgrading, SameCaches
<1>3. /\ SameCaches(beg, Ran(ex, block)) /\ SameCaches(beg, Gathered(ex, block))
      /\ SameCaches(beg, ini) /\ SameCaches(beg, set) /\ IsExecutor(ini) /\ IsExecutor(set)
  <2>1. /\ Frame(beg, Ran(ex, block)) /\ Frame(Ran(ex, block), Gathered(ex, block))
        /\ Upgrading(Gathered(ex, block), Upgraded(ex, block))
        /\ Frame(Upgraded(ex, block), ini) /\ Frame(ini, set)
    BY StageFacts
  <2> HIDE DEF beg, ini, set
  <2>2. /\ SameCaches(beg, Ran(ex, block)) /\ SameCaches(Ran(ex, block), Gathered(ex, block))
        /\ SameCaches(Gathered(ex, block), Upgraded(ex, block))
        /\ SameCaches(Upgraded(ex, block), ini) /\ SameCaches(ini, set)
        /\ IsExecutor(ini) /\ IsExecutor(set)
    BY <2>1 DEF Frame, Upgrading
  <2> QED
    BY <2>2 DEF SameCaches
<1>4. \A why : SameCaches(ini, Fail(ini, why)) /\ (why # "" => ~Ok(Fail(ini, why)))
  BY <1>3 DEF SameCaches, Fail, Ok, IsExecutor, CacheFields, WorkFields
<1>5. end = last \/ (SameCaches(chk, end) /\ ~Ok(end))
  <2>1. \/ end \in {beg, Ran(ex, block), Gathered(ex, block)} /\ ~Ok(end)
        \/ end = EndOfRole(ini, block)
    BY Stages
  <2>2. CASE end \in {beg, Ran(ex, block), Gathered(ex, block)} /\ ~Ok(end)
    BY <1>2, <1>3, <2>2 DEF SameCaches
  <2>3. CASE end = EndOfRole(ini, block)
    <3>1. ~ini.is_miner
      BY StageFacts DEF SameJob, JobFields
    <3>2. \/ ~Ok(ini) /\ end = ini
          \/ end \in {Fail(ini, "Invalid validators"), Fail(ini, "MismatchingEpochTurnLengthError")}
          \/ end = last
      BY <2>3, <3>1 DEF EndOfRole, post_check_new_block, Settled
    <3> HIDE DEF end, last, ini, chk, beg, set
    <3>3. SameCaches(chk, ini)
      BY <1>2, <1>3 DEF SameCaches
    <3>4. CASE ~Ok(ini) /\ end = ini
      BY <3>3, <3>4
    <3>5. CASE end \in {Fail(ini, "Invalid validators"), Fail(ini, "MismatchingEpochTurnLengthError")}
      <4>1. SameCaches(ini, end) /\ ~Ok(end)
        BY <1>4, <3>5
      <4> QED
        BY <3>3, <4>1 DEF SameCaches
    <3> QED
      BY <3>2, <3>4, <3>5
  <2> QED
    BY <2>1, <2>2, <2>3
<1>6. CASE SameCaches(chk, end) /\ ~Ok(end)
  <2>1. end.validator_cache = chk.validator_cache /\ end.turn_length_cache = chk.turn_length_cache
    BY <1>6 DEF SameCaches, CacheFields
  <2> HIDE DEF end, chk
  <2> QED
    BY <1>1, <1>6, <2>1 DEF ExecutedCaches, end
<1>7. CASE end = last
  <2>1. set.validator_cache = chk.validator_cache /\ set.turn_length_cache = chk.turn_length_cache
    BY <1>2, <1>3 DEF SameCaches, CacheFields
  <2>2. /\ Keeps(set.validator_cache, last.validator_cache)
        /\ DOMAIN last.validator_cache \subseteq DOMAIN set.validator_cache \cup {block}
        /\ block \in DOMAIN last.validator_cache \ DOMAIN set.validator_cache =>
             last.validator_cache[block] = set.world.validators
        /\ \A k \in DOMAIN set.turn_length_cache \ {block} :
             k \in DOMAIN last.turn_length_cache
             /\ last.turn_length_cache[k] = set.turn_length_cache[k]
        /\ Ok(last) /\ (set.number + 1) % SnapshotOf(set, block).epoch_num = 0 =>
             /\ block \in DOMAIN last.validator_cache
             /\ IsBohr(set.number) => /\ block \in DOMAIN last.turn_length_cache
                                      /\ last.turn_length_cache[block] = set.world.turn
    BY <1>3, CacheStepCaches
  <2>3. set.number = ex.number /\ SnapshotOf(set, block) = SnapshotOf(ex, block)
    <3>1. SameJob(ex, set)
      BY StageFacts
    <3> QED
      BY <3>1, SnapshotTwin DEF SameJob, JobFields
  <2>4. set.world = last.world
    BY <1>3, CacheSteps DEF CacheStep, WorkFields
  <2> HIDE DEF end, chk, set, last
  <2> QED
    BY <1>1, <1>7, <2>1, <2>2, <2>3, <2>4 DEF ExecutedCaches, Keeps, end
<1> QED
  BY <1>5, <1>6, <1>7

----------------------------------------------------------------------------
(* The steps of the nodes. *)

\* What a build starts with after the transactions of the pool.
Packed(ex, pool) == RunAll(Pack, apply_pre_execution_changes(ex, GenesisBlock), pool)

\* A build starts from the executor of a proposer that nothing was done with.
Fresh(ex) ==
  /\ IsExecutor(ex) /\ ex.is_miner /\ ex.txs = <<>>
  /\ ex.shared_validators = {} /\ ex.shared_turn = NoTurn

LEMMA BuildStarts ==
  ASSUME NEW ex, Fresh(ex), NEW pool, Len(pool) \in Nat, NEW votes,
         NEW new \in {build_payload(ex, pool, votes), build_empty_payload(ex, votes)}, Ok(new)
  PROVE  \E start \in {apply_pre_execution_changes(ex, GenesisBlock), Packed(ex, pool)} :
           /\ IsExecutor(start) /\ start.is_miner /\ Ok(start) /\ SameJob(ex, start)
           /\ SameCaches(ex, start) /\ start.shared_validators = {} /\ start.shared_turn = NoTurn
           /\ IsSequence(start.txs) /\ new = builder_finish(start, votes)
<1> DEFINE prep == prepare_new_block(ex)
           beg == apply_pre_execution_changes(ex, GenesisBlock)
           Good(x) == /\ IsExecutor(x) /\ SameJob(ex, x) /\ SameCaches(ex, x)
                      /\ x.shared_validators = {} /\ x.shared_turn = NoTurn /\ IsSequence(x.txs)
<1>1. beg = IF Ok(prep) THEN try_update_build_in_system_contract(prep, TRUE) ELSE prep
  BY DEF apply_pre_execution_changes, Then, Fresh
<1>2. Good(prep)
  BY CheckReads, SequenceEmpty DEF Reading, Fresh, WorkFields
<1>3. Good(beg)
  <2> HIDE DEF prep
  <2>1. Upgrading(prep, try_update_build_in_system_contract(prep, TRUE))
    BY <1>2, UpgradeFacts
  <2> QED
    BY <1>1, <1>2, <2>1 DEF Upgrading, SameJob, SameCaches, WorkFields
<1>4. Good(Packed(ex, pool))
  <2>1. Frame(beg, Packed(ex, pool))
    BY <1>3, RunFrame DEF Packed
  <2> HIDE DEF beg
  <2> QED
    BY <1>3, <2>1 DEF Frame, SameJob, SameCaches
<1>5. \E start \in {beg, Packed(ex, pool)} : Ok(start) /\ new = builder_finish(start, votes)
  <2>1. CASE new = build_empty_payload(ex, votes)
    <3>1. new = IF Ok(beg) THEN builder_finish(beg, votes) ELSE beg
      BY <2>1 DEF build_empty_payload, Then
    <3> QED
      BY <3>1
  <2>2. CASE new = build_payload(ex, pool, votes)
    <3>1. new = IF ~Ok(beg) THEN beg
                ELSE IF Ok(Packed(ex, pool)) THEN builder_finish(Packed(ex, pool), votes)
                ELSE Packed(ex, pool)
      BY <2>2 DEF build_payload, Then, Packed
    <3> QED
      BY <3>1
  <2> QED
    BY <2>1, <2>2
<1>6. \A x : SameJob(ex, x) => x.is_miner
  BY DEF Fresh, SameJob, JobFields
<1> QED
  BY <1>3, <1>4, <1>5, <1>6

LEMMA BuildFacts ==
  ASSUME NEW ex, Fresh(ex), NEW pool, Len(pool) \in Nat, NEW votes,
         NEW new \in {build_payload(ex, pool, votes), build_empty_payload(ex, votes)}, Ok(new)
  PROVE  /\ IsBlock(new.block) /\ new.block.number = ex.number /\ IsSequence(new.block.txs)
         /\ new.block.beneficiary = ex.beneficiary
         /\ new.validator_cache = ex.validator_cache
            \/ new.validator_cache = Insert(ex.validator_cache, new.block, new.world.validators)
         /\ new.turn_length_cache = ex.turn_length_cache
            \/ new.turn_length_cache = Insert(ex.turn_length_cache, new.block, new.world.turn)
<1>1. PICK start \in {apply_pre_execution_changes(ex, GenesisBlock), Packed(ex, pool)} :
           /\ IsExecutor(start) /\ start.is_miner /\ Ok(start) /\ SameJob(ex, start)
           /\ SameCaches(ex, start) /\ start.shared_validators = {} /\ start.shared_turn = NoTurn
           /\ IsSequence(start.txs) /\ new = builder_finish(start, votes)
  BY BuildStarts
<1>2. /\ start.number = ex.number /\ start.beneficiary = ex.beneficiary
      /\ start.validator_cache = ex.validator_cache
      /\ start.turn_length_cache = ex.turn_length_cache
  BY <1>1 DEF SameJob, SameCaches, JobFields, CacheFields
<1>3. /\ IsBlock(new.block) /\ new.block.number = start.number /\ IsSequence(new.block.txs)
      /\ new.block.beneficiary = start.beneficiary
      /\ new.validator_cache = start.validator_cache
         \/ new.validator_cache = Insert(start.validator_cache, new.block, new.world.validators)
      /\ new.turn_length_cache = start.turn_length_cache
         \/ new.turn_length_cache = Insert(start.turn_length_cache, new.block, new.world.turn)
  BY <1>1, BuilderFacts
<1> QED
  BY <1>2, <1>3

----------------------------------------------------------------------------
(* The invariant. *)

ChainOk == IsSequence(chain) /\ Tip.number = Len(chain)

Proposed(block) ==
  IsBlock(block) /\ block.number = Len(chain) + 1 /\ IsSequence(block.txs)

ProposalFields == {"status", "block", "by", "altered", "built", "world"}

ProposalOk ==
  \/ proposal = NoProposal
  \/ /\ ProposalFields \subseteq DOMAIN proposal
     /\ proposal.status \in {"built", "accepted", "rejected"} /\ proposal.altered \in BOOLEAN
     /\ proposal.status = "built" =>
          /\ Proposed(proposal.block) /\ Proposed(proposal.built)
          /\ proposal.altered <=> proposal.block # proposal.built

\* What is cached for the tip is what its state says; other entries are for a block under
\* way, by who built it.
CacheOk(n) ==
  LET v == caches[n].validators
  IN /\ DOMAIN v \subseteq {Tip} \cup IF proposal.status = "built" THEN {proposal.built} ELSE {}
     /\ Tip \in DOMAIN v => v[Tip] = world.validators
     /\ proposal.status = "built" /\ proposal.built \in DOMAIN v =>
          v[proposal.built] = proposal.world.validators

CachesOk ==
  /\ DOMAIN caches = Nodes
  /\ \A n \in Nodes : {"validators", "turn"} \subseteq DOMAIN caches[n] /\ CacheOk(n)

ProductionInv ==
  /\ ChainOk /\ IsWorld(world) /\ CodeAt(world, Len(chain)) /\ ProposalOk /\ CachesOk

LEMMA CodeAtTip == CodeIsLatest <=> CodeAt(world, Len(chain))
BY DEF CodeIsLatest, CodeAt, ShipsBy

LEMMA GenesisFacts ==
  /\ IsBlock(GenesisBlock) /\ GenesisBlock.number = 0
  /\ IsWorld(GenesisWorld) /\ CodeAt(GenesisWorld, 0)
<1> DEFINE extra == Append(ExtraData(0, ValidatorBytes(GenesisValidators, 0), NoTurn, NoVotes),
                           <<"seal", ZeroAddress, None>>)
           plain == [number |-> 0, beneficiary |-> ZeroAddress, inturn |-> FALSE, day |-> 1,
                     extra |-> extra,
                     txs |-> <<>>, system_txs |-> <<>>, gas_used |-> 0, receipts_root |-> <<>>]
           added == ForkFields(0, [number |-> None], <<>>)
<1>1. GenesisBlock = [f \in DOMAIN plain \cup DOMAIN added |-> IF f \in DOMAIN plain THEN plain[f] ELSE added[f]]
  BY DEF GenesisBlock, WithFields
<1>2. DOMAIN added = AddedFields
  BY DEF ForkFields, AddedFields
<1> HIDE DEF added, extra
<1>3. DOMAIN plain = PlainFields /\ plain.number = 0
  BY DEF PlainFields
<1> HIDE DEF plain
<1>4. IsBlock(GenesisBlock)
  BY <1>1, <1>2, <1>3 DEF IsBlock, BlockFields
<1>5. GenesisBlock.number = 0
  BY <1>1, <1>2, <1>3 DEF PlainFields
<1>6. IsWorld(GenesisWorld)
  BY DEF IsWorld, WorldFields, GenesisWorld
<1>7. CodeAt(GenesisWorld, 0)
  <2>1. \A c : ShipsBy(c, 0) = {}
    BY OrderFacts DEF ShipsBy, IsActive
  <2>2. \A c \in Contracts : GenesisWorld.code[c] = "Genesis"
    BY DEF GenesisWorld
  <2>3. GenesisWorld.history_storage = FALSE
    BY DEF GenesisWorld
  <2>4. (0 >= PragueBlock) = FALSE
    BY OrderFacts
  <2> QED
    BY <2>1, <2>2, <2>3, <2>4 DEF CodeAt
<1> QED
  BY <1>4, <1>5, <1>6, <1>7

LEMMA InitInv == Init => ProductionInv
<1> SUFFICES ASSUME Init PROVE ProductionInv
  OBVIOUS
<1>1. Len(chain) = 0 /\ Tip = GenesisBlock /\ IsSequence(chain)
  BY SequenceEmpty DEF Init, Tip, TipOf
<1>2. ChainOk
  BY <1>1, GenesisFacts DEF ChainOk
<1>3. IsWorld(world) /\ CodeAt(world, Len(chain))
  BY <1>1, GenesisFacts DEF Init
<1>4. ProposalOk
  BY DEF Init, ProposalOk
<1>5. CachesOk
  <2>1. \A n \in Nodes : caches[n].validators = <<>> /\ {"validators", "turn"} \subseteq DOMAIN caches[n]
    BY DEF Init, NoCache
  <2>2. DOMAIN <<>> = {}
    OBVIOUS
  <2>3. proposal.status = "none"
    BY DEF Init, NoProposal
  <2>4. DOMAIN caches = Nodes
    BY DEF Init
  <2> QED
    BY <2>1, <2>2, <2>3, <2>4 DEF CachesOk, CacheOk
<1> QED
  BY <1>2, <1>3, <1>4, <1>5 DEF ProductionInv

\* What a proposer does not alter.
SameOffer(a, b) == IsBlock(b) /\ \A f \in {"number", "beneficiary", "txs"} : b[f] = a[f]

LEMMA SealedOffer ==
  ASSUME NEW a, NEW b, SameOffer(a, b), NEW by
  PROVE  SameOffer(a, Sealed(b, by))
<1> DEFINE x == Append(Front(b.extra), seal_header(b, by))
<1>1. Sealed(b, by) = [b EXCEPT !.extra = x]
  BY DEF Sealed
<1> HIDE DEF x
<1> QED
  BY <1>1 DEF SameOffer, IsBlock, BlockFields, PlainFields

LEMMA OtherHeadersOffer ==
  ASSUME NEW block, IsBlock(block), NEW b \in OtherHeaders(block)
  PROVE  SameOffer(block, b)
<1>1. ASSUME NEW u
      PROVE  /\ SameOffer(block, [block EXCEPT !.gas_used = u])
             /\ SameOffer(block, [block EXCEPT !.receipts_root = u])
             /\ SameOffer(block, [block EXCEPT !.inturn = u])
             /\ SameOffer(block, [block EXCEPT !.extra = u])
             /\ SameOffer(block, [block EXCEPT !.base_fee_per_gas = u])
             /\ SameOffer(block, [block EXCEPT !.blob_gas_used = u])
             /\ SameOffer(block, [block EXCEPT !.excess_blob_gas = u])
             /\ SameOffer(block, [block EXCEPT !.parent_beacon_block_root = u])
             /\ SameOffer(block, [block EXCEPT !.requests_hash = u])
  BY DEF SameOffer, IsBlock, BlockFields, PlainFields, AddedFields
<1>2. \E u : \/ b = [block EXCEPT !.gas_used = u]
             \/ b = [block EXCEPT !.receipts_root = u]
             \/ b = [block EXCEPT !.inturn = u]
             \/ b = [block EXCEPT !.extra = u]
             \/ b = [block EXCEPT !.base_fee_per_gas = u]
             \/ b = [block EXCEPT !.blob_gas_used = u]
             \/ b = [block EXCEPT !.excess_blob_gas = u]
             \/ b = [block EXCEPT !.parent_beacon_block_root = u]
             \/ b = [block EXCEPT !.requests_hash = u]
  BY DEF OtherHeaders
<1> QED
  BY <1>1, <1>2

LEMMA AlteredOffer ==
  ASSUME NEW block, IsBlock(block), NEW fault, NEW b \in Altered(block, fault)
  PROVE  SameOffer(block, b)
<1> DEFINE txs == block.system_txs
           receipts(new) == SubSeq(block.receipts_root, 1, Len(block.txs))
                            \o [i \in DOMAIN new |-> SystemGas[new[i].call]]
           sealed(header) == Sealed(header, block.beneficiary)
           changed(new) == [block EXCEPT !.system_txs = Renumbered(new, txs[1].nonce),
                                         !.receipts_root = receipts(new),
                                         !.gas_used = Total(receipts(new))]
           with(new) == sealed(changed(new))
           reworded(bytes, t, att) ==
             [block EXCEPT !.extra = Append(ExtraData(block.number, bytes, t, att), Last(@))]
           saying(bytes, t, att) == sealed(reworded(bytes, t, att))
<1>1. \/ \E new : b = with(new)
      \/ \E bytes, t, att : b = saying(bytes, t, att)
      \/ \E header \in OtherHeaders(block) : b = sealed(header) \/ b = header
  <2>1. CASE fault = "drop"
    <3>1. b \in {with(RemoveAt(txs, i)) : i \in Positions(txs)}
      BY <2>1 DEF Altered
    <3> HIDE DEF with
    <3> QED
      BY <3>1
  <2>2. CASE fault = "repeat"
    <3>1. b \in {with(InsertAt(txs, i, txs[i])) : i \in Positions(txs)}
      BY <2>2 DEF Altered
    <3> HIDE DEF with
    <3> QED
      BY <3>1
  <2>3. CASE fault = "swap"
    <3>1. b \in {with([txs EXCEPT ![i] = txs[i + 1], ![i + 1] = txs[i]]) :
                   i \in Positions(txs) \ {Len(txs)}}
      BY <2>3 DEF Altered
    <3> HIDE DEF with
    <3> QED
      BY <3>1
  <2>4. CASE fault = "value"
    <3>1. b \in {with([txs EXCEPT ![i].value = @ + 1]) : i \in Positions(txs)}
      BY <2>4 DEF Altered
    <3> HIDE DEF with
    <3> QED
      BY <3>1
  <2> DEFINE validators == get_validator_bytes_from_header(block, TipSnap.epoch_num)
             turn == get_turn_length_from_header(block, TipSnap.epoch_num)
             attestation == AttestationIn(snaps, block)
             voters == snaps[Len(chain) - 1].validators
  <2>5. CASE fault = "validators"
    <3>1. b \in {saying(ValidatorBytes(set, block.number), turn, attestation) : set \in {{}, Nodes, {1}}}
      BY <2>5 DEF Altered
    <3> HIDE DEF saying, turn, attestation
    <3> QED
      BY <3>1
  <2>6. CASE fault = "turn"
    <3>1. b \in {saying(validators, t, attestation) : t \in TurnLengths \cup {NoTurn}}
      BY <2>6 DEF Altered
    <3> HIDE DEF saying, validators, attestation
    <3> QED
      BY <3>1
  <2>7. CASE fault = "header"
    BY <2>7 DEF Altered
  <2>8. CASE fault = "forged"
    BY <2>8 DEF Altered
  <2>9. CASE fault = "unsigned"
    <3>1. b \in {saying(validators, turn, [attestation EXCEPT !.voters = Nodes])}
      BY <2>9 DEF Altered
    <3> HIDE DEF saying, validators, turn, attestation
    <3> QED
      BY <3>1
  <2>10. CASE fault = "attested"
    <3>1. b \in {saying(validators, turn, [source |-> TipSnap.vote_data.target, target |-> Len(chain),
                                       voters |-> voters, signers |-> voters])}
      BY <2>10 DEF Altered
    <3> HIDE DEF saying, validators, turn
    <3> QED
      BY <3>1
  <2>11. fault \in {"drop", "repeat", "swap", "value", "validators", "turn", "header", "forged",
                    "unsigned", "attested"}
    BY DEF Altered
  <2> QED
    BY <2>1, <2>2, <2>3, <2>4, <2>5, <2>6, <2>7, <2>8, <2>9, <2>10, <2>11
<1>2. ASSUME NEW new PROVE SameOffer(block, changed(new))
  <2> HIDE DEF receipts, txs
  <2> QED
    BY DEF SameOffer, IsBlock, BlockFields, PlainFields
<1>3. ASSUME NEW bytes, NEW t, NEW att PROVE SameOffer(block, reworded(bytes, t, att))
  BY DEF SameOffer, IsBlock, BlockFields, PlainFields
<1> HIDE DEF changed, reworded
<1>4. CASE \E new : b = with(new)
  BY <1>2, <1>4, SealedOffer
<1>5. CASE \E bytes, t, att : b = saying(bytes, t, att)
  BY <1>3, <1>5, SealedOffer
<1>6. CASE \E header \in OtherHeaders(block) : b = sealed(header) \/ b = header
  BY <1>6, OtherHeadersOffer, SealedOffer
<1> QED
  BY <1>1, <1>4, <1>5, <1>6

\* The executors that nodes start with.
Starts(ex, c, s, w, cache, miner, who, day, env) ==
  /\ IsExecutor(ex) /\ ex.is_miner = miner
  /\ ex.number = Len(c) + 1 /\ ex.beneficiary = who /\ ex.parent = TipOf(c)
  /\ ex.world = w /\ ex.env = env /\ ex.day = day /\ ex.snap = s[Len(c)]
  /\ ex.chain = c /\ ex.snaps = s
  /\ ex.gas_used = 0 /\ ex.receipts = <<>> /\ ex.txs = <<>> /\ ex.system_txs = <<>>
  /\ ex.assembled_system_txs = <<>> /\ ex.err = "" /\ ex.current_validators = {}
  /\ ex.election_info = Zero /\ ex.shared_validators = {} /\ ex.shared_turn = NoTurn
  /\ ex.block = GenesisBlock
  /\ ex.validator_cache = cache.validators /\ ex.turn_length_cache = cache.turn

LEMMA StartFacts ==
  ASSUME NEW c, NEW s, NEW w, NEW cache, NEW miner \in BOOLEAN, NEW who, NEW day, NEW env, IsWorld(w)
  PROVE  LET ex == NewExecutor(c, s, w, cache, miner, who, day, env)
         IN Starts(ex, c, s, w, cache, miner, who, day, env) /\ (miner => ex.is_miner) /\ (~miner => ~ex.is_miner)
<1> DEFINE next == Len(c) + 1
           tip == TipOf(c)
           snap == s[Len(c)]
           empty == {}
           seq == <<>>
           vals == cache.validators
           turns == cache.turn
<1> DEFINE ex == [is_miner |-> miner, number |-> next, beneficiary |-> who, day |-> day,
                  parent |-> tip, env |-> env, chain |-> c, snaps |-> s, snap |-> snap, world |-> w,
                  gas_used |-> 0, receipts |-> seq,
                  txs |-> seq, system_txs |-> seq, assembled_system_txs |-> seq,
                  validator_cache |-> vals, turn_length_cache |-> turns,
                  current_validators |-> empty, election_info |-> Zero,
                  shared_validators |-> empty, shared_turn |-> NoTurn, block |-> GenesisBlock, err |-> ""]
<1>0. NewExecutor(c, s, w, cache, miner, who, day, env) = ex
  BY Zenon DEF NewExecutor
<1> HIDE DEF next, tip, snap, empty, seq, vals, turns
<1>1. /\ ex.is_miner = miner /\ ex.number = next /\ ex.beneficiary = who /\ ex.parent = tip
      /\ ex.world = w /\ ex.env = env /\ ex.day = day /\ ex.snap = snap
  OBVIOUS
<1>2. /\ ex.chain = c /\ ex.snaps = s
      /\ ex.gas_used = 0 /\ ex.receipts = seq /\ ex.txs = seq /\ ex.system_txs = seq
      /\ ex.assembled_system_txs = seq /\ ex.err = "" /\ ex.current_validators = empty
  OBVIOUS
<1>3. /\ ex.election_info = Zero /\ ex.shared_validators = empty /\ ex.shared_turn = NoTurn
      /\ ex.block = GenesisBlock
      /\ ex.validator_cache = vals /\ ex.turn_length_cache = turns
  OBVIOUS
<1>4. JobFields \cup WorkFields \cup CacheFields \subseteq DOMAIN ex
  BY DEF JobFields, WorkFields, CacheFields
<1> HIDE DEF ex
<1>5. IsExecutor(ex)
  BY <1>1, <1>4 DEF IsExecutor
<1>6. (miner => ex.is_miner) /\ (~miner => ~ex.is_miner)
  BY <1>1, Zenon
<1> QED
  BY <1>0, <1>1, <1>2, <1>3, <1>5, <1>6, Zenon DEF Starts, next, tip, snap, empty, seq, vals, turns

LEMMA MiningFacts ==
  ASSUME IsWorld(world), NEW n, NEW day
  PROVE  LET ex == MiningExecutor(n, day)
         IN /\ Fresh(ex) /\ ex.number = Len(chain) + 1 /\ ex.beneficiary = n /\ ex.parent = Tip
            /\ ex.world = world /\ ex.env = next_evm_env(Tip, Len(chain) + 1) /\ ex.snap = TipSnap
            /\ ex.validator_cache = caches[n].validators /\ ex.turn_length_cache = caches[n].turn
<1> DEFINE env == next_evm_env(Tip, Len(chain) + 1)
           ca == caches[n]
<1> HIDE DEF env, ca
<1>0. PICK b \in BOOLEAN : b
  OBVIOUS
<1>1. MiningExecutor(n, day) = NewExecutor(chain, snaps, world, ca, b, n, day, env)
  BY <1>0 DEF MiningExecutor, env, ca
<1> DEFINE ex == NewExecutor(chain, snaps, world, ca, b, n, day, env)
<1>2. Starts(ex, chain, snaps, world, ca, b, n, day, env) /\ ex.is_miner
  BY <1>0, StartFacts, Zenon
<1> HIDE DEF ex
<1>3. Fresh(ex)
  BY <1>2 DEF Fresh, Starts
<1> QED
  BY <1>1, <1>2, <1>3 DEF Starts, Tip, TipSnap, env, ex, ca

Runs(ex, n, block) ==
  /\ IsExecutor(ex) /\ ex.number = Len(chain) + 1
  /\ ex.beneficiary = block.beneficiary /\ ex.parent = Tip /\ ex.world = world
  /\ ex.env = evm_env(block) /\ ex.snap = TipSnap /\ ex.day = block.day
  /\ ex.chain = chain /\ ex.snaps = snaps
  /\ ex.gas_used = 0 /\ ex.receipts = <<>> /\ ex.txs = <<>> /\ ex.system_txs = <<>>
  /\ ex.assembled_system_txs = <<>> /\ ex.err = "" /\ ex.current_validators = {}
  /\ ex.election_info = Zero /\ ex.shared_validators = {} /\ ex.shared_turn = NoTurn
  /\ ex.block = GenesisBlock
  /\ ex.validator_cache = caches[n].validators /\ ex.turn_length_cache = caches[n].turn

LEMMA ExecutorFacts ==
  ASSUME IsWorld(world), NEW n, NEW block
  PROVE  Runs(Executor(n, block), n, block) /\ ~Executor(n, block).is_miner
<1> DEFINE env == evm_env(block)
           ca == caches[n]
           who == block.beneficiary
           day == block.day
<1> HIDE DEF env, ca, who, day
<1>0. PICK b \in BOOLEAN : ~b
  OBVIOUS
<1>1. Executor(n, block) = NewExecutor(chain, snaps, world, ca, b, who, day, env)
  BY <1>0 DEF Executor, env, ca, who, day
<1> DEFINE ex == NewExecutor(chain, snaps, world, ca, b, who, day, env)
<1>2. Starts(ex, chain, snaps, world, ca, b, who, day, env) /\ ~ex.is_miner
  BY <1>0, StartFacts, Zenon
<1> HIDE DEF ex
<1> QED
  BY <1>1, <1>2 DEF Starts, Runs, Tip, TipSnap, env, ex, ca, who, day

LEMMA BuildStep ==
  ASSUME ProductionInv, NEW n \in Nodes, NEW kind \in DOMAIN Pools \cup {"empty"}, NEW voters, NEW day,
         Build(n, kind, voters, day)
  PROVE  ProductionInv'
<1> DEFINE ex == MiningExecutor(n, day)
           votes == VotesOf(voters)
           pool == IF kind = "empty" THEN <<>> ELSE Pools[kind]
<1>1. PICK new \in {build_payload(ex, pool, votes), build_empty_payload(ex, votes)} :
        /\ Ok(new)
        /\ proposal' = [status |-> "built", block |-> new.block, by |-> n, altered |-> FALSE,
                        built |-> new.block, world |-> new.world]
        /\ caches' = [caches EXCEPT ![n] = [validators |-> new.validator_cache,
                                            turn |-> new.turn_length_cache]]
  <2> HIDE DEF ex, votes
  <2> QED
    BY DEF Build, ex, votes
<1>2. proposal.status # "built" /\ UNCHANGED <<chain, snaps, world>>
  BY DEF Build
<1>3. Len(pool) \in Nat
  <2>1. CASE kind = "empty"
    BY <2>1
  <2>2. CASE kind # "empty"
    BY <2>2, ProductionConstants
  <2> QED
    BY <2>1, <2>2
<1>4. /\ Fresh(ex) /\ ex.number = Len(chain) + 1 /\ ex.validator_cache = caches[n].validators
  BY MiningFacts DEF ProductionInv
<1> HIDE DEF ex, pool, votes
<1>5. /\ IsBlock(new.block) /\ new.block.number = Len(chain) + 1 /\ IsSequence(new.block.txs)
      /\ new.validator_cache = caches[n].validators
         \/ new.validator_cache = Insert(caches[n].validators, new.block, new.world.validators)
  BY <1>1, <1>3, <1>4, BuildFacts
<1>6. Tip' = Tip
  BY <1>2 DEF Tip, TipOf
<1>7. new.block # Tip
  <2>1. Tip.number = Len(chain) /\ Len(chain) \in Nat
    BY SequenceAppend DEF ProductionInv, ChainOk
  <2> QED
    BY <1>5, <2>1
<1>8. ChainOk' /\ IsWorld(world)' /\ CodeAt(world, Len(chain))'
  <2>1. ChainOk'
    BY <1>2, <1>6 DEF ProductionInv, ChainOk
  <2>2. IsWorld(world)' /\ CodeAt(world, Len(chain))'
    BY <1>2 DEF ProductionInv
  <2> QED
    BY <2>1, <2>2
<1>9. /\ proposal'.status = "built" /\ proposal'.block = new.block /\ proposal'.built = new.block
      /\ proposal'.altered = FALSE /\ proposal'.world = new.world
      /\ DOMAIN proposal' = ProposalFields
  BY <1>1 DEF ProposalFields
<1>10. ProposalOk'
  <2>1. Proposed(new.block)'
    BY <1>2, <1>5 DEF Proposed
  <2> QED
    BY <1>2, <1>9, <2>1 DEF ProposalOk, Proposed
<1>11. CachesOk'
  <2>1. DOMAIN caches' = Nodes
    BY <1>1 DEF ProductionInv, CachesOk
  <2>2. ASSUME NEW m \in Nodes PROVE ({"validators", "turn"} \subseteq DOMAIN caches[m] /\ CacheOk(m))'
    <3> DEFINE v == caches[m].validators
               u == caches'[m].validators
    <3>1. DOMAIN v \subseteq {Tip} /\ (Tip \in DOMAIN v => v[Tip] = world.validators)
      BY <1>2 DEF ProductionInv, CachesOk, CacheOk
    <3>2. /\ {"validators", "turn"} \subseteq DOMAIN caches'[m]
          /\ u = v \/ u = Insert(v, new.block, new.world.validators)
      <4>1. CASE m = n
        BY <1>1, <1>5, <4>1 DEF ProductionInv, CachesOk
      <4>2. CASE m # n
        BY <1>1, <4>2 DEF ProductionInv, CachesOk
      <4> QED
        BY <4>1, <4>2
    <3>3. /\ DOMAIN u \subseteq {Tip, new.block} /\ (Tip \in DOMAIN u => u[Tip] = world.validators)
          /\ new.block \in DOMAIN u => u[new.block] = new.world.validators
      <4> HIDE DEF v, u
      <4> QED
        BY <1>7, <3>1, <3>2 DEF Insert
    <3> HIDE DEF u
    <3>4. CacheOk(m)'
      BY <1>2, <1>6, <1>9, <3>3 DEF CacheOk, u
    <3> QED
      BY <3>2, <3>4
  <2> QED
    BY <2>1, <2>2 DEF CachesOk
<1> QED
  BY <1>8, <1>10, <1>11 DEF ProductionInv

LEMMA AlterStep ==
  ASSUME ProductionInv, NEW kind, Alter(kind)
  PROVE  ProductionInv'
<1>0. PICK fault \in Faults[kind] : \E block \in Altered(proposal.block, fault) :
        block # proposal.block /\ proposal' = [proposal EXCEPT !.block = block, !.altered = TRUE]
  BY DEF Alter
<1>1. PICK block \in Altered(proposal.block, fault) :
        block # proposal.block /\ proposal' = [proposal EXCEPT !.block = block, !.altered = TRUE]
  BY <1>0
<1>2. /\ proposal.status = "built" /\ ~proposal.altered /\ UNCHANGED <<chain, snaps, world, caches>>
  BY DEF Alter
<1>3. /\ ProposalFields \subseteq DOMAIN proposal /\ Proposed(proposal.block)
      /\ Proposed(proposal.built) /\ proposal.block = proposal.built
  BY <1>2 DEF ProductionInv, ProposalOk, NoProposal
<1>4. SameOffer(proposal.block, block)
  BY <1>1, <1>3, AlteredOffer DEF Proposed
<1>5. Proposed(block)
  BY <1>3, <1>4 DEF Proposed, SameOffer
<1>6. /\ proposal'.status = "built" /\ proposal'.block = block /\ proposal'.built = proposal.built
      /\ proposal'.altered = TRUE /\ proposal'.world = proposal.world
      /\ ProposalFields \subseteq DOMAIN proposal'
  BY <1>1, <1>2, <1>3 DEF ProposalFields
<1>7. Tip' = Tip
  BY <1>2 DEF Tip, TipOf
<1>8. ProposalOk'
  <2>1. Proposed(block)' /\ Proposed(proposal.built)'
    BY <1>2, <1>3, <1>5, <1>6 DEF Proposed
  <2> QED
    BY <1>1, <1>2, <1>3, <1>6, <2>1 DEF ProposalOk, Proposed
<1>9. CachesOk'
  <2>1. ASSUME NEW m \in Nodes PROVE CacheOk(m)'
    BY <1>2, <1>6, <1>7 DEF ProductionInv, CachesOk, CacheOk
  <2> QED
    BY <1>2, <2>1 DEF ProductionInv, CachesOk
<1>10. ChainOk' /\ IsWorld(world)' /\ CodeAt(world, Len(chain))'
  BY <1>2, <1>7 DEF ProductionInv, ChainOk
<1> QED
  BY <1>8, <1>9, <1>10 DEF ProductionInv

LEMMA RestartStep ==
  ASSUME ProductionInv, NEW n, Restart(n)
  PROVE  ProductionInv'
<1>1. /\ caches' = [caches EXCEPT ![n] = NoCache] /\ UNCHANGED <<chain, snaps, world, proposal>>
  BY DEF Restart
<1>2. Tip' = Tip
  BY <1>1 DEF Tip, TipOf
<1>3. ProposalOk'
  BY <1>1 DEF ProductionInv, ProposalOk, Proposed
<1>4. CachesOk'
  <2>1. ASSUME NEW m \in Nodes PROVE ({"validators", "turn"} \subseteq DOMAIN caches[m] /\ CacheOk(m))'
    <3>1. CASE m = n
      <4>1. caches'[m] = NoCache
        BY <1>1, <3>1 DEF ProductionInv, CachesOk
      <4>2. caches'[m].validators = <<>> /\ {"validators", "turn"} \subseteq DOMAIN caches'[m]
        BY <4>1 DEF NoCache
      <4>3. DOMAIN <<>> = {}
        OBVIOUS
      <4> QED
        BY <4>2, <4>3 DEF CacheOk
    <3>2. CASE m # n
      <4>1. caches'[m] = caches[m]
        BY <1>1, <3>2 DEF ProductionInv, CachesOk
      <4> QED
        BY <1>1, <1>2, <4>1 DEF ProductionInv, CachesOk, CacheOk
    <3> QED
      BY <3>1, <3>2
  <2> QED
    BY <1>1, <2>1 DEF ProductionInv, CachesOk
<1>5. ChainOk' /\ IsWorld(world)' /\ CodeAt(world, Len(chain))'
  BY <1>1, <1>2 DEF ProductionInv, ChainOk
<1> QED
  BY <1>3, <1>4, <1>5 DEF ProductionInv

----------------------------------------------------------------------------
(* The execution of a proposal by every node. *)

Executed(n) == execute_block(Executor(n, proposal.block), proposal.block)

LEMMA ExecutorTwin ==
  ASSUME IsWorld(world), NEW m, NEW n, NEW block
  PROVE  Twin(Executor(m, block), Executor(n, block))
<1> DEFINE env == evm_env(block)
           ca == caches[m]
           cb == caches[n]
           who == block.beneficiary
           day == block.day
<1> HIDE DEF env, ca, cb, who, day
<1>0. PICK miner \in BOOLEAN : ~miner
  OBVIOUS
<1>1. /\ Executor(m, block) = NewExecutor(chain, snaps, world, ca, miner, who, day, env)
      /\ Executor(n, block) = NewExecutor(chain, snaps, world, cb, miner, who, day, env)
  BY <1>0 DEF Executor, env, ca, cb, who, day
<1> DEFINE a == NewExecutor(chain, snaps, world, ca, miner, who, day, env)
           b == NewExecutor(chain, snaps, world, cb, miner, who, day, env)
<1>2. /\ Starts(a, chain, snaps, world, ca, miner, who, day, env)
      /\ Starts(b, chain, snaps, world, cb, miner, who, day, env)
  BY StartFacts, Zenon
<1> HIDE DEF a, b
<1>3. Twin(a, b)
  BY <1>2 DEF Starts, Twin, SameJob, JobFields, WorkFields
<1> QED
  BY <1>1, <1>3 DEF a, b

LEMMA ExecutedJob ==
  ASSUME NEW ex, IsExecutor(ex), ~ex.is_miner, NEW block, Len(block.txs) \in Nat,
         Ok(execute_block(ex, block))
  PROVE  SnapshotOf(execute_block(ex, block), block) = SnapshotOf(ex, block)
<1>1. /\ execute_block(ex, block) = cache_for_next_epoch(Settled(ex, block), block)
      /\ SameJob(ex, Settled(ex, block)) /\ IsExecutor(Settled(ex, block))
  BY GoodExecution, StageFacts DEF Frame
<1>2. SameJob(Settled(ex, block), cache_for_next_epoch(Settled(ex, block), block))
  BY <1>1, CacheSteps DEF CacheStep
<1>3. SameJob(ex, execute_block(ex, block))
  BY <1>1, <1>2 DEF SameJob
<1> QED
  BY <1>3, SnapshotTwin

\* What the nodes find, which is the same for all but their caches.
LEMMA ImportFacts ==
  ASSUME ProductionInv, proposal.status = "built", NEW n \in Nodes
  PROVE  /\ \A m \in Nodes : Twin(Executed(m), Executed(n))
         /\ ExecutedCaches(Executor(n, proposal.block), proposal.block, Executed(n))
         /\ Ok(Executed(n)) => /\ CodeAt(Executed(n).world, Len(chain) + 1)
                               /\ IsWorld(Executed(n).world)
                               /\ SnapshotOf(Executed(n), proposal.block)
                                    = SnapshotOf(Executor(n, proposal.block), proposal.block)
<1> DEFINE block == proposal.block
<1>1. Proposed(block)
  BY DEF ProductionInv, ProposalOk, NoProposal
<1>2. Len(block.txs) \in Nat
  BY <1>1 DEF Proposed, IsSequence
<1>3. Len(chain) \in Nat
  BY DEF ProductionInv, ChainOk, IsSequence
<1>4. ASSUME NEW m \in Nodes
      PROVE  /\ IsExecutor(Executor(m, block)) /\ ~Executor(m, block).is_miner
             /\ ParentCached(Executor(m, block))
             /\ Executor(m, block).number = Len(chain) + 1 /\ Executor(m, block).world = world
  <2> DEFINE ex == Executor(m, block)
  <2>1. Runs(ex, m, block) /\ ~ex.is_miner
    BY ExecutorFacts, Zenon DEF ProductionInv
  <2> HIDE DEF ex
  <2> QED
    BY <2>1 DEF Runs, ParentCached, ProductionInv, CachesOk, CacheOk, ex
<1> HIDE DEF block
<1>5. ASSUME NEW m \in Nodes PROVE Twin(Executed(m), Executed(n))
  <2>1. Twin(Executor(m, block), Executor(n, block))
    BY ExecutorTwin DEF ProductionInv
  <2>2. /\ ParentCached(Executor(m, block)) /\ ParentCached(Executor(n, block))
        /\ ~Executor(m, block).is_miner
    BY <1>4
  <2>3. Twin(execute_block(Executor(m, block), block), execute_block(Executor(n, block), block))
    BY <1>2, <2>1, <2>2, ExecutionTwin
  <2> QED
    BY <2>3 DEF Executed, block
<1>6. ExecutedCaches(Executor(n, block), block, Executed(n))
  BY <1>2, <1>4, CachesOfExecution DEF Executed, block
<1>7. ASSUME Ok(Executed(n))
      PROVE  /\ CodeAt(Executed(n).world, Len(chain) + 1) /\ IsWorld(Executed(n).world)
             /\ SnapshotOf(Executed(n), block) = SnapshotOf(Executor(n, block), block)
  <2> DEFINE ex == Executor(n, block)
  <2>1. /\ IsExecutor(ex) /\ ~ex.is_miner /\ ex.number = Len(chain) + 1 /\ ex.world = world
        /\ Executed(n) = execute_block(ex, block)
    BY <1>4 DEF Executed, block
  <2> HIDE DEF ex
  <2>2. CodeAt(ex.world, ex.number - 1) /\ ex.number \in Nat \ {0}
    <3>1. ex.number - 1 = Len(chain)
      BY <1>3, <2>1
    <3> QED
      BY <1>3, <2>1, <3>1 DEF ProductionInv
  <2>3. CodeAt(Executed(n).world, ex.number) /\ IsWorld(Executed(n).world)
    BY <1>2, <1>7, <2>1, <2>2, ExecutedCode
  <2>4. SnapshotOf(Executed(n), block) = SnapshotOf(ex, block)
    BY <1>2, <1>7, <2>1, ExecutedJob
  <2> QED
    BY <2>1, <2>3, <2>4 DEF ex
<1> QED
  BY <1>5, <1>6, <1>7 DEF block

\* The same node says of the proposal what all say.
LEMMA SameVerdict ==
  ASSUME ProductionInv, proposal.status = "built", NEW m \in Nodes, NEW n \in Nodes
  PROVE  /\ Verdict(m, Executed(m)) = Verdict(n, Executed(n))
         /\ Verdict(n, Executed(n)) = "" =>
              Ok(Executed(n)) /\ (~proposal.altered => Executed(n).world = proposal.world)
<1> DEFINE block == proposal.block
           a == Executed(m)
           b == Executed(n)
<1>1. Twin(a, b)
  BY ImportFacts
<1>2. a.err = b.err /\ Ok(a) = Ok(b) /\ a.receipts = b.receipts /\ a.world = b.world
  BY <1>1, TwinSame
<1>3. Executor(m, block).parent = Tip /\ Executor(n, block).parent = Tip
  <2>1. Runs(Executor(m, block), m, block) /\ Runs(Executor(n, block), n, block)
    BY ExecutorFacts, Zenon DEF ProductionInv
  <2> QED
    BY <2>1 DEF Runs
<1> HIDE DEF a, b, block
<1> DEFINE va == validate_block(Executor(m, block), a, block)
           vb == validate_block(Executor(n, block), b, block)
<1>4. va = vb
  BY <1>2, <1>3 DEF validate_block
<1>5. vb = "" => Ok(b)
  BY DEF validate_block, Ok
<1> HIDE DEF va, vb
<1> DEFINE root(v, w) == IF v = "" /\ ~proposal.altered /\ w # proposal.world THEN "state root" ELSE v
<1>6. Verdict(m, a) = root(va, a.world) /\ Verdict(n, b) = root(vb, b.world)
  BY DEF Verdict, va, vb, block
<1>7. root(vb, b.world) = "" => vb = "" /\ (~proposal.altered => b.world = proposal.world)
  OBVIOUS
<1> HIDE DEF root
<1> QED
  BY <1>2, <1>4, <1>5, <1>6, <1>7 DEF a, b

\* The step, with its parts named.
LEMMA ImportParts ==
  ASSUME ProductionInv, Import
  PROVE  /\ proposal.status = "built"
         /\ \A n \in Nodes : verdicts'[n] = (IF submit_built_payload /\ n = proposal.by /\ ~proposal.altered
                                             THEN "" ELSE Verdict(n, Executed(n)))
         /\ DOMAIN caches' = Nodes
         /\ \E one \in Nodes : \E accepted \in BOOLEAN :
              /\ ~(submit_built_payload /\ one = proposal.by /\ ~proposal.altered)
              /\ accepted <=> \A n \in Nodes : verdicts'[n] = ""
              /\ proposal' = [proposal EXCEPT !.status = IF accepted THEN "accepted" ELSE "rejected"]
              /\ \A n \in Nodes :
                   caches'[n] = About(IF submit_built_payload /\ n = proposal.by /\ ~proposal.altered
                                      THEN Executor(n, proposal.block) ELSE Executed(n),
                                      IF accepted THEN proposal.block ELSE Tip)
              /\ chain' = IF accepted THEN Append(chain, proposal.block) ELSE chain
              /\ snaps' = IF accepted
                          THEN Insert(snaps, proposal.block.number, SnapshotOf(Executed(one), proposal.block))
                          ELSE snaps
              /\ world' = IF accepted THEN Executed(one).world ELSE world
              /\ restarted' = IF accepted
                              THEN {n \in restarted : submit_built_payload /\ n = proposal.by /\ ~proposal.altered}
                              ELSE restarted
<1> DEFINE block == proposal.block
           skips(n) == submit_built_payload /\ n = proposal.by /\ ~proposal.altered
           exs == [n \in Nodes |-> Executed(n)]
           said == [n \in Nodes |-> IF skips(n) THEN "" ELSE Verdict(n, exs[n])]
           one == CHOOSE n \in Nodes : ~skips(n)
<1>1. one \in Nodes /\ ~skips(one)
  <2>1. \E n \in Nodes : ~skips(n)
    BY ProductionConstants DEF Nodes
  <2> HIDE DEF skips
  <2> QED
    BY <2>1
<1>2. PICK accepted \in BOOLEAN : accepted <=> \A n \in Nodes : said[n] = ""
  <2> HIDE DEF said
  <2> QED
    OBVIOUS
<1>3. exs = [n \in Nodes |-> execute_block(Executor(n, block), block)]
  BY DEF Executed
<1>4. /\ proposal.status = "built" /\ verdicts' = said
      /\ proposal' = [proposal EXCEPT !.status = IF accepted THEN "accepted" ELSE "rejected"]
      /\ caches' = [n \in Nodes |-> About(IF skips(n) THEN Executor(n, block) ELSE exs[n],
                                          IF accepted THEN block ELSE Tip)]
      /\ chain' = IF accepted THEN Append(chain, block) ELSE chain
      /\ snaps' = IF accepted THEN Insert(snaps, block.number, SnapshotOf(exs[one], block)) ELSE snaps
      /\ world' = IF accepted THEN exs[one].world ELSE world
      /\ restarted' = IF accepted THEN {n \in restarted : skips(n)} ELSE restarted
  <2> DEFINE Body(e, v) ==
               LET acc == \A n \in Nodes : v[n] = ""
                   tip == IF acc THEN block ELSE Tip
               IN /\ verdicts' = v
                  /\ proposal' = [proposal EXCEPT !.status = IF acc THEN "accepted" ELSE "rejected"]
                  /\ caches' = [n \in Nodes |-> About(IF skips(n) THEN Executor(n, block) ELSE e[n], tip)]
                  /\ chain' = IF acc THEN Append(chain, block) ELSE chain
                  /\ snaps' = IF acc THEN Insert(snaps, block.number, SnapshotOf(e[one], block)) ELSE snaps
                  /\ world' = IF acc THEN e[one].world ELSE world
                  /\ restarted' = IF acc THEN {n \in restarted : skips(n)} ELSE restarted
  <2>1. \E e \in {exs} : \E v \in {[n \in Nodes |-> IF skips(n) THEN "" ELSE Verdict(n, e[n])]} : Body(e, v)
    <3>1. \E e \in {[n \in Nodes |-> execute_block(Executor(n, block), block)]} :
            \E v \in {[n \in Nodes |-> IF skips(n) THEN "" ELSE Verdict(n, e[n])]} : Body(e, v)
      BY Zenon DEF Import
    <3> HIDE DEF Body, skips, exs, block
    <3> QED
      BY <1>3, <3>1, Zenon
  <2>2. Body(exs, said)
    <3> HIDE DEF Body
    <3> QED
      BY <2>1, Zenon
  <2>3. proposal.status = "built"
    BY DEF Import
  <2> HIDE DEF said, exs, one, skips, block
  <2>4. CASE accepted
    BY <1>2, <2>2, <2>3, <2>4
  <2>5. CASE ~accepted
    BY <1>2, <2>2, <2>3, <2>5
  <2> QED
    BY <2>4, <2>5, <1>2
<1>5. \A n \in Nodes : exs[n] = Executed(n)
  OBVIOUS
<1>6. \A n \in Nodes : said[n] = IF skips(n) THEN "" ELSE Verdict(n, Executed(n))
  BY <1>5
<1> HIDE DEF exs, said, one
<1> QED
  BY <1>1, <1>2, <1>4, <1>5, <1>6

\* An epoch follows the block that was executed.
EpochFollows(end, block) == (Len(chain) + 2) % SnapshotOf(end, block).epoch_num = 0

\* The caches of a node after the proposal was executed or handed over.
ImportedCaches(end, tip, block, n, skips) ==
  LET v == About(end, tip).validators
      t == About(end, tip).turn
  IN /\ DOMAIN About(end, tip) = {"validators", "turn"} /\ DOMAIN v \subseteq {tip}
     /\ tip = Tip /\ Tip \in DOMAIN v => v[Tip] = world.validators
     /\ tip = block /\ block \in DOMAIN v /\ ~skips /\ Ok(end)
          /\ (~proposal.altered => end.world = proposal.world) =>
          v[block] = end.world.validators
     /\ tip = block /\ block \in DOMAIN v /\ skips => v[block] = proposal.world.validators
     /\ tip = Tip /\ Tip \in DOMAIN caches[n].validators => Tip \in DOMAIN v
     /\ tip = Tip /\ Tip \in DOMAIN caches[n].turn =>
          Tip \in DOMAIN t /\ t[Tip] = caches[n].turn[Tip]
     /\ tip = block /\ ~skips /\ Ok(end) /\ EpochFollows(end, block) =>
          /\ block \in DOMAIN v
          /\ IsBohr(Len(chain) + 1) => block \in DOMAIN t /\ t[block] = end.world.turn

LEMMA ImportCaches ==
  ASSUME ProductionInv, proposal.status = "built", NEW n \in Nodes, NEW skips \in BOOLEAN,
         NEW block, NEW end, NEW tip, block = proposal.block,
         end = (IF skips THEN Executor(n, block) ELSE Executed(n)),
         skips => ~proposal.altered, tip \in {block, Tip}
  PROVE  ImportedCaches(end, tip, block, n, skips)
<1> DEFINE ex == Executor(n, block)
           ev == end.validator_cache
           et == end.turn_length_cache
           v == About(end, tip).validators
           t == About(end, tip).turn
           cv == caches[n].validators
           ct == caches[n].turn
<1>1. Runs(ex, n, block)
  BY ExecutorFacts, Zenon DEF ProductionInv
<1>2. /\ Proposed(block) /\ Proposed(proposal.built) /\ (~proposal.altered => block = proposal.built)
      /\ (proposal.altered => block # proposal.built) /\ proposal.altered \in BOOLEAN
  BY DEF ProductionInv, ProposalOk, NoProposal
<1>3. Len(chain) \in Nat /\ Tip.number = Len(chain)
  BY DEF ProductionInv, ChainOk, IsSequence
<1>4. block # Tip /\ proposal.built # Tip
  BY <1>2, <1>3 DEF Proposed
<1>5. /\ DOMAIN cv \subseteq {Tip, proposal.built} /\ (Tip \in DOMAIN cv => cv[Tip] = world.validators)
      /\ (proposal.built \in DOMAIN cv => cv[proposal.built] = proposal.world.validators)
  BY DEF ProductionInv, CachesOk, CacheOk
<1>6. /\ v = Restrict(ev, DOMAIN ev \cap {tip}) /\ t = Restrict(et, DOMAIN et \cap {tip})
      /\ DOMAIN About(end, tip) = {"validators", "turn"}
  BY DEF About
<1>7. /\ DOMAIN v = DOMAIN ev \cap {tip} /\ \A k \in DOMAIN v : v[k] = ev[k]
      /\ DOMAIN t = DOMAIN et \cap {tip} /\ \A k \in DOMAIN t : t[k] = et[k]
  BY <1>6 DEF Restrict
<1>8. ~skips => ExecutedCaches(ex, block, end)
  BY ImportFacts
<1>9. skips => ev = cv /\ et = ct /\ block = proposal.built
  BY <1>1, <1>2 DEF Runs
<1>10. /\ ex.validator_cache = cv /\ ex.turn_length_cache = ct /\ ex.parent = Tip
       /\ ex.world = world /\ ex.number = Len(chain) + 1
  BY <1>1 DEF Runs
<1> HIDE DEF ex, ev, et, v, t, cv, ct
<1>11. ~skips =>
         /\ DOMAIN cv \subseteq DOMAIN ev /\ \A k \in DOMAIN cv : ev[k] = cv[k]
         /\ Tip \in DOMAIN ev \ DOMAIN cv => ev[Tip] = world.validators
         /\ \A k \in DOMAIN ct \ {block} : k \in DOMAIN et /\ et[k] = ct[k]
         /\ Ok(end) /\ block \in DOMAIN ev \ DOMAIN cv => ev[block] = end.world.validators
  BY <1>4, <1>8, <1>10 DEF ExecutedCaches, Keeps, ev, et
<1>12. (tip = Tip /\ Tip \in DOMAIN v => v[Tip] = world.validators)
       /\ (tip = Tip /\ Tip \in DOMAIN cv => Tip \in DOMAIN v)
       /\ (tip = Tip /\ Tip \in DOMAIN ct => Tip \in DOMAIN t /\ t[Tip] = ct[Tip])
  BY <1>4, <1>5, <1>7, <1>9, <1>11
<1>13. tip = block /\ block \in DOMAIN v /\ ~skips /\ Ok(end)
         /\ (~proposal.altered => end.world = proposal.world) => v[block] = end.world.validators
  BY <1>2, <1>4, <1>5, <1>7, <1>11
<1>14. tip = block /\ block \in DOMAIN v /\ skips => v[block] = proposal.world.validators
  BY <1>5, <1>7, <1>9
<1>15. ASSUME tip = block, ~skips, Ok(end), EpochFollows(end, block)
       PROVE  /\ block \in DOMAIN v
              /\ IsBohr(Len(chain) + 1) => block \in DOMAIN t /\ t[block] = end.world.turn
  <2>1. end = Executed(n) /\ SnapshotOf(end, block) = SnapshotOf(ex, block)
    BY <1>15, ImportFacts DEF ex
  <2>2. ex.number + 1 = Len(chain) + 2
    BY <1>3, <1>10
  <2>3. (ex.number + 1) % SnapshotOf(ex, block).epoch_num = 0
    BY <1>15, <2>1, <2>2 DEF EpochFollows
  <2>4. /\ block \in DOMAIN ev
        /\ IsBohr(ex.number) => block \in DOMAIN et /\ et[block] = end.world.turn
    BY <1>8, <1>15, <2>3 DEF ExecutedCaches, ev, et
  <2> QED
    BY <1>7, <1>10, <1>15, <2>4
<1> QED
  BY <1>6, <1>7, <1>12, <1>13, <1>14, <1>15 DEF ImportedCaches, v, t, cv, ct

\* What the step leaves: the proposal is the new tip, or nothing but the caches changed.
LEMMA ImportResult ==
  ASSUME ProductionInv, Import
  PROVE  \E one \in Nodes :
           LET block == proposal.block
               skips(n) == submit_built_payload /\ n = proposal.by /\ ~proposal.altered
               end(n) == IF skips(n) THEN Executor(n, block) ELSE Executed(n)
           IN /\ proposal.status = "built" /\ ~skips(one) /\ DOMAIN caches' = Nodes
              /\ \A n \in Nodes : verdicts'[n] = IF skips(n) THEN "" ELSE Verdict(one, Executed(one))
              /\ \/ /\ chain' = Append(chain, block) /\ Tip' = block /\ world' = Executed(one).world
                    /\ TipSnap' = SnapshotOf(Executed(one), block) /\ Ok(Executed(one))
                    /\ ~proposal.altered => Executed(one).world = proposal.world
                    /\ Verdict(one, Executed(one)) = ""
                    /\ proposal' = [proposal EXCEPT !.status = "accepted"]
                    /\ \A n \in Nodes : caches'[n] = About(end(n), block)
                 \/ /\ UNCHANGED <<chain, snaps, world, restarted>> /\ Tip' = Tip
                    /\ proposal' = [proposal EXCEPT !.status = "rejected"]
                    /\ \A n \in Nodes : caches'[n] = About(end(n), Tip)
<1> DEFINE block == proposal.block
           skips(n) == submit_built_payload /\ n = proposal.by /\ ~proposal.altered
           end(n) == IF skips(n) THEN Executor(n, block) ELSE Executed(n)
           Parts(one, accepted) ==
              /\ ~skips(one)
              /\ accepted <=> \A n \in Nodes : verdicts'[n] = ""
              /\ proposal' = [proposal EXCEPT !.status = IF accepted THEN "accepted" ELSE "rejected"]
              /\ \A n \in Nodes : caches'[n] = About(end(n), IF accepted THEN block ELSE Tip)
              /\ chain' = IF accepted THEN Append(chain, block) ELSE chain
              /\ snaps' = IF accepted
                          THEN Insert(snaps, block.number, SnapshotOf(Executed(one), block))
                          ELSE snaps
              /\ world' = IF accepted THEN Executed(one).world ELSE world
              /\ restarted' = IF accepted THEN {n \in restarted : skips(n)} ELSE restarted
<1>1. /\ proposal.status = "built" /\ DOMAIN caches' = Nodes
      /\ \A n \in Nodes : verdicts'[n] = IF skips(n) THEN "" ELSE Verdict(n, Executed(n))
      /\ \E one \in Nodes : \E accepted \in BOOLEAN : Parts(one, accepted)
  BY ImportParts
<1> HIDE DEF Parts
<1>2. PICK one \in Nodes : \E accepted \in BOOLEAN : Parts(one, accepted)
  BY <1>1
<1>3. PICK accepted \in BOOLEAN : Parts(one, accepted)
  BY <1>2
<1>4. ~skips(one)
  BY <1>3 DEF Parts
<1>5. \A n \in Nodes : Verdict(n, Executed(n)) = Verdict(one, Executed(one))
  BY <1>1, SameVerdict
<1> HIDE DEF skips
<1>6. \A n \in Nodes : verdicts'[n] = IF skips(n) THEN "" ELSE Verdict(one, Executed(one))
  BY <1>1, <1>5
<1> HIDE DEF end
<1>7. CASE accepted
  <2>1. /\ \A n \in Nodes : verdicts'[n] = ""
        /\ proposal' = [proposal EXCEPT !.status = "accepted"]
        /\ \A n \in Nodes : caches'[n] = About(end(n), block)
        /\ chain' = Append(chain, block)
        /\ snaps' = Insert(snaps, block.number, SnapshotOf(Executed(one), block))
        /\ world' = Executed(one).world
    BY <1>3, <1>7 DEF Parts
  <2>2. Verdict(one, Executed(one)) = ""
    BY <1>4, <1>6, <2>1
  <2>3. Ok(Executed(one)) /\ (~proposal.altered => Executed(one).world = proposal.world)
    BY <1>1, <2>2, SameVerdict
  <2>4. Proposed(block)
    <3>0. proposal.status = "built"
      BY DEF Import
    <3> QED
      BY <3>0 DEF ProductionInv, ProposalOk, NoProposal
  <2> HIDE DEF block
  <2>5. Len(chain) \in Nat /\ Len(chain') = Len(chain) + 1 /\ Last(chain') = block /\ chain' # <<>>
    BY <2>1, SequenceAppend DEF ProductionInv, ChainOk
  <2>6. Tip' = block
    BY <2>5 DEF Tip, TipOf
  <2>7. block.number = Len(chain')
    BY <2>4, <2>5 DEF Proposed
  <2>8. TipSnap' = SnapshotOf(Executed(one), block)
    <3> DEFINE new == SnapshotOf(Executed(one), block)
    <3> HIDE DEF new
    <3>1. snaps' = Insert(snaps, Len(chain'), new)
      BY <2>1, <2>7 DEF new
    <3>2. snaps'[Len(chain')] = new
      BY <3>1 DEF Insert
    <3> QED
      BY <3>2 DEF TipSnap, new
  <2> QED
    BY <1>1, <1>4, <1>6, <2>1, <2>2, <2>3, <2>6, <2>8 DEF block, skips, end
<1>8. CASE ~accepted
  <2>1. /\ proposal' = [proposal EXCEPT !.status = "rejected"]
        /\ \A n \in Nodes : caches'[n] = About(end(n), Tip)
        /\ UNCHANGED <<chain, snaps, world, restarted>>
    BY <1>3, <1>8 DEF Parts
  <2>2. Tip' = Tip
    BY <2>1 DEF Tip, TipOf
  <2> QED
    BY <1>1, <1>4, <1>6, <2>1, <2>2 DEF skips, end
<1> QED
  BY <1>7, <1>8

LEMMA ImportStep ==
  ASSUME ProductionInv, Import
  PROVE  ProductionInv'
<1> DEFINE block == proposal.block
           skips(n) == submit_built_payload /\ n = proposal.by /\ ~proposal.altered
           end(n) == IF skips(n) THEN Executor(n, block) ELSE Executed(n)
           Accepts(one) ==
             /\ chain' = Append(chain, block) /\ Tip' = block /\ world' = Executed(one).world
             /\ Ok(Executed(one)) /\ (~proposal.altered => Executed(one).world = proposal.world)
             /\ proposal' = [proposal EXCEPT !.status = "accepted"]
             /\ \A n \in Nodes : caches'[n] = About(end(n), block)
           Rejects ==
             /\ UNCHANGED <<chain, world>> /\ Tip' = Tip
             /\ proposal' = [proposal EXCEPT !.status = "rejected"]
             /\ \A n \in Nodes : caches'[n] = About(end(n), Tip)
<1>1. PICK one \in Nodes : DOMAIN caches' = Nodes /\ ~skips(one) /\ (Accepts(one) \/ Rejects)
  BY ImportResult
<1>2. proposal.status = "built"
  BY DEF Import
<1>3. ProposalFields \subseteq DOMAIN proposal /\ Proposed(block) /\ proposal.altered \in BOOLEAN
  BY <1>2 DEF ProductionInv, ProposalOk, NoProposal
<1>4. ASSUME NEW n \in Nodes
      PROVE  /\ DOMAIN About(end(n), Tip) = {"validators", "turn"}
             /\ DOMAIN About(end(n), Tip).validators \subseteq {Tip}
             /\ Tip \in DOMAIN About(end(n), Tip).validators =>
                  About(end(n), Tip).validators[Tip] = world.validators
  <2> DEFINE e == end(n)
  <2>1. PICK k \in BOOLEAN : /\ (k <=> skips(n)) /\ (k => ~proposal.altered)
                            /\ e = IF k THEN Executor(n, block) ELSE Executed(n)
    BY <1>3, ProductionConstants
  <2> HIDE DEF e, skips
  <2>2. /\ DOMAIN About(e, Tip) = {"validators", "turn"}
        /\ DOMAIN About(e, Tip).validators \subseteq {Tip}
        /\ Tip \in DOMAIN About(e, Tip).validators => About(e, Tip).validators[Tip] = world.validators
    <3>1. ImportedCaches(e, Tip, block, n, k)
      BY <1>2, <2>1, ImportCaches
    <3> QED
      BY <3>1 DEF ImportedCaches
  <2> QED
    BY <2>2 DEF e
<1>5. ASSUME NEW n \in Nodes, Ok(Executed(n)), ~proposal.altered => Executed(n).world = proposal.world
      PROVE  /\ DOMAIN About(end(n), block) = {"validators", "turn"}
             /\ DOMAIN About(end(n), block).validators \subseteq {block}
             /\ block \in DOMAIN About(end(n), block).validators =>
                  About(end(n), block).validators[block] = Executed(n).world.validators
  <2> DEFINE e == end(n)
  <2>1. PICK k \in BOOLEAN : /\ (k <=> skips(n)) /\ (k => ~proposal.altered)
                            /\ e = IF k THEN Executor(n, block) ELSE Executed(n)
    BY <1>3, ProductionConstants
  <2> HIDE DEF e, skips
  <2>3. /\ DOMAIN About(e, block) = {"validators", "turn"}
        /\ DOMAIN About(e, block).validators \subseteq {block}
        /\ block \in DOMAIN About(e, block).validators /\ k =>
             About(e, block).validators[block] = proposal.world.validators
        /\ block \in DOMAIN About(e, block).validators /\ ~k /\ Ok(e)
             /\ (~proposal.altered => e.world = proposal.world) =>
             About(e, block).validators[block] = e.world.validators
    <3>1. ImportedCaches(e, block, block, n, k)
      BY <1>2, <2>1, ImportCaches
    <3> QED
      BY <3>1 DEF ImportedCaches
  <2> QED
    BY <1>5, <2>1, <2>3 DEF e
<1>6. ASSUME NEW n \in Nodes
      PROVE  Executed(n).world = Executed(one).world /\ Ok(Executed(n)) = Ok(Executed(one))
  BY <1>2, ImportFacts, TwinSame
<1> HIDE DEF end
<1>7. ProposalOk'
  BY <1>1, <1>2, <1>3 DEF ProposalOk, ProposalFields
<1>8. CASE Accepts(one)
  <2>1. ChainOk'
    <3>1. IsSequence(chain') /\ Len(chain') = Len(chain) + 1
      BY <1>8, SequenceAppend DEF ProductionInv, ChainOk
    <3> QED
      BY <1>3, <1>8, <3>1 DEF ChainOk, Proposed
  <2>2. IsWorld(world)' /\ CodeAt(world, Len(chain))'
    <3>1. Len(chain') = Len(chain) + 1
      BY <1>8, SequenceAppend DEF ProductionInv, ChainOk
    <3>2. CodeAt(Executed(one).world, Len(chain) + 1) /\ IsWorld(Executed(one).world)
      BY <1>2, <1>8, ImportFacts
    <3> QED
      BY <1>8, <3>1, <3>2
  <2>3. CachesOk'
    <3>1. ASSUME NEW n \in Nodes PROVE ({"validators", "turn"} \subseteq DOMAIN caches[n] /\ CacheOk(n))'
      <4>1. /\ DOMAIN caches'[n] = {"validators", "turn"}
            /\ DOMAIN caches'[n].validators \subseteq {Tip'}
            /\ Tip' \in DOMAIN caches'[n].validators => caches'[n].validators[Tip'] = world'.validators
        <5>1. Ok(Executed(n)) /\ (~proposal.altered => Executed(n).world = proposal.world)
          BY <1>6, <1>8
        <5> QED
          BY <1>5, <1>6, <1>8, <5>1
      <4>2. proposal'.status = "accepted"
        BY <1>3, <1>8 DEF ProposalFields
      <4> HIDE <1>8
      <4> QED
        BY <4>1, <4>2 DEF CacheOk
    <3> QED
      BY <1>1, <3>1 DEF CachesOk
  <2> QED
    BY <1>7, <2>1, <2>2, <2>3 DEF ProductionInv
<1>9. CASE Rejects
  <2>1. ChainOk' /\ IsWorld(world)' /\ CodeAt(world, Len(chain))'
    BY <1>9 DEF ProductionInv, ChainOk
  <2>2. CachesOk'
    <3>1. ASSUME NEW n \in Nodes PROVE ({"validators", "turn"} \subseteq DOMAIN caches[n] /\ CacheOk(n))'
      <4>1. /\ DOMAIN caches'[n] = {"validators", "turn"}
            /\ DOMAIN caches'[n].validators \subseteq {Tip'}
            /\ Tip' \in DOMAIN caches'[n].validators => caches'[n].validators[Tip'] = world'.validators
        BY <1>4, <1>9
      <4>2. proposal'.status = "rejected"
        BY <1>3, <1>9 DEF ProposalFields
      <4> QED
        BY <4>1, <4>2 DEF CacheOk
    <3> QED
      BY <1>1, <3>1 DEF CachesOk
  <2> QED
    BY <1>7, <2>1, <2>2 DEF ProductionInv
<1> QED
  BY <1>1, <1>8, <1>9

LEMMA ProductionStep == ProductionInv /\ [Next]_vars => ProductionInv'
<1> SUFFICES ASSUME ProductionInv, [Next]_vars PROVE ProductionInv'
  OBVIOUS
<1>1. CASE UNCHANGED vars
  BY <1>1 DEF vars, ProductionInv, ChainOk, ProposalOk, Proposed, CachesOk, CacheOk, Tip, TipOf
<1>2. CASE \E n \in Nodes, kind \in DOMAIN Pools \cup {"empty"}, voters \in VoterSets,
              day \in {Tip.day, Tip.day + 1} : Build(n, kind, voters, day)
  BY <1>2, BuildStep
<1>3. CASE \E kind \in DOMAIN Faults : Alter(kind)
  BY <1>3, AlterStep
<1>4. CASE Import
  BY <1>4, ImportStep
<1>5. CASE \E n \in Restarting : Restart(n)
  BY <1>5, RestartStep
<1> QED
  BY <1>1, <1>2, <1>3, <1>4, <1>5 DEF Next

LEMMA ProductionInvariant == Spec => []ProductionInv
BY InitInv, ProductionStep, PTL DEF Spec

----------------------------------------------------------------------------
\* try_update_build_in_system_contract: after every block, by whichever of its two calls and
\* for every order of the forks that UpgradesInOrder allows, the code of the contracts is
\* that of the last fork that ships some. Holds also for blocks that a proposer altered,
\* and for a node that does not execute what it mined.
THEOREM CodeFollowsTheForks == Spec => []CodeIsLatest
<1>1. ProductionInv => CodeIsLatest
  BY CodeAtTip DEF ProductionInv
<1> QED
  BY <1>1, ProductionInvariant, PTL

LEMMA VerdictStep ==
  ASSUME ~submit_built_payload, ProductionInv, VerdictsAgree, [Next]_vars
  PROVE  VerdictsAgree'
<1>1. CASE Import
  <2>1. PICK one \in Nodes : \A n \in Nodes :
          verdicts'[n] = IF submit_built_payload /\ n = proposal.by /\ ~proposal.altered
                         THEN "" ELSE Verdict(one, Executed(one))
    BY <1>1, ImportResult
  <2>2. \A n \in Nodes : verdicts'[n] = Verdict(one, Executed(one))
    BY <2>1
  <2> QED
    BY <2>2 DEF VerdictsAgree
<1>2. ASSUME NEW n, NEW kind, NEW voters, NEW day, Build(n, kind, voters, day) PROVE ~Judged'
  <2>1. proposal'.status = "built"
    <3> DEFINE Made(ex) == proposal' = [status |-> "built", block |-> ex.block, by |-> n, altered |-> FALSE,
                                        built |-> ex.block, world |-> ex.world]
    <3>1. \E ex : Made(ex)
      BY <1>2, Zenon DEF Build
    <3> QED
      BY <3>1
  <2> QED
    BY <2>1 DEF Judged
<1>3. ASSUME NEW kind, Alter(kind) PROVE ~Judged'
  <2>1. PICK fault, block : proposal' = [proposal EXCEPT !.block = block, !.altered = TRUE]
    BY <1>3 DEF Alter
  <2>2. proposal.status = "built"
    BY <1>3 DEF Alter
  <2>3. "status" \in DOMAIN proposal
    BY <2>2 DEF ProductionInv, ProposalOk, NoProposal, ProposalFields
  <2> QED
    BY <2>1, <2>2, <2>3 DEF Judged
<1>4. ASSUME NEW n, Restart(n) PROVE VerdictsAgree'
  BY <1>4 DEF Restart, VerdictsAgree, Judged
<1>5. CASE UNCHANGED vars
  BY <1>5 DEF vars, VerdictsAgree, Judged
<1> QED
  BY <1>1, <1>2, <1>3, <1>4, <1>5 DEF Next, VerdictsAgree

\* check_new_block, post_check_new_block: what a node finds in a block that it executes, built by
\* whomever and altered or not, does not depend on what it cached, built or forgot before.
\* The proviso is that every node executes the block, which the one that mined it does
\* unless it may submit its payload as it is.
THEOREM NodesNeverPart ==
  ASSUME ~submit_built_payload
  PROVE  Spec => []VerdictsAgree
<1>1. Init => VerdictsAgree
  <2>1. Init => proposal.status = "none"
    BY DEF Init, NoProposal
  <2> QED
    BY <2>1 DEF VerdictsAgree, Judged
<1>2. ProductionInv /\ VerdictsAgree /\ [Next]_vars => VerdictsAgree'
  BY VerdictStep
<1> QED
  BY <1>1, <1>2, ProductionInvariant, PTL DEF Spec

LEMMA BuildKeeps ==
  ASSUME ProductionInv, NEW n \in Nodes, NEW kind \in DOMAIN Pools \cup {"empty"}, NEW voters, NEW day,
         Build(n, kind, voters, day), NEW m \in Nodes
  PROVE  /\ Tip \in DOMAIN caches[m].validators =>
              /\ Tip \in DOMAIN caches'[m].validators
              /\ caches'[m].validators[Tip] = caches[m].validators[Tip]
         /\ Tip \in DOMAIN caches[m].turn =>
              Tip \in DOMAIN caches'[m].turn /\ caches'[m].turn[Tip] = caches[m].turn[Tip]
<1> DEFINE ex == MiningExecutor(n, day)
           votes == VotesOf(voters)
           pool == IF kind = "empty" THEN <<>> ELSE Pools[kind]
<1>1. PICK new \in {build_payload(ex, pool, votes), build_empty_payload(ex, votes)} :
        /\ Ok(new)
        /\ caches' = [caches EXCEPT ![n] = [validators |-> new.validator_cache,
                                            turn |-> new.turn_length_cache]]
  <2> HIDE DEF ex, votes
  <2> QED
    BY DEF Build, ex, votes
<1>2. Len(pool) \in Nat
  <2>1. CASE kind = "empty"
    BY <2>1
  <2>2. CASE kind # "empty"
    BY <2>2, ProductionConstants
  <2> QED
    BY <2>1, <2>2
<1>3. /\ Fresh(ex) /\ ex.number = Len(chain) + 1 /\ ex.validator_cache = caches[n].validators
      /\ ex.turn_length_cache = caches[n].turn
  BY MiningFacts DEF ProductionInv
<1> HIDE DEF ex, pool, votes
<1>4. /\ new.block.number = Len(chain) + 1
      /\ new.validator_cache = caches[n].validators
         \/ new.validator_cache = Insert(caches[n].validators, new.block, new.world.validators)
      /\ new.turn_length_cache = caches[n].turn
         \/ new.turn_length_cache = Insert(caches[n].turn, new.block, new.world.turn)
  BY <1>1, <1>2, <1>3, BuildFacts
<1>5. new.block # Tip
  <2>1. Tip.number = Len(chain) /\ Len(chain) \in Nat
    BY SequenceAppend DEF ProductionInv, ChainOk
  <2> QED
    BY <1>4, <2>1
<1>6. CASE m = n
  <2>1. caches'[m].validators = new.validator_cache /\ caches'[m].turn = new.turn_length_cache
    BY <1>1, <1>6 DEF ProductionInv, CachesOk
  <2> QED
    BY <1>4, <1>5, <1>6, <2>1 DEF Insert
<1>7. CASE m # n
  BY <1>1, <1>7 DEF ProductionInv, CachesOk
<1> QED
  BY <1>6, <1>7

LEMMA PreparedStep ==
  ASSUME ~submit_built_payload, ProductionInv, ProductionInv', EpochPrepared, [Next]_vars
  PROVE  EpochPrepared'
<1>0. Len(chain) \in Nat /\ Tip.number = Len(chain)
  BY SequenceAppend DEF ProductionInv, ChainOk
<1>1. CASE Import
  <2> DEFINE block == proposal.block
             Accepts(one) ==
               /\ chain' = Append(chain, block) /\ Tip' = block /\ world' = Executed(one).world
               /\ TipSnap' = SnapshotOf(Executed(one), block) /\ Ok(Executed(one))
               /\ \A n \in Nodes : caches'[n] = About(Executed(n), block)
             Rejects ==
               /\ UNCHANGED <<chain, snaps, world, restarted>> /\ Tip' = Tip
               /\ \A n \in Nodes : caches'[n] = About(Executed(n), Tip)
  <2>1. PICK one \in Nodes : Accepts(one) \/ Rejects
    BY <1>1, ImportResult
  <2>2. proposal.status = "built"
    BY <1>1 DEF Import
  <2>3. PICK no \in BOOLEAN : ~no /\ (no => ~proposal.altered)
    OBVIOUS
  <2>4. CASE Accepts(one)
    <3> SUFFICES ASSUME (Len(chain') + 1) % TipSnap'.epoch_num = 0, NEW n \in Nodes
                 PROVE  /\ Tip' \in DOMAIN caches'[n].validators
                        /\ caches'[n].validators[Tip'] = world'.validators
                        /\ IsBohr(Len(chain')) => /\ Tip' \in DOMAIN caches'[n].turn
                                                  /\ caches'[n].turn[Tip'] = world'.turn
      BY DEF EpochPrepared
    <3>1. Len(chain') = Len(chain) + 1 /\ Len(chain') + 1 = Len(chain) + 2
      BY <1>0, <2>4, SequenceAppend DEF ProductionInv, ChainOk
    <3>2. Twin(Executed(one), Executed(n)) /\ SameJob(Executed(one), Executed(n))
      BY <2>2, ImportFacts DEF Twin
    <3>3. /\ Executed(n).world = world' /\ Ok(Executed(n))
          /\ SnapshotOf(Executed(n), block) = SnapshotOf(Executed(one), block)
      BY <2>4, <3>2, TwinSame, SnapshotTwin
    <3> DEFINE e == Executed(n)
    <3>4. e = IF no THEN Executor(n, block) ELSE Executed(n)
      BY <2>3
    <3> HIDE DEF e
    <3>5. /\ block \in DOMAIN About(e, block).validators
          /\ IsBohr(Len(chain) + 1) => /\ block \in DOMAIN About(e, block).turn
                                       /\ About(e, block).turn[block] = e.world.turn
      <4>1. Ok(e) /\ EpochFollows(e, block)
        BY <2>4, <3>1, <3>3 DEF e, EpochFollows
      <4>2. ImportedCaches(e, block, block, n, no)
        BY <2>2, <2>3, <3>4, ImportCaches
      <4> QED
        BY <2>3, <4>1, <4>2 DEF ImportedCaches
    <3>6. Tip' \in DOMAIN caches'[n].validators => caches'[n].validators[Tip'] = world'.validators
      BY DEF ProductionInv, CachesOk, CacheOk
    <3> QED
      BY <2>4, <3>1, <3>3, <3>5, <3>6 DEF e
  <2>5. CASE Rejects
    <3> SUFFICES ASSUME (Len(chain) + 1) % TipSnap.epoch_num = 0, NEW n \in Nodes \ restarted
                 PROVE  /\ Tip \in DOMAIN caches'[n].validators
                        /\ caches'[n].validators[Tip] = world.validators
                        /\ IsBohr(Len(chain)) => /\ Tip \in DOMAIN caches'[n].turn
                                                 /\ caches'[n].turn[Tip] = world.turn
      BY <2>5 DEF EpochPrepared, TipSnap
    <3>1. /\ Tip \in DOMAIN caches[n].validators
          /\ IsBohr(Len(chain)) => Tip \in DOMAIN caches[n].turn /\ caches[n].turn[Tip] = world.turn
      BY DEF EpochPrepared
    <3> DEFINE e == Executed(n)
               tip == Tip
    <3>4. e = IF no THEN Executor(n, block) ELSE Executed(n)
      BY <2>3
    <3> HIDE DEF e, tip
    <3>5. ImportedCaches(e, Tip, block, n, no)
      BY <2>2, <2>3, <3>4, ImportCaches
    <3>6. LET v == About(e, tip).validators
              t == About(e, tip).turn
          IN /\ Tip \in DOMAIN v => v[Tip] = world.validators
             /\ Tip \in DOMAIN caches[n].validators => Tip \in DOMAIN v
             /\ Tip \in DOMAIN caches[n].turn => Tip \in DOMAIN t /\ t[Tip] = caches[n].turn[Tip]
      BY <3>5 DEF ImportedCaches, tip
    <3> QED
      BY <2>5, <3>1, <3>6 DEF e, tip
  <2> QED
    BY <2>1, <2>4, <2>5
<1>2. ASSUME NEW n \in Nodes, NEW kind \in DOMAIN Pools \cup {"empty"}, NEW voters, NEW day,
             Build(n, kind, voters, day)
      PROVE  EpochPrepared'
  <2>1. UNCHANGED <<chain, snaps, world, restarted>>
    BY <1>2 DEF Build
  <2>2. Tip' = Tip /\ TipSnap' = TipSnap
    BY <2>1 DEF Tip, TipOf, TipSnap
  <2>3. ASSUME NEW m \in Nodes
        PROVE  /\ Tip \in DOMAIN caches[m].validators =>
                    /\ Tip \in DOMAIN caches'[m].validators
                    /\ caches'[m].validators[Tip] = caches[m].validators[Tip]
               /\ Tip \in DOMAIN caches[m].turn =>
                    Tip \in DOMAIN caches'[m].turn /\ caches'[m].turn[Tip] = caches[m].turn[Tip]
    BY <1>0, <1>2, BuildKeeps
  <2> QED
    BY <2>1, <2>2, <2>3 DEF EpochPrepared
<1>3. ASSUME NEW kind, Alter(kind) PROVE EpochPrepared'
  BY <1>3 DEF Alter, EpochPrepared, Tip, TipOf, TipSnap
<1>4. ASSUME NEW n, Restart(n) PROVE EpochPrepared'
  <2>1. \A m \in Nodes \ restarted' : caches'[m] = caches[m] /\ m \in Nodes \ restarted
    BY <1>4 DEF Restart, ProductionInv, CachesOk
  <2>2. UNCHANGED <<chain, snaps, world>>
    BY <1>4 DEF Restart
  <2> QED
    BY <2>1, <2>2 DEF EpochPrepared, Tip, TipOf, TipSnap
<1>5. CASE UNCHANGED vars
  BY <1>5 DEF vars, EpochPrepared, Tip, TipOf, TipSnap
<1> QED
  BY <1>1, <1>2, <1>3, <1>4, <1>5 DEF Next

\* A node that has not restarted since the tip can start the epoch after it with what it
\* cached: the entries that post_check_new_block makes are there and are those of the state.
THEOREM EpochsArePrepared ==
  ASSUME ~submit_built_payload
  PROVE  Spec => []EpochPrepared
<1>1. Init => EpochPrepared
  <2> SUFFICES ASSUME Init PROVE (Len(chain) + 1) % TipSnap.epoch_num # 0
    BY DEF EpochPrepared
  <2>1. chain = <<>> /\ Len(chain) = 0 /\ snaps = [n \in {0} |-> GenesisSnapshot(GenesisValidators, 0)]
    BY DEF Init
  <2>2. TipSnap = GenesisSnapshot(GenesisValidators, 0)
    BY <2>1 DEF TipSnap
  <2>3. TipSnap.epoch_num = DEFAULT_EPOCH_LENGTH
    BY <2>2 DEF GenesisSnapshot
  <2>4. DEFAULT_EPOCH_LENGTH > 1 /\ DEFAULT_EPOCH_LENGTH \in Nat
    BY ProductionConstants, SnapshotConstants
  <2>5. ASSUME NEW k \in Nat, k > 1 PROVE 1 % k = 1
    BY <2>5
  <2> QED
    BY <2>1, <2>3, <2>4, <2>5
<1>2. ProductionInv /\ ProductionInv' /\ EpochPrepared /\ [Next]_vars => EpochPrepared'
  BY PreparedStep
<1> QED
  BY <1>1, <1>2, ProductionInvariant, PTL DEF Spec

----------------------------------------------------------------------------
(* The gas of transactions. *)

\* The gas of a list of transactions, and of one of system transactions.
GasOf(txs) == [i \in DOMAIN txs |-> txs[i].gas]
CallGas(txs) == [i \in DOMAIN txs |-> SystemGas[txs[i].call]]

LEMMA SequenceForm ==
  ASSUME NEW s, IsSequence(s)
  PROVE  Len(s) \in Nat /\ DOMAIN s = 1..Len(s) /\ s = [i \in 1..Len(s) |-> s[i]]
BY DEF IsSequence

LEMMA SequenceOf ==
  ASSUME NEW n \in Nat, NEW s, s = [i \in 1..n |-> s[i]]
  PROVE  IsSequence(s) /\ Len(s) = n
<1> DEFINE S == {s[i] : i \in 1..n}
<1>1. s \in [1..n -> S]
  OBVIOUS
<1> HIDE DEF S
<1>2. s \in Seq(S)
  BY <1>1
<1> QED
  BY <1>1, <1>2 DEF IsSequence

LEMMA SequenceConcat ==
  ASSUME NEW s, NEW t, IsSequence(s), IsSequence(t)
  PROVE  /\ IsSequence(s \o t) /\ Len(s \o t) = Len(s) + Len(t)
         /\ s \o <<>> = s /\ <<>> \o s = s
         /\ t # <<>> => /\ IsSequence(Tail(t)) /\ s \o t = Append(s, Head(t)) \o Tail(t)
         /\ s # <<>> => s \o t # <<>> /\ Head(s \o t) = Head(s)
         /\ \A i \in 1..Len(s) : (s \o t)[i] = s[i]
         /\ \A i \in 1..Len(t) : (s \o t)[Len(s) + i] = t[i]
<1>1. PICK A : s \in Seq(A)
  BY DEF IsSequence
<1>2. PICK B : t \in Seq(B)
  BY DEF IsSequence
<1> DEFINE S == A \cup B
<1>3. s \in Seq(S) /\ t \in Seq(S)
  BY <1>1, <1>2
<1> HIDE DEF S
<1>4. s \o t \in Seq(S) /\ Len(s \o t) = Len(s) + Len(t)
  BY <1>3
<1>5. s \o <<>> = s /\ <<>> \o s = s
  BY <1>3
<1>7. ASSUME t # <<>> PROVE IsSequence(Tail(t)) /\ s \o t = Append(s, Head(t)) \o Tail(t)
  <2>1. Tail(t) \in Seq(S) /\ Len(Tail(t)) = Len(t) - 1 /\ Head(t) \in S /\ Len(t) > 0
    BY <1>3, <1>7
  <2>2. s \o t = Append(s, Head(t)) \o Tail(t)
    BY <1>3, <2>1
  <2> QED
    BY <2>1, <2>2 DEF IsSequence
<1>8. ASSUME s # <<>> PROVE s \o t # <<>> /\ Head(s \o t) = Head(s)
  BY <1>3, <1>8
<1>9. /\ \A i \in 1..Len(s) : (s \o t)[i] = s[i]
      /\ \A i \in 1..Len(t) : (s \o t)[Len(s) + i] = t[i]
  BY <1>3
<1> QED
  BY <1>4, <1>5, <1>7, <1>8, <1>9 DEF IsSequence

LEMMA ConcatAppend ==
  ASSUME NEW s, NEW t, IsSequence(s), IsSequence(t), NEW x
  PROVE  s \o Append(t, x) = Append(s \o t, x)
<1>1. PICK A : s \in Seq(A)
  BY DEF IsSequence
<1>2. PICK B : t \in Seq(B)
  BY DEF IsSequence
<1> DEFINE S == A \cup B \cup {x}
<1>3. s \in Seq(S) /\ t \in Seq(S) /\ x \in S
  BY <1>1, <1>2
<1> HIDE DEF S
<1> QED
  BY <1>3

LEMMA ConcatHead ==
  ASSUME NEW s, NEW t, IsSequence(s), IsSequence(t), t # <<>>
  PROVE  s \o t = Append(s, Head(t)) \o Tail(t)
BY SequenceConcat

\* The gas of a list that grows at its end or loses its head.
LEMMA GasFacts ==
  ASSUME NEW s, IsSequence(s), NEW x
  PROVE  /\ IsSequence(GasOf(s)) /\ IsSequence(CallGas(s))
         /\ Len(GasOf(s)) = Len(s) /\ Len(CallGas(s)) = Len(s)
         /\ GasOf(Append(s, x)) = Append(GasOf(s), x.gas)
         /\ CallGas(Append(s, x)) = Append(CallGas(s), SystemGas[x.call])
         /\ s # <<>> => /\ CallGas(s) # <<>> /\ Head(CallGas(s)) = SystemGas[Head(s).call]
                        /\ Tail(CallGas(s)) = CallGas(Tail(s))
<1>1. Len(s) \in Nat /\ DOMAIN s = 1..Len(s)
  BY SequenceForm
<1>2. /\ IsSequence(GasOf(s)) /\ IsSequence(CallGas(s))
      /\ Len(GasOf(s)) = Len(s) /\ Len(CallGas(s)) = Len(s)
  <2>1. GasOf(s) = [i \in 1..Len(s) |-> GasOf(s)[i]] /\ CallGas(s) = [i \in 1..Len(s) |-> CallGas(s)[i]]
    BY <1>1 DEF GasOf, CallGas
  <2> QED
    BY <1>1, <2>1, SequenceOf
<1>3. PICK A : s \in Seq(A)
  BY DEF IsSequence
<1> DEFINE S == A \cup {x}
<1>4. s \in Seq(S) /\ x \in S
  BY <1>3
<1> HIDE DEF S
<1>5. PICK G : GasOf(s) \in Seq(G)
  BY <1>2 DEF IsSequence
<1>6. PICK C : CallGas(s) \in Seq(C)
  BY <1>2 DEF IsSequence
<1>7. GasOf(Append(s, x)) = Append(GasOf(s), x.gas)
  <2>1. GasOf(s) \in Seq(G \cup {x.gas}) /\ x.gas \in G \cup {x.gas}
    BY <1>5
  <2> QED
    BY <1>1, <1>2, <1>4, <2>1 DEF GasOf
<1>8. CallGas(Append(s, x)) = Append(CallGas(s), SystemGas[x.call])
  <2>1. CallGas(s) \in Seq(C \cup {SystemGas[x.call]}) /\ SystemGas[x.call] \in C \cup {SystemGas[x.call]}
    BY <1>6
  <2> QED
    BY <1>1, <1>2, <1>4, <2>1 DEF CallGas
<1>9. ASSUME s # <<>>
      PROVE  /\ CallGas(s) # <<>> /\ Head(CallGas(s)) = SystemGas[Head(s).call]
             /\ Tail(CallGas(s)) = CallGas(Tail(s))
  <2>1. Len(s) > 0 /\ Len(CallGas(s)) > 0 /\ \A i \in 1..Len(s) : CallGas(s)[i] = SystemGas[s[i].call]
    BY <1>1, <1>2, <1>4, <1>9 DEF CallGas
  <2>2. CallGas(s) # <<>> /\ Head(CallGas(s)) = SystemGas[Head(s).call]
    BY <1>4, <1>6, <2>1
  <2>3. Tail(CallGas(s)) = CallGas(Tail(s))
    <3>1. Len(Tail(s)) = Len(s) - 1 /\ \A i \in 1..(Len(s) - 1) : Tail(s)[i] = s[i + 1]
      BY <1>4, <2>1
    <3>2. Tail(s) \in Seq(S)
      BY <1>4, <2>1
    <3>3. DOMAIN Tail(s) = 1..(Len(s) - 1)
      BY <3>1, <3>2
    <3>4. CallGas(Tail(s)) = [i \in 1..(Len(s) - 1) |-> SystemGas[s[i + 1].call]]
      BY <1>1, <3>1, <3>3 DEF CallGas
    <3>5. Tail(CallGas(s)) = [i \in 1..(Len(s) - 1) |-> CallGas(s)[i + 1]]
      <4>1. /\ Tail(CallGas(s)) \in Seq(C) /\ Len(Tail(CallGas(s))) = Len(s) - 1
            /\ \A i \in 1..(Len(s) - 1) : Tail(CallGas(s))[i] = CallGas(s)[i + 1]
        BY <1>2, <1>6, <2>1
      <4> DEFINE u == Tail(CallGas(s))
                 c == CallGas(s)
      <4>2. u = [i \in 1..Len(u) |-> u[i]]
        BY <4>1, SequenceForm DEF IsSequence
      <4>3. Len(u) = Len(s) - 1 /\ \A i \in 1..(Len(s) - 1) : u[i] = c[i + 1]
        BY <4>1
      <4> HIDE DEF u, c
      <4>4. u = [i \in 1..(Len(s) - 1) |-> c[i + 1]]
        BY <4>2, <4>3
      <4> QED
        BY <4>4 DEF u, c
    <3>6. \A i \in 1..(Len(s) - 1) : CallGas(s)[i + 1] = SystemGas[s[i + 1].call]
      BY <1>1, <2>1
    <3> QED
      BY <3>4, <3>5, <3>6
  <2> QED
    BY <2>2, <2>3
<1> QED
  BY <1>2, <1>7, <1>8, <1>9

\* The gas of several receipts, one after the other.
IsTotal(f, s, n) == f = [i \in 0..n |-> IF i = 0 THEN 0 ELSE f[i - 1] + s[i]]

LEMMA TotalExists ==
  ASSUME NEW s, NEW n \in Nat
  PROVE  \E f : IsTotal(f, s, n)
<1> DEFINE G == {k \in 0..n : \E f : IsTotal(f, s, k)}
<1>1. 0 \in G
  <2>1. IsTotal([i \in 0..0 |-> 0], s, 0)
    BY DEF IsTotal
  <2> QED
    BY <2>1
<1>2. ASSUME NEW k \in 1..n, k - 1 \in G PROVE k \in G
  <2>1. PICK f : IsTotal(f, s, k - 1)
    BY <1>2
  <2> DEFINE h == [i \in 0..k |-> IF i = k THEN f[k - 1] + s[k] ELSE f[i]]
  <2>2. \A i \in 0..(k - 1) : f[i] = IF i = 0 THEN 0 ELSE f[i - 1] + s[i]
    BY <2>1 DEF IsTotal
  <2>3. ASSUME NEW i \in 0..k PROVE h[i] = IF i = 0 THEN 0 ELSE h[i - 1] + s[i]
    <3>1. CASE i = 0
      BY <2>2, <3>1
    <3>2. CASE i \in 1..(k - 1)
      <4>1. h[i] = f[i] /\ h[i - 1] = f[i - 1] /\ f[i] = f[i - 1] + s[i]
        BY <2>2, <3>2
      <4> QED
        BY <3>2, <4>1
    <3>3. CASE i = k
      <4>1. h[k] = f[k - 1] + s[k] /\ h[k - 1] = f[k - 1]
        OBVIOUS
      <4> QED
        BY <3>3, <4>1
    <3> QED
      BY <3>1, <3>2, <3>3
  <2>4. h = [i \in 0..k |-> h[i]]
    OBVIOUS
  <2> HIDE DEF h
  <2>5. IsTotal(h, s, k)
    BY <2>3, <2>4 DEF IsTotal
  <2> QED
    BY <2>5
<1> HIDE DEF G
<1>3. \A k \in 0..n : k \in G
  BY <1>1, <1>2, CountUp
<1>4. n \in G
  BY <1>3
<1> QED
  BY <1>4 DEF G

LEMMA TotalForm ==
  ASSUME NEW s, IsSequence(s)
  PROVE  \E f : /\ f[0] = 0 /\ \A i \in 1..Len(s) : f[i] = f[i - 1] + s[i]
               /\ Total(s) = f[Len(s)]
<1> DEFINE n == Len(s)
           P(f) == f = [i \in 0..n |-> IF i = 0 THEN 0 ELSE f[i - 1] + s[i]]
           r == CHOOSE f : P(f)
<1>0. n \in Nat
  BY SequenceForm
<1>1. PICK f : P(f)
  BY <1>0, TotalExists DEF IsTotal
<1>2. P(r)
  BY <1>1, Zenon
<1>3. Total(s) = r[n]
  BY DEF Total
<1> HIDE DEF r
<1>4. \A i \in 0..n : r[i] = IF i = 0 THEN 0 ELSE r[i - 1] + s[i]
  BY <1>2, Zenon
<1>5. 0 \in 0..n /\ \A i \in 1..n : i \in 0..n /\ i # 0
  BY <1>0
<1> QED
  BY <1>3, <1>4, <1>5

\* One more receipt is one more summand.
LEMMA TotalAppend ==
  ASSUME NEW s, IsSequence(s), NEW g
  PROVE  Total(<<>>) = 0 /\ Total(Append(s, g)) = Total(s) + g
<1> DEFINE t == Append(s, g)
<1>1. /\ IsSequence(t) /\ Len(s) \in Nat /\ Len(t) = Len(s) + 1 /\ t[Len(s) + 1] = g
      /\ \A i \in 1..Len(s) : t[i] = s[i]
  BY SequenceAppend DEF Last
<1> HIDE DEF t
<1>2. PICK f : /\ f[0] = 0 /\ \A i \in 1..Len(s) : f[i] = f[i - 1] + s[i] /\ Total(s) = f[Len(s)]
  BY TotalForm
<1>3. PICK h : /\ h[0] = 0 /\ \A i \in 1..Len(t) : h[i] = h[i - 1] + t[i] /\ Total(t) = h[Len(t)]
  BY <1>1, TotalForm
<1> DEFINE G == {i \in 0..Len(s) : f[i] = h[i]}
<1>4. 0 \in G
  BY <1>1, <1>2, <1>3
<1>5. ASSUME NEW i \in 1..Len(s), i - 1 \in G PROVE i \in G
  <2>1. f[i - 1] = h[i - 1] /\ i \in 1..Len(t) /\ i \in 0..Len(s)
    BY <1>1, <1>5
  <2> QED
    BY <1>1, <1>2, <1>3, <2>1
<1> HIDE DEF G
<1>6. \A i \in 0..Len(s) : i \in G
  BY <1>1, <1>4, <1>5, CountUp
<1>7. f[Len(s)] = h[Len(s)]
  BY <1>1, <1>6 DEF G
<1>8. h[Len(t)] = h[Len(s)] + g
  <2>1. Len(t) \in 1..Len(t) /\ Len(t) - 1 = Len(s)
    BY <1>1
  <2> QED
    BY <1>1, <1>3, <2>1
<1>9. Total(<<>>) = 0
  <2>1. PICK e : e[0] = 0 /\ Total(<<>>) = e[Len(<<>>)]
    BY TotalForm, SequenceEmpty
  <2>2. Len(<<>>) = 0
    OBVIOUS
  <2> QED
    BY <2>1, <2>2
<1> QED
  BY <1>2, <1>3, <1>7, <1>8, <1>9 DEF t

----------------------------------------------------------------------------
(* The books of an execution: receipts, gas and what is still required. *)

\* What the executor counts and sorts of a state is finite, and the turn length is a number.
WorldLean(w) == IsFiniteSet(w.validators) /\ IsFiniteSet(DOMAIN w.power) /\ w.turn \in Nat

TurnsOk(txs) == \A i \in 1..Len(txs) : txs[i].turn \in Nat

\* What a proposer has when it fails nowhere: a receipt for every transaction and then for
\* every system transaction, and the gas of all of them.
MinerBooks(ex) ==
  /\ IsSequence(ex.txs) /\ IsSequence(ex.assembled_system_txs) /\ TurnsOk(ex.txs)
  /\ ex.receipts = GasOf(ex.txs) \o CallGas(ex.assembled_system_txs)
  /\ ex.gas_used = Total(ex.receipts)

\* The next system transaction is a user's that was set aside: none that is due is like it.
Blocked(ex) == ex.system_txs # <<>> /\ Head(ex.system_txs).to = "other"

\* What another node has: its receipts and the gas of what is still required are those of
\* the whole block, unless the block is bound to be refused.
NodeBooks(ex, all) ==
  /\ IsSequence(ex.receipts) /\ IsSequence(ex.system_txs)
  /\ Blocked(ex) \/ ex.receipts \o CallGas(ex.system_txs) = all

\* The books of either role, as long as nothing failed.
Kept(ex, all) ==
  /\ IsExecutor(ex) /\ WorldLean(ex.world) /\ IsFiniteSet(DOMAIN ex.election_info)
  /\ Ok(ex) /\ ex.is_miner => MinerBooks(ex)
  /\ Ok(ex) /\ ~ex.is_miner => NodeBooks(ex, all)

\* A transaction that the executor itself makes.
IsCall(tx) ==
  /\ {"to", "call", "input", "value", "nonce"} \subseteq DOMAIN tx /\ tx.to # "other"
  /\ tx.call = "updateValidatorSetV2" => IsFiniteSet(DOMAIN tx.input)

LEMMA EffectLean ==
  ASSUME NEW w, IsWorld(w), WorldLean(w), NEW tx, IsCall(tx)
  PROVE  WorldLean(Effect(w, tx))
BY DEF Effect, WorldLean, IsCall, IsWorld, WorldFields

\* transact_system_tx keeps the books in both roles.
LEMMA SystemTxKept ==
  ASSUME NEW ex, NEW all, Kept(ex, all), NEW tx, IsCall(tx)
  PROVE  Kept(transact_system_tx(ex, tx), all)
<1> DEFINE sender == ex.beneficiary
           t == set_nonce(tx, ex.world.nonce[sender])
           w == [ex.world EXCEPT !.nonce[sender] = @ + 1]
           g == SystemGas[t.call]
           v == Effect(w, t)
           done == [ex EXCEPT !.world = v, !.gas_used = @ + g, !.receipts = Append(@, g)]
           miner == [done EXCEPT !.assembled_system_txs = Append(@, t)]
           next == [done EXCEPT !.system_txs = Tail(@)]
           wrong == [ex EXCEPT !.err = "UnexpectedSystemTx"]
<1>1. transact_system_tx(ex, tx)
          = IF ~Ok(ex) THEN ex
            ELSE IF ex.is_miner THEN miner
            ELSE IF ex.system_txs # <<>> /\ Head(ex.system_txs) = t THEN next
            ELSE IF MayBeMissing(ex, t) THEN ex
            ELSE wrong
  BY DEF transact_system_tx, Fail
<1>2. IsCall(t)
  BY DEF IsCall, set_nonce
<1> HIDE DEF t
<1>3. IsWorld(w) /\ WorldLean(w)
  BY DEF Kept, IsExecutor, IsWorld, WorldFields, WorldLean
<1> HIDE DEF w
<1>4. IsWorld(v) /\ WorldLean(v)
  BY <1>2, <1>3, EffectFrame, EffectLean
<1> HIDE DEF v, g
<1>5. IsExecutor(ex)
  BY DEF Kept
<1>6. /\ IsExecutor(done) /\ done.world = v /\ done.gas_used = ex.gas_used + g
      /\ done.receipts = Append(ex.receipts, g) /\ done.txs = ex.txs /\ done.system_txs = ex.system_txs
      /\ done.assembled_system_txs = ex.assembled_system_txs /\ done.is_miner = ex.is_miner
      /\ done.err = ex.err /\ done.election_info = ex.election_info
  BY <1>4, <1>5 DEF IsExecutor, JobFields, WorkFields, CacheFields
<1> HIDE DEF done
<1>7. ASSUME Ok(ex), ex.is_miner PROVE Kept(miner, all)
  <2>1. /\ IsExecutor(miner) /\ miner.world = v /\ miner.gas_used = ex.gas_used + g
        /\ miner.receipts = Append(ex.receipts, g) /\ miner.txs = ex.txs
        /\ miner.assembled_system_txs = Append(ex.assembled_system_txs, t)
        /\ miner.is_miner = ex.is_miner /\ miner.election_info = ex.election_info
    BY <1>6 DEF IsExecutor, JobFields, WorkFields, CacheFields
  <2> HIDE DEF miner
  <2>2. MinerBooks(ex)
    BY <1>7 DEF Kept
  <2> DEFINE a == ex.assembled_system_txs
             r == ex.receipts
  <2>3. IsSequence(ex.txs) /\ IsSequence(a) /\ r = GasOf(ex.txs) \o CallGas(a) /\ ex.gas_used = Total(r)
    BY <2>2 DEF MinerBooks
  <2> DEFINE p == GasOf(ex.txs)
             q == CallGas(a)
             b == Append(a, t)
  <2>4. IsSequence(p) /\ IsSequence(q) /\ CallGas(b) = Append(q, g) /\ IsSequence(b)
    BY <2>3, GasFacts, SequenceAppend DEF g
  <2>5. r = p \o q
    BY <2>3
  <2> HIDE DEF p, q, r, a, b
  <2>6. IsSequence(p) /\ IsSequence(q)
    BY <2>4
  <2>7. p \o Append(q, g) = Append(p \o q, g)
    BY <2>6, ConcatAppend
  <2>8. IsSequence(p \o q)
    BY <2>4, SequenceConcat
  <2>9. IsSequence(r) /\ Append(r, g) = p \o Append(q, g)
    BY <2>5, <2>7, <2>8, Zenon
  <2>10. Append(r, g) = p \o CallGas(b)
    BY <2>4, <2>5, <2>9, Zenon
  <2>11. ex.gas_used + g = Total(Append(r, g))
    BY <2>3, <2>9, TotalAppend
  <2>12. MinerBooks(miner)
    BY <2>1, <2>2, <2>4, <2>10, <2>11 DEF MinerBooks, p, b, r, a
  <2> QED
    BY <1>4, <1>7, <2>1, <2>12 DEF Kept
<1>8. ASSUME Ok(ex), ~ex.is_miner, ex.system_txs # <<>>, Head(ex.system_txs) = t PROVE Kept(next, all)
  <2>1. /\ IsExecutor(next) /\ next.world = v
        /\ next.receipts = Append(ex.receipts, g)
        /\ next.system_txs = Tail(ex.system_txs)
        /\ next.is_miner = ex.is_miner /\ next.election_info = ex.election_info
    BY <1>6 DEF IsExecutor, JobFields, WorkFields, CacheFields
  <2> HIDE DEF next
  <2> DEFINE s == ex.system_txs
             r == ex.receipts
  <2>2. IsSequence(r) /\ IsSequence(s) /\ r \o CallGas(s) = all
    BY <1>2, <1>8 DEF Kept, NodeBooks, Blocked, IsCall
  <2>3. /\ IsSequence(CallGas(s)) /\ CallGas(s) # <<>> /\ Head(CallGas(s)) = g
        /\ Tail(CallGas(s)) = CallGas(Tail(s)) /\ IsSequence(Tail(s)) /\ IsSequence(Append(r, g))
    BY <1>8, <2>2, GasFacts, SequenceConcat, SequenceAppend DEF g
  <2> DEFINE q == CallGas(s)
             u == CallGas(Tail(s))
  <2>4. /\ IsSequence(q) /\ q # <<>> /\ Head(q) = g /\ Tail(q) = u /\ r \o q = all
    BY <2>2, <2>3
  <2> HIDE DEF q, u, r, s
  <2>5. r \o q = Append(r, Head(q)) \o Tail(q)
    BY <2>2, <2>4, ConcatHead, Zenon
  <2>6. Append(r, g) \o u = all
    BY <2>4, <2>5, Zenon
  <2>7. NodeBooks(next, all)
    BY <2>1, <2>3, <2>6 DEF NodeBooks, u, r, s
  <2> QED
    BY <1>4, <1>8, <2>1, <2>7 DEF Kept
<1>9. Kept(wrong, all)
  <2>1. IsExecutor(wrong) /\ wrong.world = ex.world /\ wrong.election_info = ex.election_info /\ ~Ok(wrong)
    BY <1>5 DEF IsExecutor, JobFields, WorkFields, CacheFields, Ok
  <2> HIDE DEF wrong
  <2> QED
    BY <2>1 DEF Kept
<1> HIDE DEF miner, next, wrong
<1> QED
  BY <1>1, <1>7, <1>8, <1>9

LEMMA CallForm ==
  ASSUME NEW to, NEW call, NEW input, NEW value, to # "other",
         call = "updateValidatorSetV2" => IsFiniteSet(DOMAIN input)
  PROVE  IsCall(SystemTx(to, call, input, value))
BY DEF IsCall, SystemTx

LEMMA IncomingKept ==
  ASSUME NEW ex, NEW all, Kept(ex, all)
  PROVE  Kept(distribute_incoming(ex), all)
<1> DEFINE drained == [ex EXCEPT !.world.system = 0]
           shared == /\ ~IsActive("Kepler", ex.number)
                     /\ ex.world.system_reward < MAX_SYSTEM_REWARD
           to_system == IF shared THEN ex.world.system \div 2 ^ SYSTEM_REWARD_PERCENT ELSE 0
           first == distribute_to_system(to_system)
           second == distribute_to_validator(ex.beneficiary, ex.world.system - to_system)
           paid == IF to_system > 0 THEN transact_system_tx(drained, first) ELSE drained
           last == transact_system_tx(paid, second)
<1>1. distribute_incoming(ex) = IF ~Ok(ex) \/ ex.world.system = 0 THEN ex ELSE last
  BY DEF distribute_incoming
<1>2. IsCall(first) /\ IsCall(second)
  BY CallForm DEF distribute_to_system, distribute_to_validator
<1>3. Kept(drained, all)
  <2> DEFINE w == [ex.world EXCEPT !.system = 0]
  <2>1. IsWorld(w) /\ WorldLean(w)
    BY DEF Kept, IsExecutor, IsWorld, WorldFields, WorldLean
  <2>2. drained = [ex EXCEPT !.world = w]
    BY DEF Kept, IsExecutor, WorkFields
  <2> HIDE DEF w, drained
  <2>3. /\ IsExecutor(drained) /\ drained.world = w /\ drained.err = ex.err
        /\ drained.is_miner = ex.is_miner /\ drained.election_info = ex.election_info
        /\ drained.txs = ex.txs /\ drained.assembled_system_txs = ex.assembled_system_txs
        /\ drained.receipts = ex.receipts /\ drained.gas_used = ex.gas_used
        /\ drained.system_txs = ex.system_txs
    BY <2>1, <2>2 DEF Kept, IsExecutor, JobFields, WorkFields, CacheFields
  <2> QED
    BY <2>1, <2>3 DEF Kept, MinerBooks, NodeBooks, Blocked, Ok
<1> HIDE DEF drained, to_system, first, second
<1>4. Kept(paid, all)
  BY <1>2, <1>3, SystemTxKept
<1> HIDE DEF paid
<1>5. Kept(last, all)
  BY <1>2, <1>4, SystemTxKept
<1> HIDE DEF last
<1> QED
  BY <1>1, <1>5

\* So do the system transactions of an ordinary block, and those that initialise contracts.
LEMMA DueKept ==
  ASSUME NEW ex, NEW all, Kept(ex, all), NEW inturn
  PROVE  Kept(transact_due(ex, inturn), all)
<1> DEFINE a == IF ~inturn /\ Spoiled(ex) THEN slash_spoiled_validator(ex) ELSE ex
           b == distribute_incoming(a)
           c == do_distribute_finality_reward(b)
           d == update_validator_set(c)
<1>1. transact_due(ex, inturn) = d
  BY DEF transact_due
<1>2. Kept(a, all)
  <2>1. IsCall(slash(InturnValidator(ex.snap)))
    BY CallForm DEF slash
  <2>2. Kept(slash_spoiled_validator(ex), all)
    BY <2>1, SystemTxKept DEF slash_spoiled_validator
  <2> QED
    BY <2>2
<1> HIDE DEF a
<1>3. Kept(b, all)
  BY <1>2, IncomingKept
<1> HIDE DEF b
<1>4. Kept(c, all)
  <2> DEFINE tx == distribute_finality_reward(NonZero(AttestationWeights(b.number, b.snaps, b.chain)))
  <2>1. IsCall(tx)
    BY CallForm DEF distribute_finality_reward
  <2>2. c = b \/ c = transact_system_tx(b, tx)
    BY DEF do_distribute_finality_reward
  <2> HIDE DEF tx, c
  <2> QED
    BY <1>3, <2>1, <2>2, SystemTxKept
<1> HIDE DEF c
<1>5. Kept(d, all)
  <2> DEFINE top == get_top_validators_by_voting_power(c.election_info, MaxElectedValidators)
             tx == update_validator_set_v2(top)
  <2>1. IsFiniteSet(DOMAIN top)
    <3>1. DOMAIN top \subseteq DOMAIN c.election_info
      BY DEF get_top_validators_by_voting_power
    <3> QED
      BY <1>4, <3>1, FS_Subset DEF Kept
  <2> HIDE DEF top
  <2>2. IsCall(tx)
    BY <2>1, CallForm DEF update_validator_set_v2
  <2>3. d = c \/ d = transact_system_tx(c, tx)
    BY DEF update_validator_set, top
  <2> HIDE DEF tx, d
  <2> QED
    BY <1>4, <2>2, <2>3, SystemTxKept
<1> QED
  BY <1>1, <1>5

LEMMA SystemRunKept ==
  ASSUME NEW ex, NEW all, Kept(ex, all), NEW txs, Len(txs) \in Nat,
         \A i \in 1..Len(txs) : IsCall(txs[i])
  PROVE  Kept(transact_system_txs(ex, txs), all)
<1>1. PICK r : IsTrail(r, "system", ex, txs) /\ transact_system_txs(ex, txs) = r[Len(txs)]
  BY RunAllTrail
<1> DEFINE G == {i \in 0..Len(txs) : Kept(r[i], all)}
<1>2. 0 \in G
  BY <1>1 DEF IsTrail
<1>3. ASSUME NEW i \in 1..Len(txs), i - 1 \in G PROVE i \in G
  <2>1. Kept(r[i - 1], all) /\ r[i] = transact_system_tx(r[i - 1], txs[i])
    BY <1>1, <1>3 DEF IsTrail, StepOf
  <2>2. Kept(r[i], all)
    BY <2>1, SystemTxKept
  <2> QED
    BY <2>2
<1> HIDE DEF G
<1>4. \A i \in 0..Len(txs) : i \in G
  BY <1>2, <1>3, CountUp
<1>5. Kept(r[Len(txs)], all)
  BY <1>4 DEF G
<1> QED
  BY <1>1, <1>5

LEMMA InitializeKept ==
  ASSUME NEW ex, NEW all, Kept(ex, all)
  PROVE  Kept(initialize_contracts(ex), all)
<1>1. Len(feynman_contracts_txs) = 5 /\ Len(genesis_contracts_txs) = 7
  BY DEF feynman_contracts_txs, genesis_contracts_txs
<1>2. \A i \in 1..5 : IsCall(feynman_contracts_txs[i])
  <2> SUFFICES ASSUME NEW i \in 1..5 PROVE IsCall(feynman_contracts_txs[i])
    OBVIOUS
  <2> DEFINE to == <<"stake_hub", "governor", "gov_token", "timelock", "token_recover_portal">>[i]
  <2>1. to # "other"
    OBVIOUS
  <2>2. feynman_contracts_txs[i] = SystemTx(to, "initialize", <<>>, 0)
    BY DEF feynman_contracts_txs
  <2> HIDE DEF to
  <2> QED
    BY <2>1, <2>2, CallForm
<1>3. \A i \in 1..7 : IsCall(genesis_contracts_txs[i])
  <2> SUFFICES ASSUME NEW i \in 1..7 PROVE IsCall(genesis_contracts_txs[i])
    OBVIOUS
  <2> DEFINE to == <<"validator", "slash", "light_client", "relayer_hub", "token_hub",
                             "relayer_incentivize", "cross_chain">>[i]
  <2>1. to # "other"
    OBVIOUS
  <2>2. genesis_contracts_txs[i] = SystemTx(to, "init", <<>>, 0)
    BY DEF genesis_contracts_txs
  <2> HIDE DEF to
  <2> QED
    BY <2>1, <2>2, CallForm
<1> DEFINE feynman == IF IsTransition("Feynman", ex.number)
                      THEN transact_system_txs(ex, feynman_contracts_txs) ELSE ex
<1>4. Kept(feynman, all)
  BY <1>1, <1>2, SystemRunKept
<1>5. initialize_contracts(ex)
        = IF ex.number = 1 THEN transact_system_txs(feynman, genesis_contracts_txs) ELSE feynman
  BY DEF initialize_contracts
<1> HIDE DEF feynman
<1>6. Kept(transact_system_txs(feynman, genesis_contracts_txs), all)
  BY <1>1, <1>3, <1>4, SystemRunKept
<1> QED
  BY <1>4, <1>5, <1>6

LEMMA UpgradeKept ==
  ASSUME NEW ex, NEW all, Kept(ex, all), NEW new, Upgrading(ex, new)
  PROVE  Kept(new, all)
<1>1. /\ IsExecutor(new) /\ new.err = ex.err
      /\ new.is_miner = ex.is_miner /\ new.election_info = ex.election_info
      /\ new.txs = ex.txs /\ new.assembled_system_txs = ex.assembled_system_txs
      /\ new.receipts = ex.receipts /\ new.gas_used = ex.gas_used
      /\ new.system_txs = ex.system_txs
  BY DEF Upgrading, SameJob, JobFields, WorkFields
<1>2. WorldLean(new.world)
  BY DEF Upgrading, Kept, WorldLean, SansCode, WorldFields
<1> QED
  BY <1>1, <1>2 DEF Kept, MinerBooks, NodeBooks, Blocked, Ok

LEMMA TransactLean ==
  ASSUME NEW w, IsWorld(w), WorldLean(w), NEW n, NEW env, NEW tx, tx.turn \in Nat
  PROVE  WorldLean(Transact(w, n, env, tx))
BY DEF Transact, WorldLean, IsWorld, WorldFields, Plus

\* What a user's transaction does to the books.
LEMMA UserTxKept ==
  ASSUME NEW ex, IsExecutor(ex), WorldLean(ex.world), NEW tx, tx.turn \in Nat
  PROVE  LET new == execute_transaction(ex, tx)
         IN /\ IsExecutor(new) /\ WorldLean(new.world) /\ new.election_info = ex.election_info
            /\ new.assembled_system_txs = ex.assembled_system_txs /\ new.system_txs = ex.system_txs
            /\ new.is_miner = ex.is_miner
            /\ Ok(new) => /\ Ok(ex) /\ new.txs = Append(ex.txs, tx)
                          /\ new.receipts = Append(ex.receipts, tx.gas)
                          /\ new.gas_used = ex.gas_used + tx.gas
<1> DEFINE new == execute_transaction(ex, tx)
           w == Transact(ex.world, ex.number, ex.env, tx)
           done == [ex EXCEPT !.world = w, !.gas_used = @ + tx.gas,
                              !.receipts = Append(@, tx.gas), !.txs = Append(@, tx)]
           Result(x) ==
              /\ IsExecutor(x) /\ WorldLean(x.world) /\ x.election_info = ex.election_info
              /\ x.assembled_system_txs = ex.assembled_system_txs /\ x.system_txs = ex.system_txs
              /\ x.is_miner = ex.is_miner
              /\ Ok(x) => /\ Ok(ex) /\ x.txs = Append(ex.txs, tx)
                          /\ x.receipts = Append(ex.receipts, tx.gas)
                          /\ x.gas_used = ex.gas_used + tx.gas
<1>1. \/ ~Ok(ex) /\ new = ex
      \/ \E why \in {"TransactionGasLimitMoreThanAvailableBlockGas", "InvalidTx"} :
           new = [ex EXCEPT !.err = why]
      \/ Ok(ex) /\ new = done
  BY DEF execute_transaction, Fail
<1>2. IsWorld(w) /\ WorldLean(w)
  BY TransactFrame, TransactLean DEF IsExecutor
<1> HIDE DEF w
<1>3. Ok(ex) => Result(done)
  BY <1>2 DEF IsExecutor, JobFields, WorkFields, CacheFields
<1>4. ASSUME NEW why, why # "" PROVE Result([ex EXCEPT !.err = why])
  BY <1>4 DEF IsExecutor, JobFields, WorkFields, CacheFields, Ok
<1>5. ~Ok(ex) => Result(ex)
  OBVIOUS
<1> HIDE DEF Result, done
<1>6. Result(new)
  BY <1>1, <1>3, <1>4, <1>5
<1> QED
  BY <1>6 DEF Result

\* A transaction of the pool, packed or passed over, keeps the books of a proposer.
LEMMA PackKept ==
  ASSUME NEW ex, NEW all, Kept(ex, all), ex.is_miner, ex.assembled_system_txs = <<>>,
         NEW tx, tx.turn \in Nat
  PROVE  LET new == Pack(ex, tx)
         IN Kept(new, all) /\ new.is_miner /\ new.assembled_system_txs = <<>>
<1> DEFINE new == execute_transaction(ex, tx)
<1>1. Pack(ex, tx) = ex \/ Pack(ex, tx) = new
  BY DEF Pack
<1>2. /\ IsExecutor(new) /\ WorldLean(new.world) /\ new.election_info = ex.election_info
      /\ new.assembled_system_txs = ex.assembled_system_txs /\ new.is_miner = ex.is_miner
      /\ Ok(new) => /\ Ok(ex) /\ new.txs = Append(ex.txs, tx)
                    /\ new.receipts = Append(ex.receipts, tx.gas)
                    /\ new.gas_used = ex.gas_used + tx.gas
  BY UserTxKept DEF Kept
<1> HIDE DEF new
<1>3. ASSUME Ok(new) PROVE MinerBooks(new)
  <2> DEFINE t == ex.txs
             r == ex.receipts
             n == Append(t, tx)
             p == Append(r, tx.gas)
             e == CallGas(<<>>)
  <2>1. MinerBooks(ex)
    BY <1>2, <1>3 DEF Kept
  <2>2. IsSequence(t) /\ TurnsOk(t) /\ r = GasOf(t) \o e /\ ex.gas_used = Total(r)
    BY <2>1 DEF MinerBooks
  <2>3. e = <<>>
    BY DEF CallGas
  <2>4. r = GasOf(t) /\ IsSequence(r)
    <3>1. IsSequence(GasOf(t))
      BY <2>2, GasFacts
    <3>2. GasOf(t) \o <<>> = GasOf(t)
      BY <3>1, SequenceConcat, SequenceEmpty
    <3> QED
      BY <2>2, <2>3, <3>1, <3>2
  <2>5. IsSequence(n) /\ GasOf(n) = p /\ IsSequence(p)
    <3>1. IsSequence(t) /\ IsSequence(r) /\ r = GasOf(t)
      BY <2>2, <2>4
    <3> HIDE DEF t, r
    <3>2. GasOf(n) = Append(GasOf(t), tx.gas)
      BY <3>1, GasFacts
    <3>3. IsSequence(n) /\ IsSequence(p)
      BY <3>1, SequenceAppend
    <3> QED
      BY <3>1, <3>2, <3>3
  <2>6. p = GasOf(n) \o e
    <3>1. GasOf(n) \o <<>> = GasOf(n)
      BY <2>5, SequenceConcat, SequenceEmpty
    <3> QED
      BY <2>3, <2>5, <3>1
  <2>7. TurnsOk(n)
    <3>1. /\ Len(n) = Len(t) + 1 /\ Len(t) \in Nat /\ n[Len(n)] = tx
          /\ \A i \in 1..Len(t) : n[i] = t[i]
      BY <2>2, SequenceAppend DEF Last
    <3> HIDE DEF n, t
    <3>2. \A i \in 1..Len(n) : i = Len(n) \/ i \in 1..Len(t)
      BY <3>1
    <3> QED
      BY <2>2, <3>1, <3>2 DEF TurnsOk
  <2>8. ex.gas_used + tx.gas = Total(p)
    BY <2>2, <2>4, TotalAppend
  <2> HIDE DEF n, p, e
  <2>9. /\ new.txs = n /\ new.receipts = p /\ new.gas_used = Total(p)
        /\ new.assembled_system_txs = <<>>
    BY <1>2, <1>3, <2>8 DEF n, p
  <2> QED
    BY <2>5, <2>6, <2>7, <2>9, SequenceEmpty DEF MinerBooks, e
<1>4. Kept(new, all) /\ new.is_miner /\ new.assembled_system_txs = <<>>
  BY <1>2, <1>3 DEF Kept
<1> QED
  BY <1>1, <1>4

LEMMA PackRunKept ==
  ASSUME NEW ex, NEW all, Kept(ex, all), ex.is_miner, ex.assembled_system_txs = <<>>,
         NEW pool, Len(pool) \in Nat, \A i \in 1..Len(pool) : pool[i].turn \in Nat
  PROVE  Kept(RunAll(Pack, ex, pool), all)
<1>1. PICK r : IsTrail(r, "pack", ex, pool) /\ RunAll(Pack, ex, pool) = r[Len(pool)]
  BY RunAllTrail
<1> DEFINE G == {i \in 0..Len(pool) :
                   Kept(r[i], all) /\ r[i].is_miner /\ r[i].assembled_system_txs = <<>>}
<1>2. 0 \in G
  BY <1>1 DEF IsTrail
<1>3. ASSUME NEW i \in 1..Len(pool), i - 1 \in G PROVE i \in G
  <2>1. /\ Kept(r[i - 1], all) /\ r[i - 1].is_miner /\ r[i - 1].assembled_system_txs = <<>>
        /\ r[i] = Pack(r[i - 1], pool[i])
    BY <1>1, <1>3 DEF IsTrail, StepOf
  <2>2. Kept(r[i], all) /\ r[i].is_miner /\ r[i].assembled_system_txs = <<>>
    BY <2>1, PackKept
  <2> QED
    BY <2>2
<1> HIDE DEF G
<1>4. \A i \in 0..Len(pool) : i \in G
  BY <1>2, <1>3, CountUp
<1>5. Kept(r[Len(pool)], all)
  BY <1>4 DEF G
<1> QED
  BY <1>1, <1>5

\* After k transactions of a block, on a node that did not build it.
Checked(ex, txs, k) ==
  /\ IsExecutor(ex) /\ WorldLean(ex.world) /\ IsFiniteSet(DOMAIN ex.election_info) /\ ~ex.is_miner
  /\ Ok(ex) => /\ IsSequence(ex.receipts) /\ IsSequence(ex.system_txs)
               /\ \/ Blocked(ex)
                  \/ /\ ex.system_txs = <<>> /\ Len(ex.receipts) = k
                     /\ \A i \in 1..k : ex.receipts[i] = txs[i].gas

\* execute_checked_transaction: executed, or set aside for good.
LEMMA CheckedStep ==
  ASSUME NEW ex, NEW txs, Len(txs) \in Nat, NEW k \in 1..Len(txs), Checked(ex, txs, k - 1),
         txs[k].turn \in Nat
  PROVE  Checked(execute_checked_transaction(ex, txs[k]), txs, k)
<1> DEFINE tx == txs[k]
           new == execute_transaction(ex, tx)
           aside == [ex EXCEPT !.system_txs = Append(@, AsSystem(tx))]
<1>1. \/ Ok(ex) /\ execute_checked_transaction(ex, tx) = aside
      \/ execute_checked_transaction(ex, tx) = new
  BY DEF execute_checked_transaction
<1>2. ASSUME Ok(ex) PROVE Checked(aside, txs, k)
  <2> DEFINE s == ex.system_txs
             a == AsSystem(tx)
  <2>1. IsSequence(s) /\ IsSequence(ex.receipts) /\ (s = <<>> \/ Head(s).to = "other")
    BY <1>2 DEF Checked, Blocked
  <2>2. a.to = "other"
    BY DEF AsSystem, SystemTx
  <2> HIDE DEF a
  <2>3. IsSequence(Append(s, a)) /\ Append(s, a) # <<>> /\ Head(Append(s, a)).to = "other"
    <3>1. IsSequence(Append(s, a)) /\ Append(s, a) # <<>>
      BY <2>1, SequenceAppend
    <3>2. PICK S : s \in Seq(S)
      BY <2>1 DEF IsSequence
    <3>3. s \in Seq(S \cup {a}) /\ a \in S \cup {a}
      BY <3>2
    <3>4. Head(Append(s, a)) = IF s = <<>> THEN a ELSE Head(s)
      BY <3>3
    <3> QED
      BY <2>1, <2>2, <3>1, <3>4
  <2>4. /\ IsExecutor(aside) /\ aside.world = ex.world /\ aside.election_info = ex.election_info
        /\ aside.is_miner = ex.is_miner /\ aside.receipts = ex.receipts
        /\ aside.system_txs = Append(s, a)
    BY DEF Checked, IsExecutor, JobFields, WorkFields, CacheFields, a
  <2> HIDE DEF aside, s
  <2> QED
    BY <2>1, <2>3, <2>4 DEF Checked, Blocked
<1>3. Checked(new, txs, k)
  <2>1. /\ IsExecutor(new) /\ WorldLean(new.world) /\ new.election_info = ex.election_info
        /\ new.is_miner = ex.is_miner /\ new.system_txs = ex.system_txs
        /\ Ok(new) => Ok(ex) /\ new.receipts = Append(ex.receipts, tx.gas)
    BY UserTxKept DEF Checked
  <2> HIDE DEF new
  <2> DEFINE r == ex.receipts
             p == Append(r, tx.gas)
  <2>2. ASSUME Ok(new)
        PROVE  /\ IsSequence(p)
               /\ Len(r) = k - 1 /\ (\A i \in 1..(k - 1) : r[i] = txs[i].gas) =>
                    Len(p) = k /\ \A i \in 1..k : p[i] = txs[i].gas
    <3>1. IsSequence(r)
      BY <2>1, <2>2 DEF Checked
    <3>2. /\ IsSequence(p) /\ Len(p) = Len(r) + 1 /\ Len(r) \in Nat /\ p[Len(p)] = tx.gas
          /\ \A i \in 1..Len(r) : p[i] = r[i]
      BY <3>1, SequenceAppend DEF Last
    <3> HIDE DEF p, r
    <3>3. \A i \in 1..k : i = k \/ i \in 1..(k - 1)
      OBVIOUS
    <3> QED
      BY <3>2, <3>3
  <2> HIDE DEF p, r
  <2>3. Ok(new) => new.receipts = p
    BY <2>1 DEF p, r
  <2> QED
    BY <2>1, <2>2, <2>3 DEF Checked, Blocked, r
<1> HIDE DEF aside, new
<1> QED
  BY <1>1, <1>2, <1>3

LEMMA CheckedRun ==
  ASSUME NEW ex, NEW txs, Len(txs) \in Nat, Checked(ex, txs, 0), TurnsOk(txs)
  PROVE  Checked(RunAll(execute_checked_transaction, ex, txs), txs, Len(txs))
<1>1. PICK r : /\ IsTrail(r, "checked", ex, txs)
               /\ RunAll(execute_checked_transaction, ex, txs) = r[Len(txs)]
  BY RunAllTrail
<1> DEFINE G == {i \in 0..Len(txs) : Checked(r[i], txs, i)}
<1>2. 0 \in G
  BY <1>1 DEF IsTrail
<1>3. ASSUME NEW i \in 1..Len(txs), i - 1 \in G PROVE i \in G
  <2>1. Checked(r[i - 1], txs, i - 1) /\ r[i] = execute_checked_transaction(r[i - 1], txs[i])
    BY <1>1, <1>3 DEF IsTrail, StepOf
  <2>2. Checked(r[i], txs, i)
    BY <2>1, CheckedStep DEF TurnsOk
  <2> QED
    BY <2>2
<1> HIDE DEF G
<1>4. \A i \in 0..Len(txs) : i \in G
  BY <1>2, <1>3, CountUp
<1>5. Checked(r[Len(txs)], txs, Len(txs))
  BY <1>4 DEF G
<1> QED
  BY <1>1, <1>5

----------------------------------------------------------------------------
(* The cells of the extra data. *)

\* A cell that is read as a byte is a number.
CellOk(c) == c[1] = "byte" => c[2] \in Nat
IsCells(s) == IsSequence(s) /\ \A i \in 1..Len(s) : CellOk(s[i])

LEMMA CellsConcat ==
  ASSUME NEW s, NEW t, IsSequence(s), IsSequence(t)
  PROVE  IsSequence(s \o t) /\ (IsCells(s) /\ IsCells(t) => IsCells(s \o t))
<1> DEFINE u == s \o t
<1>1. /\ IsSequence(u) /\ Len(u) = Len(s) + Len(t)
      /\ \A i \in 1..Len(s) : u[i] = s[i]
      /\ \A i \in 1..Len(t) : u[Len(s) + i] = t[i]
  BY SequenceConcat
<1>2. Len(s) \in Nat /\ Len(t) \in Nat
  BY SequenceForm
<1> HIDE DEF u
<1>3. ASSUME IsCells(s), IsCells(t), NEW i \in 1..Len(u) PROVE CellOk(u[i])
  <2>1. CASE i \in 1..Len(s)
    BY <1>1, <1>3, <2>1 DEF IsCells
  <2>2. CASE i \notin 1..Len(s)
    <3>1. i - Len(s) \in 1..Len(t) /\ Len(s) + (i - Len(s)) = i
      BY <1>1, <1>2, <2>2
    <3>2. u[i] = t[i - Len(s)]
      BY <1>1, <3>1
    <3> QED
      BY <1>3, <3>1, <3>2 DEF IsCells
  <2> QED
    BY <2>1, <2>2
<1> QED
  BY <1>1, <1>3 DEF IsCells, u

LEMMA OneCell ==
  ASSUME NEW c
  PROVE  /\ IsSequence(<<c>>) /\ Len(<<c>>) = 1 /\ (CellOk(c) => IsCells(<<c>>))
         /\ IsSequence(<<>>) /\ IsCells(<<>>)
<1>1. <<c>> \in Seq({c}) /\ Len(<<c>>) = 1 /\ <<c>>[1] = c
  OBVIOUS
<1>2. IsSequence(<<c>>) /\ IsSequence(<<>>)
  BY <1>1, SequenceEmpty DEF IsSequence
<1>3. CellOk(c) => IsCells(<<c>>)
  BY <1>1, <1>2 DEF IsCells
<1>4. IsCells(<<>>)
  BY <1>2 DEF IsCells
<1> QED
  BY <1>1, <1>2, <1>3, <1>4

\* The cells of a finite set of validators are a sequence, one after the other.
LEMMA ValidatorCells ==
  ASSUME NEW set, IsFiniteSet(set), NEW n
  PROVE  IsCells(ValidatorBytes(set, n))
<1> DEFINE below(a) == Cardinality({b \in set : b < a})
           card == Cardinality(set)
           sorted == [i \in 1..card |-> CHOOSE a \in set : below(a) = i - 1]
           key(a) == IF IsTransition("Luban", n) THEN ZeroAddress ELSE a
           cells(a) == IF IsActive("Luban", n) THEN <<<<"address", a>>, <<"vote", key(a)>>>>
                       ELSE <<<<"address", a>>>>
           seqs == [i \in DOMAIN sorted |-> cells(sorted[i])]
           S == {<<"address", sorted[i]>> : i \in 1..card} \cup {<<"vote", key(sorted[i])>> : i \in 1..card}
<1>1. card \in Nat /\ DOMAIN sorted = 1..card
  BY FS_CardinalityType
<1>2. ValidatorBytes(set, n) = FlattenSeq(seqs)
  BY DEF ValidatorBytes
<1>3. ASSUME NEW c \in S PROVE CellOk(c)
  <2>1. c[1] = "address" \/ c[1] = "vote"
    <3> HIDE DEF sorted
    <3> QED
      OBVIOUS
  <2> QED
    BY <2>1 DEF CellOk
<1> HIDE DEF card, sorted
<1>4. \A i \in 1..card : cells(sorted[i]) \in Seq(S)
  <2> SUFFICES ASSUME NEW i \in 1..card PROVE cells(sorted[i]) \in Seq(S)
    OBVIOUS
  <2> DEFINE a == <<"address", sorted[i]>>
             v == <<"vote", key(sorted[i])>>
  <2>1. a \in S /\ v \in S
    OBVIOUS
  <2>2. cells(sorted[i]) \in {<<a, v>>, <<a>>}
    OBVIOUS
  <2> HIDE DEF a, v, S, cells
  <2>3. <<a>> \in Seq(S) /\ <<a, v>> \in Seq(S)
    BY <2>1
  <2> QED
    BY <2>2, <2>3
<1> HIDE DEF S, cells
<1>5. seqs \in Seq(Seq(S))
  BY <1>1, <1>4
<1> HIDE DEF seqs
<1>6. FlattenSeq(seqs) \in Seq(S)
  BY <1>5, FlattenTyped
<1>7. \A s \in Seq(S) : IsCells(s)
  BY <1>3 DEF IsCells, IsSequence
<1> QED
  BY <1>2, <1>6, <1>7

\* The extra data that is assembled of the cells of the validators.
LEMMA ExtraCells ==
  ASSUME NEW n, NEW bytes, IsSequence(bytes), NEW turn, NEW att
  PROVE  LET extra == ExtraData(n, bytes, turn, att)
         IN /\ IsSequence(extra) /\ Len(extra) \in Nat \ {0}
            /\ IsCells(bytes) /\ turn \in Nat => IsCells(extra)
<1> DEFINE count == Len(bytes) \div VALIDATOR_BYTES_LEN_AFTER_LUBAN
           a == <<<<"vanity">>>>
           b == IF bytes # <<>> /\ IsActive("Luban", n) THEN <<<<"byte", count>>>> ELSE <<>>
           c == IF turn = NoTurn THEN <<>> ELSE <<<<"byte", turn>>>>
           d == IF att = NoVotes THEN <<>> ELSE <<<<"attestation", att>>>>
           ab == a \o b
           abx == ab \o bytes
           abxc == abx \o c
           all == abxc \o d
<1>1. ExtraData(n, bytes, turn, att) = all
  BY Zenon DEF ExtraData
<1>2. count \in Nat
  <2>1. Len(bytes) \in Nat
    BY SequenceForm
  <2> QED
    BY <2>1 DEF VALIDATOR_BYTES_LEN_AFTER_LUBAN
<1> HIDE DEF count
<1>3. IsCells(a) /\ IsSequence(a) /\ Len(a) = 1
  <2>1. CellOk(<<"vanity">>)
    BY DEF CellOk
  <2> QED
    BY <2>1, OneCell
<1>4. IsCells(b) /\ IsSequence(b)
  <2>1. CellOk(<<"byte", count>>)
    BY <1>2 DEF CellOk
  <2> QED
    BY <2>1, OneCell
<1>5. IsSequence(c) /\ (turn \in Nat => IsCells(c))
  <2>1. turn \in Nat => CellOk(<<"byte", turn>>)
    BY DEF CellOk
  <2> QED
    BY <2>1, OneCell
<1>6. IsSequence(d) /\ IsCells(d)
  <2>1. CellOk(<<"attestation", att>>)
    BY DEF CellOk
  <2> QED
    BY <2>1, OneCell
<1> HIDE DEF a, b, c, d
<1>7. IsSequence(ab) /\ IsCells(ab) /\ Len(ab) = Len(a) + Len(b)
  BY <1>3, <1>4, CellsConcat, SequenceConcat
<1> HIDE DEF ab
<1>8. IsSequence(abx) /\ (IsCells(bytes) => IsCells(abx)) /\ Len(abx) = Len(ab) + Len(bytes)
  BY <1>7, CellsConcat, SequenceConcat
<1> HIDE DEF abx
<1>9. /\ IsSequence(abxc) /\ Len(abxc) = Len(abx) + Len(c)
      /\ IsCells(bytes) /\ turn \in Nat => IsCells(abxc)
  BY <1>5, <1>8, CellsConcat, SequenceConcat
<1> HIDE DEF abxc
<1>10. /\ IsSequence(all) /\ Len(all) = Len(abxc) + Len(d)
       /\ IsCells(bytes) /\ turn \in Nat => IsCells(all)
  BY <1>6, <1>9, CellsConcat, SequenceConcat
<1> HIDE DEF all
<1>11. Len(b) \in Nat /\ Len(bytes) \in Nat /\ Len(c) \in Nat /\ Len(d) \in Nat
  BY <1>4, <1>5, <1>6, SequenceForm
<1>12. Len(all) \in Nat \ {0}
  BY <1>3, <1>7, <1>8, <1>9, <1>10, <1>11
<1> QED
  BY <1>1, <1>10, <1>12

----------------------------------------------------------------------------
(* Seals. *)

\* A sequence without its last element.
LEMMA FrontFacts ==
  ASSUME NEW s, IsSequence(s), s # <<>>
  PROVE  /\ IsSequence(Front(s)) /\ Len(s) \in Nat \ {0} /\ Len(Front(s)) = Len(s) - 1
         /\ \A i \in 1..(Len(s) - 1) : Front(s)[i] = s[i]
<1>1. PICK S : s \in Seq(S)
  BY DEF IsSequence
<1>2. Len(s) \in Nat /\ Len(s) # 0 /\ \A i \in 1..Len(s) : s[i] \in S
  BY <1>1
<1> DEFINE n == Len(s) - 1
<1>3. n \in Nat /\ \A i \in 1..n : s[i] \in S
  BY <1>2
<1>4. Front(s) = SubSeq(s, 1, n)
  BY DEF Front
<1> HIDE DEF n
<1>5. /\ SubSeq(s, 1, n) \in Seq(S) /\ Len(SubSeq(s, 1, n)) = n
      /\ \A i \in 1..n : SubSeq(s, 1, n)[i] = s[i]
  BY <1>3, SubSeqIs
<1> QED
  BY <1>2, <1>4, <1>5 DEF n, IsSequence

LEMMA SameSequence ==
  ASSUME NEW s, NEW t, IsSequence(s), IsSequence(t), Len(s) = Len(t), \A i \in 1..Len(s) : s[i] = t[i]
  PROVE  s = t
<1>1. /\ Len(s) \in Nat /\ s = [i \in 1..Len(s) |-> s[i]] /\ t = [i \in 1..Len(t) |-> t[i]]
  BY SequenceForm
<1> QED
  BY <1>1

LEMMA FrontAppend ==
  ASSUME NEW s, IsSequence(s), NEW x
  PROVE  Front(Append(s, x)) = s /\ Last(Append(s, x)) = x /\ Append(s, x) # <<>> /\ IsSequence(Append(s, x))
<1> DEFINE t == Append(s, x)
<1>1. /\ IsSequence(t) /\ t # <<>> /\ Len(t) = Len(s) + 1 /\ Len(s) \in Nat /\ Last(t) = x
      /\ \A i \in 1..Len(s) : t[i] = s[i]
  BY SequenceAppend
<1> HIDE DEF t
<1>2. /\ IsSequence(Front(t)) /\ Len(Front(t)) = Len(s) /\ \A i \in 1..Len(s) : Front(t)[i] = t[i]
  <2>1. Len(t) - 1 = Len(s)
    BY <1>1
  <2> QED
    BY <1>1, <2>1, FrontFacts
<1>3. Front(t) = s
  BY <1>1, <1>2, SameSequence
<1> QED
  BY <1>1, <1>3 DEF t

LEMMA FrontAndLast ==
  ASSUME NEW s, NEW t, IsSequence(s), IsSequence(t), s # <<>>, t # <<>>, Front(s) = Front(t), Last(s) = Last(t)
  PROVE  s = t
<1>1. /\ Len(s) \in Nat \ {0} /\ Len(Front(s)) = Len(s) - 1 /\ \A i \in 1..(Len(s) - 1) : Front(s)[i] = s[i]
      /\ Len(t) \in Nat \ {0} /\ Len(Front(t)) = Len(t) - 1 /\ \A i \in 1..(Len(t) - 1) : Front(t)[i] = t[i]
  BY FrontFacts
<1>2. Len(s) = Len(t)
  BY <1>1
<1>3. ASSUME NEW i \in 1..Len(s) PROVE s[i] = t[i]
  <2>1. CASE i = Len(s)
    BY <1>2, <2>1 DEF Last
  <2>2. CASE i # Len(s)
    <3>1. i \in 1..(Len(s) - 1) /\ i \in 1..(Len(t) - 1)
      BY <1>1, <1>2, <2>2
    <3> QED
      BY <1>1, <3>1
  <2> QED
    BY <2>1, <2>2
<1> QED
  BY <1>2, <1>3, SameSequence

\* A seal replaces the last cell and covers the others.
LEMMA SealFacts ==
  ASSUME NEW h, IsBlock(h), IsSequence(h.extra), h.extra # <<>>, NEW by
  PROVE  LET b == Sealed(h, by)
         IN /\ IsBlock(b) /\ \A f \in BlockFields \ {"extra"} : b[f] = h[f]
            /\ IsSequence(b.extra) /\ b.extra # <<>> /\ Front(b.extra) = Front(h.extra)
            /\ Last(b.extra) = <<"seal", by, hash_with_chain_id(b)>>
            /\ Len(b.extra) = Len(h.extra)
            /\ IsCells(h.extra) => IsCells(b.extra)
<1> DEFINE b == Sealed(h, by)
           s == Front(h.extra)
           x == seal_header(h, by)
           y == Append(s, x)
<1>1. b = [h EXCEPT !.extra = y]
  BY DEF Sealed
<1>2. /\ IsSequence(s) /\ Len(h.extra) \in Nat \ {0} /\ Len(s) = Len(h.extra) - 1
      /\ \A i \in 1..(Len(h.extra) - 1) : s[i] = h.extra[i]
  BY FrontFacts
<1> HIDE DEF s, x
<1>3. IsSequence(y) /\ y # <<>> /\ Front(y) = s /\ Last(y) = x
  BY <1>2, FrontAppend
<1>4. Len(y) = Len(h.extra) /\ (\A i \in 1..Len(s) : y[i] = s[i]) /\ y[Len(y)] = x
  BY <1>2, SequenceAppend DEF Last
<1> HIDE DEF y
<1>5. /\ IsBlock(b) /\ b.extra = y /\ \A f \in BlockFields \ {"extra"} : b[f] = h[f]
  BY <1>1 DEF IsBlock, BlockFields, PlainFields, AddedFields
<1>6. [b EXCEPT !.extra = s] = [h EXCEPT !.extra = s]
  BY <1>1
<1> HIDE DEF b
<1>7. hash_with_chain_id(b) = hash_with_chain_id(h)
  <2> DEFINE signed == [h EXCEPT !.extra = Front(@)]
  <2>1. [b EXCEPT !.extra = Front(@)] = [b EXCEPT !.extra = s] /\ signed = [h EXCEPT !.extra = s]
    BY <1>3, <1>5 DEF s
  <2>2. [b EXCEPT !.extra = Front(@)] = signed
    BY <1>6, <2>1
  <2>3. b.parent_beacon_block_root = h.parent_beacon_block_root
    BY <1>5 DEF BlockFields, PlainFields, AddedFields
  <2> DEFINE Hash(root, sig) == IF root = 0 THEN sig
                                ELSE [sig EXCEPT !.base_fee_per_gas = None, !.withdrawals_root = None,
                         !.blob_gas_used = None, !.excess_blob_gas = None,
                         !.parent_beacon_block_root = None, !.requests_hash = None]
  <2>4. /\ hash_with_chain_id(b) = Hash(b.parent_beacon_block_root, [b EXCEPT !.extra = Front(@)])
        /\ hash_with_chain_id(h) = Hash(h.parent_beacon_block_root, [h EXCEPT !.extra = Front(@)])
    BY Zenon DEF hash_with_chain_id
  <2> HIDE DEF Hash
  <2> QED
    BY <2>2, <2>3, <2>4, Zenon
<1>8. Last(y) = <<"seal", by, hash_with_chain_id(b)>>
  BY <1>3, <1>7 DEF x, seal_header
<1>9. IsCells(h.extra) => IsCells(y)
  <2>1. CellOk(x)
    BY DEF x, seal_header, CellOk
  <2>2. \A i \in 1..Len(y) : i = Len(y) \/ (i \in 1..Len(s) /\ i \in 1..(Len(h.extra) - 1))
    BY <1>2, <1>4
  <2> QED
    BY <1>2, <1>3, <1>4, <2>1, <2>2 DEF IsCells
<1> QED
  BY <1>3, <1>4, <1>5, <1>8, <1>9 DEF b, s

\* From Bohr on the hash that is signed tells headers apart.
LEMMA HashTells ==
  ASSUME NEW a, NEW b, IsBlock(a), IsBlock(b), IsSequence(a.extra), IsSequence(b.extra),
         a.extra # <<>>, b.extra # <<>>, Last(a.extra) = Last(b.extra),
         a.parent_beacon_block_root = 0, b.parent_beacon_block_root = 0,
         hash_with_chain_id(a) = hash_with_chain_id(b)
  PROVE  a = b
<1> DEFINE s == Front(a.extra)
           t == Front(b.extra)
           u == [a EXCEPT !.extra = s]
           v == [b EXCEPT !.extra = t]
<1>1. u = v
  BY DEF hash_with_chain_id
<1> HIDE DEF s, t
<1>2. /\ u.extra = s /\ v.extra = t
      /\ \A f \in BlockFields \ {"extra"} : u[f] = a[f] /\ v[f] = b[f]
  BY DEF IsBlock, BlockFields, PlainFields, AddedFields
<1> HIDE DEF u, v
<1>3. s = t /\ \A f \in BlockFields \ {"extra"} : a[f] = b[f]
  BY <1>1, <1>2
<1>4. a.extra = b.extra
  BY <1>3, FrontAndLast DEF s, t
<1>5. \A f \in BlockFields : a[f] = b[f]
  BY <1>3, <1>4
<1> QED
  BY <1>5 DEF IsBlock

\* What is read of a header for validators is a sequence, whatever the header says.
LEMMA BytesRead ==
  ASSUME NEW h, IsCells(h.extra), NEW e
  PROVE  IsSequence(get_validator_bytes_from_header(h, e))
<1> DEFINE x == h.extra
           bytes == get_validator_bytes_from_header(h, e)
<1>1. Len(x) \in Nat /\ x = [i \in 1..Len(x) |-> x[i]]
  BY SequenceForm DEF IsCells
<1>2. ASSUME NEW m \in Nat, NEW n \in Int PROVE IsSequence(SubSeq(x, m, n))
  <2>1. SubSeq(x, m, n) = [i \in 1..(1 + n - m) |-> x[i + m - 1]]
    OBVIOUS
  <2> DEFINE k == IF 1 + n - m >= 0 THEN 1 + n - m ELSE 0
             t == SubSeq(x, m, n)
  <2>2. k \in Nat /\ 1..(1 + n - m) = 1..k
    BY <1>2
  <2> HIDE DEF k
  <2>3. t = [i \in 1..k |-> t[i]]
    BY <2>1, <2>2
  <2> QED
    BY <2>2, <2>3, SequenceOf
<1>3. HasItems(h) => CountByte(h) \in Nat
  <2> SUFFICES ASSUME HasItems(h) PROVE CountByte(h) \in Nat
    OBVIOUS
  <2>1. 2 \in 1..Len(x)
    BY <1>1 DEF HasItems, EXTRA_VANITY_LEN, EXTRA_SEAL_LEN
  <2>2. CellOk(x[2])
    BY <2>1 DEF IsCells
  <2>3. CountByte(h) = IF x[2][1] = "byte" THEN x[2][2] ELSE 248
    BY DEF CountByte, EXTRA_VANITY_LEN, NotAByte
  <2> QED
    BY <2>2, <2>3 DEF CellOk
<1>4. HasItems(h) => ValidatorsEnd(h) \in Int
  BY <1>3 DEF ValidatorsEnd, EXTRA_VANITY_LEN, VALIDATOR_NUMBER_SIZE, VALIDATOR_BYTES_LEN_AFTER_LUBAN
<1>5. \/ bytes = <<>>
      \/ bytes = SubSeq(x, 2, Len(x) - 1)
      \/ HasItems(h) /\ bytes = SubSeq(x, 3, ValidatorsEnd(h))
  <2>1. EXTRA_VANITY_LEN + 1 = 2 /\ EXTRA_VANITY_LEN + VALIDATOR_NUMBER_SIZE + 1 = 3
    BY DEF EXTRA_VANITY_LEN, VALIDATOR_NUMBER_SIZE
  <2>2. EXTRA_SEAL_LEN = 1
    BY DEF EXTRA_SEAL_LEN
  <2>3. \/ bytes = <<>>
        \/ bytes = SubSeq(x, EXTRA_VANITY_LEN + 1, Len(x) - EXTRA_SEAL_LEN)
        \/ HasItems(h) /\ bytes = SubSeq(x, EXTRA_VANITY_LEN + VALIDATOR_NUMBER_SIZE + 1, ValidatorsEnd(h))
    BY Zenon DEF get_validator_bytes_from_header
  <2> HIDE DEF bytes
  <2> QED
    BY <2>1, <2>2, <2>3, Zenon
<1>6. IsSequence(SubSeq(x, 2, Len(x) - 1))
  BY <1>1, <1>2
<1>7. HasItems(h) => IsSequence(SubSeq(x, 3, ValidatorsEnd(h)))
  BY <1>2, <1>4
<1> HIDE DEF bytes
<1> QED
  BY <1>5, <1>6, <1>7, SequenceEmpty DEF bytes

----------------------------------------------------------------------------
(* Blocks that a proposer altered. *)

\* A block whose lists are lists.
Well(b) ==
  IsBlock(b) /\ IsSequence(b.extra) /\ b.extra # <<>> /\ IsSequence(b.system_txs)

LEMMA SealedWell ==
  ASSUME NEW b, Well(b), NEW by
  PROVE  Well(Sealed(b, by))
<1>1. "system_txs" \in BlockFields \ {"extra"}
  BY DEF BlockFields, PlainFields
<1> QED
  BY <1>1, SealFacts DEF Well

\* Nothing a proposer does to its block makes it something else than a block.
LEMMA OtherHeadersWell ==
  ASSUME NEW block, Well(block), NEW b \in OtherHeaders(block)
  PROVE  Well(b)
<1>1. ASSUME NEW u
      PROVE  /\ Well([block EXCEPT !.gas_used = u]) /\ Well([block EXCEPT !.receipts_root = u])
             /\ Well([block EXCEPT !.inturn = u]) /\ Well([block EXCEPT !.base_fee_per_gas = u])
             /\ Well([block EXCEPT !.blob_gas_used = u]) /\ Well([block EXCEPT !.excess_blob_gas = u])
             /\ Well([block EXCEPT !.parent_beacon_block_root = u])
             /\ Well([block EXCEPT !.requests_hash = u])
  BY DEF Well, IsBlock, BlockFields, PlainFields, AddedFields
<1>2. ASSUME NEW u, IsSequence(u), u # <<>> PROVE Well([block EXCEPT !.extra = u])
  BY <1>2 DEF Well, IsBlock, BlockFields, PlainFields, AddedFields
<1> DEFINE short == <<Head(block.extra), Last(block.extra)>>
<1>3. \/ \E u : \/ b = [block EXCEPT !.gas_used = u]
                \/ b = [block EXCEPT !.receipts_root = u]
                \/ b = [block EXCEPT !.inturn = u]
                \/ b = [block EXCEPT !.base_fee_per_gas = u]
                \/ b = [block EXCEPT !.blob_gas_used = u]
                \/ b = [block EXCEPT !.excess_blob_gas = u]
                \/ b = [block EXCEPT !.parent_beacon_block_root = u]
                \/ b = [block EXCEPT !.requests_hash = u]
      \/ b = [block EXCEPT !.extra = short]
  BY DEF OtherHeaders
<1>4. IsSequence(short) /\ short # <<>>
  <2> DEFINE p == Head(block.extra)
             q == Last(block.extra)
  <2>1. <<p, q>> \in Seq({p, q}) /\ <<p, q>> # <<>>
    OBVIOUS
  <2> QED
    BY <2>1 DEF IsSequence
<1> HIDE DEF short
<1>5. Well([block EXCEPT !.extra = short])
  BY <1>2, <1>4
<1> QED
  BY <1>1, <1>3, <1>5

LEMMA ReorderedSequence ==
  ASSUME NEW txs, IsSequence(txs), NEW i \in Positions(txs), NEW x, NEW y
  PROVE  /\ IsSequence(RemoveAt(txs, i)) /\ IsSequence(InsertAt(txs, i, x))
         /\ IsSequence([txs EXCEPT ![i] = x, ![i + 1] = y])
         /\ IsSequence([txs EXCEPT ![i] = x])
<1>1. Len(txs) \in Nat /\ DOMAIN txs = 1..Len(txs)
  BY SequenceForm
<1>2. i \in 1..Len(txs)
  BY <1>1 DEF Positions
<1>3. PICK S : txs \in Seq(S)
  BY DEF IsSequence
<1>4. IsSequence(RemoveAt(txs, i))
  BY <1>2, <1>3, RemoveAtFacts DEF IsSequence
<1>5. IsSequence(InsertAt(txs, i, x))
  <2> DEFINE low == SubSeq(txs, 1, i - 1)
             up == SubSeq(txs, i, Len(txs))
             k == i - 1
             n == Len(txs)
  <2>0. k \in Nat /\ n \in Nat /\ k <= n /\ k + 1 = i /\ (\A j \in 1..k : txs[j] \in S)
        /\ (\A j \in (k + 1)..n : txs[j] \in S)
    BY <1>1, <1>2, <1>3
  <2>1. low = SubSeq(txs, 1, k) /\ up = SubSeq(txs, k + 1, n)
    BY <2>0
  <2> HIDE DEF k, n
  <2>2. SubSeq(txs, 1, k) \in Seq(S)
    BY <2>0, SubSeqIs
  <2>3. SubSeq(txs, k + 1, n) \in Seq(S)
    BY <2>0, SubSeqIs
  <2>4. IsSequence(low) /\ IsSequence(up) /\ IsSequence(<<x>>)
    BY <2>1, <2>2, <2>3, OneCell DEF IsSequence
  <2>5. InsertAt(txs, i, x) = (low \o <<x>>) \o up
    BY DEF InsertAt
  <2> HIDE DEF low, up
  <2>6. IsSequence(low \o <<x>>)
    BY <2>4, SequenceConcat
  <2> QED
    BY <2>4, <2>5, <2>6, SequenceConcat
<1>6. ASSUME NEW s, DOMAIN s = DOMAIN txs, s = [j \in DOMAIN s |-> s[j]] PROVE IsSequence(s)
  BY <1>1, <1>6, SequenceOf
<1>7. IsSequence([txs EXCEPT ![i] = x, ![i + 1] = y]) /\ IsSequence([txs EXCEPT ![i] = x])
  <2> DEFINE s == [txs EXCEPT ![i] = x, ![i + 1] = y]
             t == [txs EXCEPT ![i] = x]
  <2>1. DOMAIN s = DOMAIN txs /\ s = [j \in DOMAIN s |-> s[j]]
    BY <1>3
  <2>2. DOMAIN t = DOMAIN txs /\ t = [j \in DOMAIN t |-> t[j]]
    BY <1>3
  <2> HIDE DEF s, t
  <2>3. IsSequence(s) /\ IsSequence(t)
    BY <1>6, <2>1, <2>2
  <2> QED
    BY <2>3 DEF s, t
<1> QED
  BY <1>4, <1>5, <1>7

LEMMA RenumberedSequence ==
  ASSUME NEW txs, IsSequence(txs), NEW first
  PROVE  IsSequence(Renumbered(txs, first))
<1> DEFINE s == Renumbered(txs, first)
<1>1. Len(txs) \in Nat /\ DOMAIN txs = 1..Len(txs)
  BY SequenceForm
<1>2. s = [i \in 1..Len(txs) |-> s[i]]
  BY <1>1 DEF Renumbered
<1> QED
  BY <1>1, <1>2, SequenceOf

LEMMA AlteredWell ==
  ASSUME NEW block, Well(block), IsCells(block.extra), NEW fault, NEW b \in Altered(block, fault)
  PROVE  Well(b)
<1> DEFINE txs == block.system_txs
           receipts(new) == SubSeq(block.receipts_root, 1, Len(block.txs))
                            \o [i \in DOMAIN new |-> SystemGas[new[i].call]]
           sealed(header) == Sealed(header, block.beneficiary)
           changed(new) == [block EXCEPT !.system_txs = Renumbered(new, txs[1].nonce),
                                         !.receipts_root = receipts(new),
                                         !.gas_used = Total(receipts(new))]
           with(new) == sealed(changed(new))
           reworded(bytes, t, att) ==
             [block EXCEPT !.extra = Append(ExtraData(block.number, bytes, t, att), Last(@))]
           saying(bytes, t, att) == sealed(reworded(bytes, t, att))
           validators == get_validator_bytes_from_header(block, TipSnap.epoch_num)
           turn == get_turn_length_from_header(block, TipSnap.epoch_num)
           attestation == AttestationIn(snaps, block)
           voters == snaps[Len(chain) - 1].validators
<1>0. IsSequence(txs) /\ IsBlock(block)
  BY DEF Well
<1>1. ASSUME NEW new, IsSequence(new) PROVE Well(with(new))
  <2>1. IsSequence(Renumbered(new, txs[1].nonce))
    BY <1>1, RenumberedSequence
  <2> DEFINE s == Renumbered(new, txs[1].nonce)
             r == receipts(new)
             g == Total(receipts(new))
  <2> HIDE DEF s, r, g
  <2>2. Well([block EXCEPT !.system_txs = s, !.receipts_root = r, !.gas_used = g])
    <3>1. IsSequence(s)
      BY <2>1 DEF s
    <3> QED
      BY <3>1 DEF Well, IsBlock, BlockFields, PlainFields, AddedFields
  <2>3. Well(changed(new))
    BY <2>2 DEF s, r, g
  <2> HIDE DEF changed
  <2> QED
    BY <2>3, SealedWell
<1>2. ASSUME NEW bytes, IsSequence(bytes), NEW t, NEW att PROVE Well(saying(bytes, t, att))
  <2> DEFINE e == ExtraData(block.number, bytes, t, att)
             x == Append(e, Last(block.extra))
  <2>1. IsSequence(e)
    BY <1>2, ExtraCells
  <2> HIDE DEF e
  <2>2. IsSequence(x) /\ x # <<>>
    BY <2>1, SequenceAppend
  <2> HIDE DEF x
  <2>3. Well([block EXCEPT !.extra = x])
    BY <2>2 DEF Well, IsBlock, BlockFields, PlainFields, AddedFields
  <2>4. reworded(bytes, t, att) = [block EXCEPT !.extra = x]
    BY <1>0 DEF IsBlock, BlockFields, PlainFields, x, e
  <2> HIDE DEF reworded
  <2> QED
    BY <2>3, <2>4, SealedWell
<1>3. \A i \in Positions(txs) :
        /\ IsSequence(RemoveAt(txs, i)) /\ \A x : IsSequence(InsertAt(txs, i, x))
        /\ \A x, y : IsSequence([txs EXCEPT ![i] = x, ![i + 1] = y])
        /\ \A x : IsSequence([txs EXCEPT ![i] = x])
  BY <1>0, ReorderedSequence
<1>4. IsSequence(validators)
  BY BytesRead
<1>5. \A set \in {{}, Nodes, {1}} : IsSequence(ValidatorBytes(set, block.number))
  <2>1. \A set \in {{}, Nodes, {1}} : IsFiniteSet(set)
    BY SnapshotConstants, FS_EmptySet, FS_Singleton DEF Nodes
  <2> QED
    BY <2>1, ValidatorCells DEF IsCells
<1> HIDE DEF with, saying
<1>6. CASE fault = "drop"
  <2>1. PICK i \in Positions(txs) : b = with(RemoveAt(txs, i))
    BY <1>6 DEF Altered, with
  <2> QED
    BY <1>1, <1>3, <2>1
<1>7. CASE fault = "repeat"
  <2>1. PICK i \in Positions(txs) : b = with(InsertAt(txs, i, txs[i]))
    BY <1>7 DEF Altered, with
  <2> QED
    BY <1>1, <1>3, <2>1
<1>8. CASE fault = "swap"
  <2>1. PICK i \in Positions(txs) : b = with([txs EXCEPT ![i] = txs[i + 1], ![i + 1] = txs[i]])
    BY <1>8 DEF Altered, with
  <2> QED
    BY <1>1, <1>3, <2>1
<1>9. CASE fault = "value"
  <2>1. PICK i \in Positions(txs) : b = with([txs EXCEPT ![i].value = @ + 1])
    BY <1>9 DEF Altered, with
  <2>2. [txs EXCEPT ![i].value = @ + 1] = [txs EXCEPT ![i] = [txs[i] EXCEPT !.value = @ + 1]]
    OBVIOUS
  <2>3. IsSequence([txs EXCEPT ![i].value = @ + 1])
    BY <1>3, <2>2
  <2> QED
    BY <1>1, <2>1, <2>3
<1>10. CASE fault = "validators"
  <2>1. PICK set \in {{}, Nodes, {1}} : b = saying(ValidatorBytes(set, block.number), turn, attestation)
    BY <1>10 DEF Altered, saying
  <2> QED
    BY <1>2, <1>5, <2>1
<1>11. CASE fault = "turn"
  <2>1. PICK t \in TurnLengths \cup {NoTurn} : b = saying(validators, t, attestation)
    BY <1>11 DEF Altered, saying
  <2> QED
    BY <1>2, <1>4, <2>1
<1>12. CASE fault = "header"
  <2>1. PICK header \in OtherHeaders(block) : b = sealed(header)
    BY <1>12 DEF Altered
  <2> QED
    BY <2>1, OtherHeadersWell, SealedWell
<1>13. CASE fault = "forged"
  <2>1. b \in OtherHeaders(block)
    BY <1>13 DEF Altered
  <2> QED
    BY <2>1, OtherHeadersWell
<1>14. CASE fault = "unsigned"
  <2>1. b = saying(validators, turn, [attestation EXCEPT !.voters = Nodes])
    BY <1>14 DEF Altered, saying
  <2> QED
    BY <1>2, <1>4, <2>1
<1>15. CASE fault = "attested"
  <2>1. b = saying(validators, turn, [source |-> TipSnap.vote_data.target, target |-> Len(chain),
                                     voters |-> voters, signers |-> voters])
    BY <1>15 DEF Altered, saying
  <2> QED
    BY <1>2, <1>4, <2>1
<1>16. fault \in {"drop", "repeat", "swap", "value", "validators", "turn", "header", "forged",
                  "unsigned", "attested"}
  BY DEF Altered
<1> QED
  BY <1>6, <1>7, <1>8, <1>9, <1>10, <1>11, <1>12, <1>13, <1>14, <1>15, <1>16

----------------------------------------------------------------------------
(* The beginning and the end of an execution. *)

\* An executor that nothing was done with.
Blank(ex) ==
  /\ IsExecutor(ex) /\ WorldLean(ex.world) /\ ex.election_info = Zero
  /\ ex.gas_used = 0 /\ ex.receipts = <<>> /\ ex.txs = <<>> /\ ex.system_txs = <<>>
  /\ ex.assembled_system_txs = <<>>

LEMMA ElectionRead ==
  ASSUME NEW ex, IsExecutor(ex), NEW block
  PROVE  /\ check_new_block(ex, block).election_info \in {ex.election_info, ex.world.power}
         /\ prepare_new_block(ex).election_info \in {ex.election_info, ex.world.power}
<1>1. ASSUME NEW x, IsExecutor(x) PROVE read_election_info(x).election_info \in {x.election_info, x.world.power}
  BY <1>1 DEF read_election_info, get_validator_election_info, IsExecutor, WorkFields
<1> DEFINE with == get_current_validators_with_cache(ex, ex.parent)
           read == IF ex.number % ex.snap.epoch_num = 0
                   THEN [with EXCEPT !.current_validators = with.validator_cache[ex.parent]] ELSE ex
<1>2. \/ check_new_block(ex, block) = read_election_info(read)
      \/ check_new_block(ex, block) = [ex EXCEPT !.err = "attestation"]
      \/ check_new_block(ex, block) = [ex EXCEPT !.err = "seal"]
  BY DEF check_new_block, Fail
<1>3. IsExecutor(with) /\ with.election_info = ex.election_info /\ with.world = ex.world
  BY DEF get_current_validators_with_cache, IsExecutor, JobFields, WorkFields, CacheFields
<1> HIDE DEF with
<1>4. IsExecutor(read) /\ read.election_info = ex.election_info /\ read.world = ex.world
  BY <1>3 DEF IsExecutor, JobFields, WorkFields, CacheFields
<1> HIDE DEF read
<1>5. read_election_info(read).election_info \in {ex.election_info, ex.world.power}
  BY <1>1, <1>4
<1>6. \A why : [ex EXCEPT !.err = why].election_info = ex.election_info
  BY DEF IsExecutor, WorkFields
<1>7. check_new_block(ex, block).election_info \in {ex.election_info, ex.world.power}
  BY <1>2, <1>5, <1>6
<1> QED
  BY <1>1, <1>7 DEF prepare_new_block

LEMMA EmptyBooks ==
  /\ GasOf(<<>>) = <<>> /\ CallGas(<<>>) = <<>> /\ <<>> \o <<>> = <<>> /\ Total(<<>>) = 0
<1>1. Total(<<>>) = 0
  BY TotalAppend, SequenceEmpty
<1> QED
  BY <1>1 DEF GasOf, CallGas

\* The beginning of an execution, in both roles.
LEMMA BeginKept ==
  ASSUME NEW ex, Blank(ex), NEW block, NEW all
  PROVE  LET beg == apply_pre_execution_changes(ex, block)
         IN /\ ex.is_miner => Kept(beg, all) /\ beg.is_miner /\ beg.assembled_system_txs = <<>>
            /\ ~ex.is_miner => \A txs : Checked(beg, txs, 0)
<1> DEFINE chk == IF ex.is_miner THEN prepare_new_block(ex) ELSE check_new_block(ex, block)
           up == try_update_build_in_system_contract(chk, TRUE)
           beg == apply_pre_execution_changes(ex, block)
<1>0. IsExecutor(ex)
  BY DEF Blank
<1>1. beg = IF Ok(chk) THEN up ELSE chk
  BY DEF apply_pre_execution_changes, Then
<1>2. Reading(ex, chk) /\ chk.election_info \in {ex.election_info, ex.world.power}
  BY <1>0, CheckReads, ElectionRead
<1> HIDE DEF chk, beg
<1> DEFINE Good(x) ==
             /\ IsExecutor(x) /\ WorldLean(x.world) /\ IsFiniteSet(DOMAIN x.election_info)
             /\ x.is_miner = ex.is_miner /\ x.gas_used = 0 /\ x.receipts = <<>> /\ x.txs = <<>>
             /\ x.system_txs = <<>> /\ x.assembled_system_txs = <<>>
<1>3. Good(chk)
  <2>1. IsFiniteSet(DOMAIN Zero) /\ IsFiniteSet(DOMAIN ex.world.power)
    BY SnapshotConstants DEF Zero, Blank, WorldLean
  <2> QED
    BY <1>2, <2>1 DEF Blank, Reading, SameJob, JobFields, WorkFields
<1>4. Good(up)
  <2>1. Upgrading(chk, up)
    BY <1>3, UpgradeFacts
  <2> HIDE DEF up
  <2>2. WorldLean(up.world)
    BY <1>3, <2>1 DEF Upgrading, WorldLean, SansCode, WorldFields
  <2> QED
    BY <1>3, <2>1, <2>2 DEF Upgrading, SameJob, JobFields, WorkFields
<1> HIDE DEF up
<1>5. Good(beg)
  BY <1>1, <1>3, <1>4
<1>6. ASSUME ex.is_miner PROVE Kept(beg, all)
  <2>1. MinerBooks(beg)
    BY <1>5, EmptyBooks, SequenceEmpty DEF MinerBooks, TurnsOk
  <2> QED
    BY <1>5, <1>6, <2>1 DEF Kept
<1>7. ASSUME ~ex.is_miner, NEW txs PROVE Checked(beg, txs, 0)
  BY <1>5, <1>7, SequenceEmpty DEF Checked
<1> QED
  BY <1>5, <1>6, <1>7 DEF beg

\* The end of a build keeps the books.
LEMMA BareKept ==
  ASSUME NEW ex, NEW all, Kept(ex, all), ex.is_miner, Ok(ex), Ok(Bare(ex))
  PROVE  MinerBooks(Bare(ex)) /\ WorldLean(Bare(ex).world)
<1> DEFINE upg == try_update_build_in_system_contract(ex, FALSE)
           ini == initialize_contracts(upg)
           due == transact_due(ini, ini.beneficiary = InturnValidator(ini.snap))
           bare == Bare(ex)
<1>0. IsExecutor(ex)
  BY DEF Kept
<1>1. Upgrading(ex, upg)
  BY <1>0, UpgradeFacts
<1>2. Kept(upg, all)
  BY <1>1, UpgradeKept
<1>3. Frame(upg, ini) /\ Kept(ini, all)
  BY <1>1, <1>2, InitializeFrame, InitializeKept DEF Upgrading
<1>4. ini.is_miner
  BY <1>1, <1>3 DEF Upgrading, Frame, SameJob, JobFields
<1>5. bare = IF ~Ok(ini) THEN ini ELSE share_for_next_epoch(due)
  BY <1>4 DEF Bare, finish, Then, EndOfRole, finalize_new_block
<1> HIDE DEF upg, bare
<1>6. Kept(due, all) /\ Frame(ini, due)
  <2>1. IsExecutor(ini)
    BY <1>3 DEF Frame
  <2> QED
    BY <1>3, <2>1, DueKept, DueFrame
<1>7. due.is_miner
  BY <1>4, <1>6 DEF Frame, SameJob, JobFields
<1> HIDE DEF ini, due
<1>8. CASE bare = ini
  BY <1>3, <1>4, <1>8 DEF Kept, bare
<1>9. CASE bare = share_for_next_epoch(due)
  <2> DEFINE share(u, v) == [due EXCEPT !.shared_validators = u, !.shared_turn = v]
  <2>1. bare = due \/ \E u, v : bare = share(u, v)
    BY <1>9 DEF share_for_next_epoch
  <2>2. ASSUME NEW u, NEW v
        PROVE  LET x == share(u, v)
               IN /\ x.world = due.world /\ x.err = due.err /\ x.txs = due.txs
                  /\ x.assembled_system_txs = due.assembled_system_txs
                  /\ x.receipts = due.receipts /\ x.gas_used = due.gas_used
    BY <1>6 DEF Frame, IsExecutor, WorkFields
  <2> HIDE DEF share
  <2>3. /\ bare.world = due.world /\ bare.err = due.err /\ bare.txs = due.txs
        /\ bare.assembled_system_txs = due.assembled_system_txs
        /\ bare.receipts = due.receipts /\ bare.gas_used = due.gas_used
    BY <2>1, <2>2
  <2>4. Ok(due)
    BY <2>3 DEF Ok, bare
  <2>5. MinerBooks(due) /\ WorldLean(due.world)
    BY <1>6, <1>7, <2>4 DEF Kept
  <2>6. MinerBooks(bare)
    BY <2>3, <2>5 DEF MinerBooks
  <2> QED
    BY <2>3, <2>5, <2>6 DEF bare
<1> QED
  BY <1>5, <1>8, <1>9

----------------------------------------------------------------------------
(* A block as a node builds it. *)

\* A block as a node builds it on a parent.
Honest(b, parent, snap) ==
  /\ Well(b) /\ IsCells(b.extra) /\ IsSequence(b.txs) /\ TurnsOk(b.txs)
  /\ b.receipts_root = GasOf(b.txs) \o CallGas(b.system_txs)
  /\ b.gas_used = Total(b.receipts_root)
  /\ b.inturn = (b.beneficiary = InturnValidator(snap))
  /\ \A f \in AddedFields : b[f] = ForkFields(b.number, parent, b.txs)[f]
  /\ Last(b.extra) = <<"seal", b.beneficiary, hash_with_chain_id(b)>>

\* What is cached for the parent is finite, and a number.
CachesLean(ex) ==
  /\ ex.parent \in DOMAIN ex.validator_cache => IsFiniteSet(ex.validator_cache[ex.parent])
  /\ ex.parent \in DOMAIN ex.turn_length_cache => ex.turn_length_cache[ex.parent] \in Nat

\* assemble_block_bsc: the block has the books of the executor.
LEMMA AssembledHonest ==
  ASSUME NEW ex, IsExecutor(ex), Ok(ex), CachesLean(ex), MinerBooks(ex),
         NEW votes, Ok(assemble_block_bsc(ex, votes))
  PROVE  Honest(assemble_block_bsc(ex, votes).block, ex.parent, ex.snap)
<1> DEFINE b == assemble_block_bsc(ex, votes).block
           e == UnsealedExtra(ex, votes)
           zero == <<"seal", ZeroAddress, None>>
           x == Append(e, zero)
           inturn == (ex.beneficiary = InturnValidator(ex.snap))
           h == UnsealedHeader(ex)
           zeroed == [h EXCEPT !.inturn = inturn, !.extra = x]
<1>1. /\ prepare_turn_length(ex) # ErrTurn /\ b = Sealed(zeroed, ex.beneficiary)
      /\ IsBlock(b) /\ b.number = ex.number /\ b.beneficiary = ex.beneficiary /\ b.txs = ex.txs
      /\ b.system_txs = ex.assembled_system_txs /\ b.gas_used = ex.gas_used
      /\ b.receipts_root = ex.receipts /\ b.inturn = inturn
      /\ \A f \in AddedFields : b[f] = ForkFields(ex.number, ex.parent, ex.txs)[f]
  <2>1. prepare_turn_length(ex) # ErrTurn
    BY AssembledFacts, Zenon
  <2>2. b = Sealed(zeroed, ex.beneficiary)
    BY AssembledFacts, Zenon
  <2>3. /\ IsBlock(b) /\ b.number = ex.number /\ b.beneficiary = ex.beneficiary /\ b.txs = ex.txs
        /\ b.system_txs = ex.assembled_system_txs /\ b.gas_used = ex.gas_used
        /\ b.receipts_root = ex.receipts
    BY AssembledFacts, Zenon
  <2>4. b.inturn = inturn
    BY AssembledFacts, Zenon
  <2>5. \A f \in AddedFields : b[f] = ForkFields(ex.number, ex.parent, ex.txs)[f]
    BY AssembledFacts, Zenon
  <2> HIDE DEF b, inturn, zeroed
  <2> QED
    BY <2>1, <2>2, <2>3, <2>4, <2>5, Zenon
<1>2. IsCells(prepare_validators(ex)) /\ IsSequence(prepare_validators(ex))
  <2>1. IsCells(<<>>)
    BY OneCell
  <2>2. ex.parent \in DOMAIN ex.validator_cache =>
          IsCells(ValidatorBytes(ex.validator_cache[ex.parent], ex.number))
    BY ValidatorCells DEF CachesLean
  <2>3. IsCells(prepare_validators(ex))
    BY <2>1, <2>2 DEF prepare_validators
  <2> QED
    BY <2>3 DEF IsCells
<1>3. prepare_turn_length(ex) \in Nat
  BY <1>1 DEF prepare_turn_length, CachesLean, NoTurn, ErrTurn
<1>4. IsSequence(e) /\ IsCells(e)
  BY <1>2, <1>3, ExtraCells DEF UnsealedExtra
<1>5. IsBlock(h)
  BY UnsealedFacts
<1> HIDE DEF e, h, inturn, b
<1>6. IsSequence(x) /\ x # <<>> /\ IsCells(x)
  <2>1. /\ IsSequence(x) /\ x # <<>> /\ Len(x) = Len(e) + 1 /\ Len(e) \in Nat /\ x[Len(x)] = zero
        /\ \A i \in 1..Len(e) : x[i] = e[i]
    BY <1>4, SequenceAppend DEF Last
  <2>2. CellOk(zero)
    BY DEF CellOk
  <2> HIDE DEF x, zero
  <2>3. \A i \in 1..Len(x) : i = Len(x) \/ i \in 1..Len(e)
    BY <2>1
  <2> QED
    BY <1>4, <2>1, <2>2, <2>3 DEF IsCells
<1> HIDE DEF x
<1>7. IsBlock(zeroed) /\ zeroed.extra = x
  BY <1>5 DEF IsBlock, BlockFields, PlainFields, AddedFields
<1> HIDE DEF zeroed
<1>8. /\ IsSequence(b.extra) /\ b.extra # <<>> /\ IsCells(b.extra)
      /\ Last(b.extra) = <<"seal", ex.beneficiary, hash_with_chain_id(b)>>
  BY <1>1, <1>6, <1>7, SealFacts
<1>9. Well(b) /\ IsSequence(b.txs) /\ TurnsOk(b.txs)
  BY <1>1, <1>8 DEF Well, MinerBooks
<1>10. /\ b.receipts_root = GasOf(b.txs) \o CallGas(b.system_txs)
       /\ b.gas_used = Total(b.receipts_root)
  BY <1>1 DEF MinerBooks
<1>11. b.inturn = (b.beneficiary = InturnValidator(ex.snap))
  BY <1>1 DEF inturn
<1>12. \A f \in AddedFields : b[f] = ForkFields(b.number, ex.parent, b.txs)[f]
  BY <1>1
<1>13. Last(b.extra) = <<"seal", b.beneficiary, hash_with_chain_id(b)>>
  BY <1>1, <1>8
<1> QED
  BY <1>8, <1>9, <1>10, <1>11, <1>12, <1>13, Zenon DEF Honest, b

LEMMA BuilderHonest ==
  ASSUME NEW ex, NEW all, Kept(ex, all), ex.is_miner, Ok(ex), CachesLean(ex),
         ex.shared_validators = {}, ex.shared_turn = NoTurn, IsSequence(ex.txs),
         NEW votes, Ok(builder_finish(ex, votes))
  PROVE  /\ Honest(builder_finish(ex, votes).block, ex.parent, ex.snap)
         /\ WorldLean(builder_finish(ex, votes).world)
<1> DEFINE new == builder_finish(ex, votes)
           bare == Bare(ex)
<1>0. IsExecutor(ex)
  BY DEF Kept
<1>1. /\ Ok(bare) /\ Ok(assemble_block_bsc(bare, votes))
      /\ new.block = assemble_block_bsc(bare, votes).block /\ new.world = bare.world
  BY <1>0, BuilderFacts
<1>2. IsExecutor(bare) /\ SameJob(ex, bare) /\ SameCaches(ex, bare)
  BY <1>0, <1>1, BareFacts
<1>3. MinerBooks(bare) /\ WorldLean(bare.world)
  BY <1>1, BareKept
<1> HIDE DEF bare, new
<1>4. /\ CachesLean(bare) /\ bare.parent = ex.parent /\ bare.snap = ex.snap
  BY <1>2 DEF SameJob, SameCaches, JobFields, CacheFields, CachesLean
<1>5. Honest(assemble_block_bsc(bare, votes).block, ex.parent, ex.snap)
  BY <1>1, <1>2, <1>3, <1>4, AssembledHonest
<1> QED
  BY <1>1, <1>3, <1>5 DEF new

\* What a build leads to.
LEMMA BuildHonest ==
  ASSUME NEW ex, Fresh(ex), Blank(ex), CachesLean(ex),
         NEW pool, Len(pool) \in Nat, \A i \in 1..Len(pool) : pool[i].turn \in Nat, NEW votes,
         NEW new \in {build_payload(ex, pool, votes), build_empty_payload(ex, votes)}, Ok(new)
  PROVE  Honest(new.block, ex.parent, ex.snap) /\ WorldLean(new.world)
<1>1. PICK start \in {apply_pre_execution_changes(ex, GenesisBlock), Packed(ex, pool)} :
           /\ IsExecutor(start) /\ start.is_miner /\ Ok(start) /\ SameJob(ex, start)
           /\ SameCaches(ex, start) /\ start.shared_validators = {} /\ start.shared_turn = NoTurn
           /\ IsSequence(start.txs) /\ new = builder_finish(start, votes)
  BY BuildStarts
<1> DEFINE beg == apply_pre_execution_changes(ex, GenesisBlock)
<1>2. Kept(beg, <<>>) /\ beg.is_miner /\ beg.assembled_system_txs = <<>>
  BY BeginKept DEF Fresh
<1>3. Kept(Packed(ex, pool), <<>>)
  <2> HIDE DEF beg
  <2>1. Packed(ex, pool) = RunAll(Pack, beg, pool)
    BY DEF Packed, beg
  <2> QED
    BY <1>2, <2>1, PackRunKept
<1>4. Kept(start, <<>>)
  BY <1>1, <1>2, <1>3
<1>5. CachesLean(start) /\ start.parent = ex.parent /\ start.snap = ex.snap
  BY <1>1 DEF SameJob, SameCaches, JobFields, CacheFields, CachesLean
<1>6. Honest(builder_finish(start, votes).block, start.parent, start.snap)
      /\ WorldLean(builder_finish(start, votes).world)
  BY <1>1, <1>4, <1>5, BuilderHonest
<1> QED
  BY <1>1, <1>5, <1>6

----------------------------------------------------------------------------
(* Its execution by a node that did not build it. *)

\* What a node that did not build a block has in the books when all its transactions are
\* executed: the receipts that the block's lists stand for.
LEMMA GatheredKept ==
  ASSUME NEW ex, Blank(ex), ~ex.is_miner, NEW block, IsSequence(block.txs), TurnsOk(block.txs),
         IsSequence(block.system_txs)
  PROVE  Kept(Gathered(ex, block), GasOf(block.txs) \o CallGas(block.system_txs))
<1> DEFINE ran == Ran(ex, block)
           gat == Gathered(ex, block)
           txs == block.txs
           sys == block.system_txs
           all == GasOf(txs) \o CallGas(sys)
           n == Len(txs)
<1>1. n \in Nat
  BY SequenceForm
<1>2. Checked(ran, txs, n)
  <2>1. Checked(Begun(ex, block), txs, 0)
    BY BeginKept DEF Begun
  <2> QED
    BY <1>1, <2>1, CheckedRun DEF Ran
<1>3. gat = [ran EXCEPT !.system_txs = @ \o sys]
  BY DEF Gathered
<1>4. IsExecutor(ran)
  BY <1>2 DEF Checked
<1> HIDE DEF ran, gat
<1>5. /\ IsExecutor(gat) /\ gat.world = ran.world /\ gat.election_info = ran.election_info
      /\ gat.is_miner = ran.is_miner /\ gat.err = ran.err /\ gat.receipts = ran.receipts
      /\ gat.system_txs = ran.system_txs \o sys
  BY <1>3, <1>4 DEF IsExecutor, JobFields, WorkFields, CacheFields
<1>6. /\ WorldLean(gat.world) /\ IsFiniteSet(DOMAIN gat.election_info) /\ ~gat.is_miner
  BY <1>2, <1>5 DEF Checked
<1>7. ASSUME Ok(gat) PROVE NodeBooks(gat, all)
  <2>1. /\ IsSequence(ran.receipts) /\ IsSequence(ran.system_txs)
        /\ \/ Blocked(ran)
           \/ /\ ran.system_txs = <<>> /\ Len(ran.receipts) = n
              /\ \A i \in 1..n : ran.receipts[i] = txs[i].gas
    BY <1>2, <1>5, <1>7 DEF Checked, Ok
  <2> DEFINE set == ran.system_txs
  <2>2. /\ IsSequence(set \o sys)
        /\ set # <<>> => set \o sys # <<>> /\ Head(set \o sys) = Head(set)
        /\ <<>> \o sys = sys
    <3>1. IsSequence(set) /\ IsSequence(sys)
      BY <2>1
    <3> HIDE DEF set, sys
    <3> QED
      BY <3>1, SequenceConcat, Zenon
  <2>3. IsSequence(gat.receipts) /\ IsSequence(gat.system_txs)
    BY <1>5, <2>1, <2>2
  <2>4. CASE Blocked(ran)
    BY <1>5, <2>2, <2>4, <2>3 DEF NodeBooks, Blocked
  <2>5. CASE ran.system_txs = <<>> /\ Len(ran.receipts) = n /\ \A i \in 1..n : ran.receipts[i] = txs[i].gas
    <3>1. gat.system_txs = sys
      BY <1>5, <2>2, <2>5
    <3>2. IsSequence(GasOf(txs)) /\ Len(GasOf(txs)) = n
      BY GasFacts
    <3>3. \A i \in 1..n : GasOf(txs)[i] = txs[i].gas
      BY SequenceForm DEF GasOf
    <3>4. ran.receipts = GasOf(txs)
      BY <2>1, <2>5, <3>2, <3>3, SameSequence
    <3> QED
      BY <1>5, <2>3, <3>1, <3>4 DEF NodeBooks
  <2> QED
    BY <2>1, <2>4, <2>5
<1> QED
  BY <1>5, <1>6, <1>7 DEF Kept, gat

\* The books at the end of an execution.
LEMMA SettledKept ==
  ASSUME NEW ex, Blank(ex), ~ex.is_miner, NEW block, IsSequence(block.txs), TurnsOk(block.txs),
         IsSequence(block.system_txs)
  PROVE  Kept(Settled(ex, block), GasOf(block.txs) \o CallGas(block.system_txs))
<1> DEFINE all == GasOf(block.txs) \o CallGas(block.system_txs)
<1>1. Kept(Gathered(ex, block), all)
  BY GatheredKept
<1> HIDE DEF all
<1>2. Upgrading(Gathered(ex, block), Upgraded(ex, block))
  BY <1>1, UpgradeFacts DEF Kept, Upgraded
<1>3. Kept(Upgraded(ex, block), all)
  BY <1>1, <1>2, UpgradeKept
<1>4. Kept(Initialized(ex, block), all)
  BY <1>3, InitializeKept DEF Initialized
<1>5. Kept(Settled(ex, block), all)
  BY <1>4, DueKept DEF Settled
<1> QED
  BY <1>5 DEF all

\* What an execution that is accepted comes to.
LEMMA ExecutedBooks ==
  ASSUME NEW ex, Blank(ex), ~ex.is_miner, NEW block, IsSequence(block.txs), TurnsOk(block.txs),
         IsSequence(block.system_txs), Ok(execute_block(ex, block))
  PROVE  /\ execute_block(ex, block).receipts = GasOf(block.txs) \o CallGas(block.system_txs)
         /\ WorldLean(execute_block(ex, block).world)
         /\ verify_seal(ex.snap, block)
<1> DEFINE all == GasOf(block.txs) \o CallGas(block.system_txs)
           set == Settled(ex, block)
           end == execute_block(ex, block)
<1>1. Len(block.txs) \in Nat /\ IsExecutor(ex)
  BY SequenceForm DEF Blank
<1>2. Kept(set, all)
  BY SettledKept
<1>3. /\ Ok(check_new_block(ex, block)) /\ Ok(set) /\ set.system_txs = <<>>
      /\ end = cache_for_next_epoch(set, block)
  BY <1>1, GoodExecution
<1>4. SameJob(ex, set)
  BY <1>1, StageFacts
<1> HIDE DEF set, end
<1>5. ~set.is_miner
  BY <1>4 DEF SameJob, JobFields
<1>6. NodeBooks(set, all) /\ WorldLean(set.world) /\ IsExecutor(set)
  BY <1>2, <1>3, <1>5 DEF Kept
<1>7. set.receipts = all
  <2>1. IsSequence(set.receipts) /\ set.receipts \o CallGas(<<>>) = all
    BY <1>3, <1>6 DEF NodeBooks, Blocked
  <2> HIDE DEF all
  <2> QED
    BY <2>1, EmptyBooks, SequenceEmpty, SequenceConcat
<1>8. end.receipts = set.receipts /\ end.world = set.world
  BY <1>3, <1>6, CacheSteps DEF CacheStep, WorkFields
<1>9. verify_seal(ex.snap, block)
  <2>1. ~Ok(Fail(ex, "attestation")) /\ ~Ok(Fail(ex, "seal"))
    BY <1>1 DEF Ok, Fail, IsExecutor, WorkFields
  <2> QED
    BY <1>3, <2>1 DEF check_new_block
<1> QED
  BY <1>6, <1>7, <1>8, <1>9 DEF end

\* The turn lengths that a node caches are numbers.
TurnsCached(t) == \A k \in DOMAIN t : t[k] \in Nat

LEMMA CachedTurns ==
  ASSUME NEW ex, IsExecutor(ex), TurnsCached(ex.turn_length_cache), ex.world.turn \in Nat, NEW block
  PROVE  TurnsCached(cache_for_next_epoch(ex, block).turn_length_cache)
<1> DEFINE end == cache_for_next_epoch(ex, block)
           cached == get_current_validators_with_cache(ex, block)
           t == ex.turn_length_cache
           new == Insert(t, block, ex.world.turn)
<1>1. cached.turn_length_cache = t /\ cached.world = ex.world /\ IsExecutor(cached)
  BY DEF get_current_validators_with_cache, IsExecutor, JobFields, WorkFields, CacheFields
<1>2. end \in {ex, cached, CacheTurnLength(cached, block), Fail(ex, "UnexpectedSystemTx"), Fail(ex, "snapshot")}
  BY DEF cache_for_next_epoch
<1> HIDE DEF cached, end
<1>3. CacheTurnLength(cached, block).turn_length_cache = new
  BY <1>1 DEF CacheTurnLength, get_turn_length, IsExecutor, CacheFields
<1>4. \A why : Fail(ex, why).turn_length_cache = t
  BY DEF Fail, IsExecutor, CacheFields
<1>5. end.turn_length_cache \in {t, new}
  BY <1>1, <1>2, <1>3, <1>4
<1>6. TurnsCached(new)
  <2> HIDE DEF t
  <2> QED
    BY DEF TurnsCached, Insert, t
<1> HIDE DEF new
<1> QED
  BY <1>5, <1>6 DEF end

LEMMA ExecutedTurns ==
  ASSUME NEW ex, Blank(ex), ~ex.is_miner, NEW block, IsSequence(block.txs), TurnsOk(block.txs),
         IsSequence(block.system_txs), TurnsCached(ex.turn_length_cache)
  PROVE  TurnsCached(execute_block(ex, block).turn_length_cache)
<1> DEFINE chk == check_new_block(ex, block)
           beg == Begun(ex, block)
           ran == Ran(ex, block)
           gat == Gathered(ex, block)
           ini == Initialized(ex, block)
           set == Settled(ex, block)
           end == execute_block(ex, block)
           t == ex.turn_length_cache
<1>1. Len(block.txs) \in Nat /\ IsExecutor(ex)
  BY SequenceForm DEF Blank
<1>2. IsExecutor(chk) /\ chk.turn_length_cache = t
  BY <1>1, CheckReads DEF Reading
<1>3. beg.turn_length_cache = t
  <2>1. Upgrading(chk, try_update_build_in_system_contract(chk, TRUE))
    BY <1>2, UpgradeFacts
  <2>2. beg \in {chk, try_update_build_in_system_contract(chk, TRUE)}
    BY <1>1, StageFacts
  <2> HIDE DEF beg, chk
  <2> QED
    BY <1>2, <2>1, <2>2 DEF Upgrading, SameCaches, CacheFields
<1>4. /\ Frame(beg, ran) /\ Frame(ran, gat) /\ Upgrading(gat, Upgraded(ex, block))
      /\ Frame(Upgraded(ex, block), ini) /\ Frame(ini, set) /\ SameJob(ex, ini)
  BY <1>1, StageFacts
<1> HIDE DEF beg, ran, gat, ini, set, end, chk
<1>5. /\ ran.turn_length_cache = t /\ gat.turn_length_cache = t /\ ini.turn_length_cache = t
      /\ set.turn_length_cache = t /\ IsExecutor(ini) /\ IsExecutor(set) /\ ~ini.is_miner
  BY <1>3, <1>4 DEF Frame, Upgrading, SameCaches, CacheFields, SameJob, JobFields
<1>6. end \in {beg, ran, gat, EndOfRole(ini, block)}
  <2>1. end = IF ~Ok(beg) THEN beg ELSE IF ~Ok(ran) THEN ran ELSE IF ~Ok(gat) THEN gat
              ELSE EndOfRole(ini, block)
    BY Stages DEF beg, ran, gat, ini, end
  <2> QED
    BY <2>1
<1>7. EndOfRole(ini, block) \in {ini, Fail(ini, "Invalid validators"),
        Fail(ini, "MismatchingEpochTurnLengthError"), cache_for_next_epoch(set, block)}
  BY <1>5 DEF EndOfRole, post_check_new_block, Settled, ini, set
<1>8. \A why : Fail(ini, why).turn_length_cache = t
  BY <1>5 DEF Fail, IsExecutor, CacheFields
<1>9. TurnsCached(cache_for_next_epoch(set, block).turn_length_cache)
  <2>1. WorldLean(set.world)
    BY SettledKept DEF Kept, set
  <2> QED
    BY <1>5, <2>1, CachedTurns DEF WorldLean
<1>10. TurnsCached(EndOfRole(ini, block).turn_length_cache)
  BY <1>5, <1>7, <1>8, <1>9
<1>11. TurnsCached(end.turn_length_cache)
  BY <1>3, <1>5, <1>6, <1>10
<1> QED
  BY <1>11 DEF end

----------------------------------------------------------------------------
(* What the checks of a header leave open. *)

\* The blob gas that the header of a block has from Cancun on.
BlobsOk(b) ==
  IF IsCancun(b.number) THEN b.blob_gas_used # None /\ b.excess_blob_gas # None
  ELSE b.blob_gas_used = None /\ b.excess_blob_gas = None

\* What is said of a header that is accepted.
Enforced(header, built) ==
  /\ header.inturn = built.inturn /\ header.excess_blob_gas = built.excess_blob_gas
  /\ header.parent_beacon_block_root = built.parent_beacon_block_root
  /\ header.number >= PragueBlock => header.requests_hash = built.requests_hash
  /\ header.system_txs = built.system_txs =>
       header.gas_used = built.gas_used /\ header.receipts_root = built.receipts_root
  /\ IsBohr(header.number) /\ Last(header.extra) = Last(built.extra) => header = built

\* The checks of a header pin it to what a node built on the same parent.
LEMMA HeaderPinned ==
  ASSUME CancunBlock <= BohrBlock, CancunBlock <= PragueBlock,
         NEW header, NEW built, NEW parent, NEW snap, Honest(built, parent, snap),
         SameOffer(built, header), Well(header), built.beneficiary \in Addresses,
         parent.number \in Nat, built.number = parent.number + 1, BlobsOk(parent),
         validate_header(header), validate_header_against_parent(header, parent),
         verify_seal(snap, header),
         validate_block_post_execution(header, GasOf(header.txs) \o CallGas(header.system_txs))
  PROVE  Enforced(header, built)
<1> DEFINE n == built.number
           added == ForkFields(n, parent, built.txs)
<1>1. header.number = n /\ header.beneficiary = built.beneficiary /\ header.txs = built.txs
  BY DEF SameOffer
<1>2. /\ CancunBlock \in Nat \ {0} /\ BohrBlock \in Nat \ {0} /\ PragueBlock \in Nat \ {0}
      /\ IsCancun(n) <=> n >= CancunBlock
      /\ IsCancun(n - 1) <=> n - 1 >= CancunBlock
      /\ IsBohr(n) <=> n >= BohrBlock
  BY ContractConstants, SnapshotConstants DEF IsCancun, IsActive, ForkBlock, IsBohr
<1>3. n \in Nat \ {0} /\ parent.number = n - 1
  OBVIOUS
<1>4. header.inturn = built.inturn
  BY <1>1 DEF Honest, verify_seal
<1>5. /\ built.parent_beacon_block_root = added.parent_beacon_block_root
      /\ built.requests_hash = added.requests_hash
      /\ built.excess_blob_gas = added.excess_blob_gas
  BY DEF Honest, AddedFields
<1>6. /\ added.parent_beacon_block_root = IF IsCancun(n) /\ IsBohr(n) THEN 0 ELSE None
      /\ added.requests_hash = IF IsCancun(n) /\ n >= PragueBlock THEN 0 ELSE None
      /\ added.excess_blob_gas = IF ~IsCancun(n) THEN None
                                 ELSE IF IsCancun(n - 1) THEN maybe_next_block_excess_blob_gas(parent, n)
                                 ELSE next_block_excess_blob_gas(0, 0)
  BY DEF ForkFields
<1> HIDE DEF added
<1>7. /\ header.parent_beacon_block_root = IF IsBohr(n) THEN 0 ELSE None
      /\ ~IsCancun(n) => header.excess_blob_gas = None
  BY <1>1 DEF validate_header
<1>8. header.parent_beacon_block_root = built.parent_beacon_block_root
  <2>1. IsBohr(n) => IsCancun(n)
    BY <1>2, <1>3
  <2> QED
    BY <1>5, <1>6, <1>7, <2>1, Zenon
<1>9. header.number >= PragueBlock => header.requests_hash = built.requests_hash
  <2>1. n >= PragueBlock => IsCancun(n)
    BY <1>2, <1>3
  <2>2. header.number >= PragueBlock => header.requests_hash = 0
    BY DEF validate_block_post_execution
  <2> QED
    BY <1>1, <1>5, <1>6, <2>1, <2>2, Zenon
<1>10. header.excess_blob_gas = built.excess_blob_gas
  <2>1. CASE ~IsCancun(n)
    BY <1>5, <1>6, <1>7, <2>1
  <2>2. CASE IsCancun(n)
    <3> DEFINE orZero(x) == IF x = None THEN 0 ELSE x
    <3>1. header.excess_blob_gas = next_block_excess_blob_gas(orZero(parent.excess_blob_gas),
                                                              orZero(parent.blob_gas_used))
      BY <1>1, <2>2 DEF validate_header_against_parent, validate_against_parent_4844
    <3>2. CASE IsCancun(n - 1)
      <4>1. parent.blob_gas_used # None /\ parent.excess_blob_gas # None
        BY <1>3, <3>2 DEF BlobsOk
      <4>2. built.excess_blob_gas = next_block_excess_blob_gas(parent.excess_blob_gas, parent.blob_gas_used)
        BY <1>5, <1>6, <2>2, <3>2, <4>1 DEF maybe_next_block_excess_blob_gas
      <4> QED
        BY <3>1, <4>1, <4>2
    <3>3. CASE ~IsCancun(n - 1)
      <4>1. parent.blob_gas_used = None /\ parent.excess_blob_gas = None
        BY <1>3, <3>3 DEF BlobsOk
      <4>2. built.excess_blob_gas = next_block_excess_blob_gas(0, 0)
        BY <1>5, <1>6, <2>2, <3>3
      <4> QED
        BY <3>1, <4>1, <4>2
    <3> QED
      BY <3>2, <3>3
  <2> QED
    BY <2>1, <2>2
<1>11. header.system_txs = built.system_txs =>
         header.gas_used = built.gas_used /\ header.receipts_root = built.receipts_root
  BY <1>1 DEF Honest, validate_block_post_execution, verify_receipts
<1>12. ASSUME IsBohr(header.number), Last(header.extra) = Last(built.extra) PROVE header = built
  <2>1. header.parent_beacon_block_root = 0 /\ built.parent_beacon_block_root = 0
    BY <1>1, <1>7, <1>8, <1>12
  <2> DEFINE h == hash_with_chain_id(header)
             g == hash_with_chain_id(built)
             seal == Last(header.extra)
  <2>2. seal = <<"seal", built.beneficiary, g>>
    BY <1>12 DEF Honest
  <2>3. recover_proposer(header) # ZeroAddress
    BY <1>1, SnapshotConstants DEF verify_seal
  <2>4. seal[3] = h
    BY <2>3 DEF recover_proposer
  <2> HIDE DEF h, g, seal
  <2>5. g = h
    BY <2>2, <2>4
  <2>6. Well(built)
    BY DEF Honest
  <2> QED
    BY <1>12, <2>1, <2>5, <2>6, HashTells DEF Well, g, h
<1> QED
  BY <1>4, <1>8, <1>9, <1>10, <1>11, <1>12 DEF Enforced

\* What the invariant of the chain does not say and the headers rest on: the state, the caches
\* and a proposal are such that what a node builds has the books of what it contains.
HeaderInv ==
  /\ WorldLean(world) /\ BlobsOk(Tip)
  /\ \A n \in Nodes : TurnsCached(caches[n].turn)
  /\ proposal.status = "built" =>
       /\ Honest(proposal.built, Tip, TipSnap) /\ proposal.built.beneficiary \in Nodes
       /\ SameOffer(proposal.built, proposal.block) /\ Well(proposal.block)

LEMMA InitHeader == Init => HeaderInv
<1> SUFFICES ASSUME Init PROVE HeaderInv
  OBVIOUS
<1>1. Tip = GenesisBlock /\ proposal.status = "none" /\ world = GenesisWorld
  BY DEF Init, Tip, TipOf, NoProposal
<1>2. WorldLean(GenesisWorld)
  <2>1. /\ GenesisWorld.validators = GenesisValidators /\ GenesisWorld.turn = 1 /\ GenesisWorld.power = Zero
    BY DEF GenesisWorld
  <2>2. IsFiniteSet(GenesisValidators)
    BY ExecutionConstants, SnapshotConstants, FS_Subset DEF ValidatorSets
  <2>3. IsFiniteSet(DOMAIN Zero)
    BY SnapshotConstants DEF Zero
  <2> QED
    BY <2>1, <2>2, <2>3 DEF WorldLean
<1>3. BlobsOk(GenesisBlock)
  <2> DEFINE plain == [number |-> 0, beneficiary |-> ZeroAddress, inturn |-> FALSE, day |-> 1,
                       extra |-> Append(ExtraData(0, ValidatorBytes(GenesisValidators, 0), NoTurn, NoVotes),
                                        <<"seal", ZeroAddress, None>>),
                       txs |-> <<>>, system_txs |-> <<>>, gas_used |-> 0, receipts_root |-> <<>>]
             added == ForkFields(0, [number |-> None], <<>>)
  <2>1. GenesisBlock = [f \in DOMAIN plain \cup DOMAIN added |-> IF f \in DOMAIN plain THEN plain[f] ELSE added[f]]
    BY DEF GenesisBlock, WithFields
  <2>2. DOMAIN plain = PlainFields
    BY DEF PlainFields
  <2>3. DOMAIN added = AddedFields
    BY DEF ForkFields, AddedFields
  <2>4. ~IsCancun(0)
    BY ContractConstants DEF IsCancun, IsActive, ForkBlock
  <2>5. added.blob_gas_used = None /\ added.excess_blob_gas = None
    BY <2>4 DEF ForkFields
  <2> HIDE DEF plain, added
  <2>6. GenesisBlock.blob_gas_used = added.blob_gas_used /\ GenesisBlock.excess_blob_gas = added.excess_blob_gas
    BY <2>1, <2>2, <2>3 DEF PlainFields, AddedFields
  <2> QED
    BY <2>4, <2>5, <2>6, GenesisFacts DEF BlobsOk
<1>4. \A n \in Nodes : TurnsCached(caches[n].turn)
  <2>1. \A n \in Nodes : caches[n].turn = <<>>
    BY DEF Init, NoCache
  <2> QED
    BY <2>1 DEF TurnsCached
<1> QED
  BY <1>1, <1>2, <1>3, <1>4 DEF HeaderInv

\* A build starts with empty books.
LEMMA MiningBlank ==
  ASSUME IsWorld(world), WorldLean(world), NEW n, NEW day
  PROVE  Blank(MiningExecutor(n, day))
<1> DEFINE env == next_evm_env(Tip, Len(chain) + 1)
           ca == caches[n]
<1> HIDE DEF env, ca
<1>0. PICK b \in BOOLEAN : b
  OBVIOUS
<1>1. MiningExecutor(n, day) = NewExecutor(chain, snaps, world, ca, b, n, day, env)
  BY <1>0 DEF MiningExecutor, env, ca
<1> DEFINE ex == NewExecutor(chain, snaps, world, ca, b, n, day, env)
<1>2. Starts(ex, chain, snaps, world, ca, b, n, day, env)
  BY StartFacts, Zenon
<1> HIDE DEF ex
<1>3. Blank(ex)
  BY <1>2 DEF Blank, Starts
<1> QED
  BY <1>1, <1>3 DEF ex

\* Every step keeps the invariant.
LEMMA BuildHeader ==
  ASSUME ProductionInv, HeaderInv, NEW n \in Nodes, NEW kind \in DOMAIN Pools \cup {"empty"}, NEW voters,
         NEW day, Build(n, kind, voters, day)
  PROVE  HeaderInv'
<1> DEFINE ex == MiningExecutor(n, day)
           votes == VotesOf(voters)
           pool == IF kind = "empty" THEN <<>> ELSE Pools[kind]
<1>1. PICK new \in {build_payload(ex, pool, votes), build_empty_payload(ex, votes)} :
        /\ Ok(new)
        /\ proposal' = [status |-> "built", block |-> new.block, by |-> n, altered |-> FALSE,
                        built |-> new.block, world |-> new.world]
        /\ caches' = [caches EXCEPT ![n] = [validators |-> new.validator_cache,
                                            turn |-> new.turn_length_cache]]
  <2> HIDE DEF ex, votes
  <2> QED
    BY DEF Build, ex, votes
<1>2. UNCHANGED <<chain, snaps, world>>
  BY DEF Build
<1>3. Tip' = Tip /\ TipSnap' = TipSnap
  BY <1>2 DEF Tip, TipOf, TipSnap
<1>4. Len(pool) \in Nat /\ \A i \in 1..Len(pool) : pool[i].turn \in Nat
  <2>1. CASE kind = "empty"
    BY <2>1
  <2>2. CASE kind # "empty"
    <3> DEFINE s == Pools[kind]
    <3>1. s \in Seq(Range(s)) /\ \A tx \in Range(s) : tx.turn \in TurnLengths \cup {NoTurn}
      BY <2>2, ProductionConstants
    <3>2. TurnLengths \cup {NoTurn} \subseteq Nat
      BY SnapshotConstants DEF NoTurn
    <3>3. pool = s
      BY <2>2
    <3> HIDE DEF s, pool
    <3>4. Len(s) \in Nat /\ \A i \in 1..Len(s) : s[i] \in Range(s)
      BY <3>1
    <3> QED
      BY <3>1, <3>2, <3>3, <3>4
  <2> QED
    BY <2>1, <2>2
<1>5. /\ Fresh(ex) /\ ex.number = Len(chain) + 1 /\ ex.beneficiary = n /\ ex.parent = Tip /\ ex.snap = TipSnap
      /\ ex.validator_cache = caches[n].validators /\ ex.turn_length_cache = caches[n].turn
      /\ Blank(ex)
  BY MiningFacts, MiningBlank DEF ProductionInv, HeaderInv
<1>6. CachesLean(ex)
  <2>1. Tip \in DOMAIN caches[n].validators => IsFiniteSet(caches[n].validators[Tip])
    BY DEF ProductionInv, CachesOk, CacheOk, HeaderInv, WorldLean
  <2>2. TurnsCached(caches[n].turn)
    BY DEF HeaderInv
  <2> HIDE DEF ex
  <2> QED
    BY <1>5, <2>1, <2>2 DEF CachesLean, TurnsCached
<1> HIDE DEF ex, pool, votes
<1>7. /\ Honest(new.block, Tip, TipSnap) /\ WorldLean(new.world)
  BY <1>1, <1>4, <1>5, <1>6, BuildHonest
<1>8. /\ IsBlock(new.block) /\ new.block.beneficiary = n
      /\ new.turn_length_cache = caches[n].turn
         \/ new.turn_length_cache = Insert(caches[n].turn, new.block, new.world.turn)
  BY <1>1, <1>4, <1>5, BuildFacts
<1>9. ASSUME NEW m \in Nodes PROVE TurnsCached(caches'[m].turn)
  <2>1. CASE m = n
    <3>1. caches'[m].turn = new.turn_length_cache
      BY <1>1, <2>1 DEF ProductionInv, CachesOk
    <3> DEFINE t == caches[n].turn
    <3>2. TurnsCached(t) /\ new.world.turn \in Nat
      BY <1>7 DEF HeaderInv, WorldLean
    <3> HIDE DEF t
    <3>3. TurnsCached(Insert(t, new.block, new.world.turn))
      BY <3>2 DEF TurnsCached, Insert
    <3> QED
      BY <1>8, <3>1, <3>2, <3>3 DEF t
  <2>2. CASE m # n
    <3>1. caches'[m] = caches[m]
      BY <1>1, <2>2 DEF ProductionInv, CachesOk
    <3> QED
      BY <3>1 DEF HeaderInv
  <2> QED
    BY <2>1, <2>2
<1>10. proposal'.block = new.block /\ proposal'.built = new.block
  BY <1>1
<1>11. SameOffer(new.block, new.block) /\ Well(new.block)
  BY <1>7, <1>8 DEF SameOffer, Honest
<1>12. WorldLean(world)' /\ BlobsOk(Tip)'
  BY <1>2, <1>3 DEF HeaderInv
<1> QED
  BY <1>3, <1>7, <1>8, <1>9, <1>10, <1>11, <1>12 DEF HeaderInv

LEMMA AlterHeader ==
  ASSUME ProductionInv, HeaderInv, NEW kind, Alter(kind)
  PROVE  HeaderInv' /\ proposal'.status = "built"
<1>0. PICK fault \in Faults[kind] : \E block \in Altered(proposal.block, fault) :
        block # proposal.block /\ proposal' = [proposal EXCEPT !.block = block, !.altered = TRUE]
  BY DEF Alter
<1>1. PICK block \in Altered(proposal.block, fault) :
        block # proposal.block /\ proposal' = [proposal EXCEPT !.block = block, !.altered = TRUE]
  BY <1>0
<1>2. /\ proposal.status = "built" /\ ~proposal.altered /\ UNCHANGED <<chain, snaps, world, caches>>
  BY DEF Alter
<1>3. /\ ProposalFields \subseteq DOMAIN proposal /\ Proposed(proposal.block)
      /\ proposal.block = proposal.built
  BY <1>2 DEF ProductionInv, ProposalOk, NoProposal
<1>4. SameOffer(proposal.block, block)
  BY <1>1, <1>3, AlteredOffer DEF Proposed
<1>5. Honest(proposal.built, Tip, TipSnap) /\ proposal.built.beneficiary \in Nodes
  BY <1>2 DEF HeaderInv
<1>6. Well(block)
  <2>1. Well(proposal.block) /\ IsCells(proposal.block.extra)
    BY <1>3, <1>5 DEF Honest
  <2> QED
    BY <1>1, <2>1, AlteredWell
<1>7. proposal'.status = "built" /\ proposal'.block = block /\ proposal'.built = proposal.built
  BY <1>1, <1>2, <1>3 DEF ProposalFields
<1>8. Tip' = Tip /\ TipSnap' = TipSnap
  BY <1>2 DEF Tip, TipOf, TipSnap
<1>9. WorldLean(world)' /\ BlobsOk(Tip)' /\ \A n \in Nodes : TurnsCached(caches'[n].turn)
  BY <1>2, <1>8 DEF HeaderInv
<1> QED
  BY <1>3, <1>4, <1>5, <1>6, <1>7, <1>8, <1>9 DEF HeaderInv

LEMMA RestartHeader ==
  ASSUME ProductionInv, HeaderInv, NEW n, Restart(n)
  PROVE  HeaderInv'
<1>1. /\ caches' = [caches EXCEPT ![n] = NoCache] /\ UNCHANGED <<chain, snaps, world, proposal>>
  BY DEF Restart
<1>2. Tip' = Tip /\ TipSnap' = TipSnap
  BY <1>1 DEF Tip, TipOf, TipSnap
<1>3. ASSUME NEW m \in Nodes PROVE TurnsCached(caches'[m].turn)
  <2>1. CASE m = n
    <3>1. caches'[m] = NoCache
      BY <1>1, <2>1 DEF ProductionInv, CachesOk
    <3>2. caches'[m].turn = <<>>
      BY <3>1 DEF NoCache
    <3> QED
      BY <3>2 DEF TurnsCached
  <2>2. CASE m # n
    <3>1. caches'[m] = caches[m]
      BY <1>1, <2>2 DEF ProductionInv, CachesOk
    <3> QED
      BY <3>1 DEF HeaderInv
  <2> QED
    BY <2>1, <2>2
<1> QED
  BY <1>1, <1>2, <1>3 DEF HeaderInv

\* What a node that executes the proposal starts from, and the turn lengths it ends with.
LEMMA ExecutedStart ==
  ASSUME ProductionInv, HeaderInv, proposal.status = "built", NEW n \in Nodes
  PROVE  LET block == proposal.block
             ex == Executor(n, block)
         IN /\ Blank(ex) /\ ~ex.is_miner /\ ex.parent = Tip /\ ex.snap = TipSnap
            /\ ex.turn_length_cache = caches[n].turn
            /\ IsSequence(block.txs) /\ TurnsOk(block.txs) /\ IsSequence(block.system_txs)
            /\ TurnsCached(Executed(n).turn_length_cache)
<1> DEFINE block == proposal.block
           ex == Executor(n, block)
<1>1. Runs(ex, n, block) /\ ~ex.is_miner
  BY ExecutorFacts, Zenon DEF ProductionInv
<1>2. WorldLean(world) /\ TurnsCached(caches[n].turn)
  BY DEF HeaderInv
<1>3. IsSequence(block.txs) /\ TurnsOk(block.txs) /\ IsSequence(block.system_txs)
  BY DEF HeaderInv, Honest, SameOffer, Well
<1>4. Executed(n) = execute_block(ex, block)
  BY DEF Executed
<1> HIDE DEF ex, block
<1>5. /\ Blank(ex) /\ ex.parent = Tip /\ ex.snap = TipSnap /\ ex.turn_length_cache = caches[n].turn
  BY <1>1, <1>2 DEF Runs, Blank
<1>6. TurnsCached(Executed(n).turn_length_cache)
  BY <1>1, <1>2, <1>3, <1>4, <1>5, ExecutedTurns
<1> QED
  BY <1>1, <1>3, <1>5, <1>6 DEF ex, block

\* What a verdict of no error means.
LEMMA AcceptedFacts ==
  ASSUME ProductionInv, HeaderInv, proposal.status = "built", NEW n \in Nodes,
         Verdict(n, Executed(n)) = ""
  PROVE  LET block == proposal.block
         IN /\ validate_header(block) /\ validate_header_against_parent(block, Tip)
            /\ verify_seal(TipSnap, block)
            /\ validate_block_post_execution(block, GasOf(block.txs) \o CallGas(block.system_txs))
            /\ WorldLean(Executed(n).world)
<1> DEFINE block == proposal.block
           ex == Executor(n, block)
           all == GasOf(block.txs) \o CallGas(block.system_txs)
<1>1. /\ Blank(ex) /\ ~ex.is_miner /\ ex.parent = Tip /\ ex.snap = TipSnap
      /\ IsSequence(block.txs) /\ TurnsOk(block.txs) /\ IsSequence(block.system_txs)
  BY ExecutedStart
<1>2. Ok(Executed(n))
  BY SameVerdict
<1>3. Executed(n) = execute_block(ex, block)
  BY DEF Executed
<1>4. validate_block(ex, Executed(n), block) = ""
  <2> DEFINE v == validate_block(ex, Executed(n), block)
             differs == v = "" /\ ~proposal.altered /\ Executed(n).world # proposal.world
  <2>1. Verdict(n, Executed(n)) = IF differs THEN "state root" ELSE v
    BY DEF Verdict
  <2> HIDE DEF v, differs
  <2> QED
    BY <2>1 DEF v
<1> HIDE DEF ex, block
<1>5. /\ Executed(n).receipts = all /\ WorldLean(Executed(n).world) /\ verify_seal(TipSnap, block)
  BY <1>1, <1>2, <1>3, ExecutedBooks
<1>6. /\ validate_header(block) /\ validate_header_against_parent(block, Tip)
      /\ validate_block_post_execution(block, Executed(n).receipts)
  <2> DEFINE good == /\ validate_header(block) /\ validate_header_against_parent(block, ex.parent)
                     /\ validate_block_pre_execution(block)
             post == validate_block_post_execution(block, Executed(n).receipts)
  <2>1. validate_block(ex, Executed(n), block)
          = IF ~good THEN "header" ELSE IF ~Ok(Executed(n)) THEN Executed(n).err
            ELSE IF ~post THEN "post-execution" ELSE ""
    BY DEF validate_block
  <2> HIDE DEF good, post
  <2>2. good /\ post
    BY <1>2, <1>4, <2>1
  <2> QED
    BY <1>1, <2>2 DEF good, post
<1> QED
  BY <1>5, <1>6 DEF block

\* A block that every node accepts is the next tip, and pinned to what was built.
LEMMA ImportHeader ==
  ASSUME ProductionInv, HeaderInv, Import
  PROVE  /\ HeaderInv'
         /\ CancunBlock <= BohrBlock /\ CancunBlock <= PragueBlock => HeaderEnforced'
<1> DEFINE block == proposal.block
           skips(n) == submit_built_payload /\ n = proposal.by /\ ~proposal.altered
           end(n) == IF skips(n) THEN Executor(n, block) ELSE Executed(n)
           Accepts(one) ==
             /\ Tip' = block /\ world' = Executed(one).world /\ Verdict(one, Executed(one)) = ""
             /\ proposal' = [proposal EXCEPT !.status = "accepted"]
             /\ \A n \in Nodes : caches'[n] = About(end(n), block)
           Rejects ==
             /\ UNCHANGED world /\ Tip' = Tip
             /\ proposal' = [proposal EXCEPT !.status = "rejected"]
             /\ \A n \in Nodes : caches'[n] = About(end(n), Tip)
<1>1. PICK one \in Nodes : Accepts(one) \/ Rejects
  BY ImportResult
<1>2. proposal.status = "built"
  BY DEF Import
<1>3. ProposalFields \subseteq DOMAIN proposal /\ Proposed(block)
  BY <1>2 DEF ProductionInv, ProposalOk, NoProposal
<1>4. ASSUME NEW n \in Nodes PROVE TurnsCached(caches'[n].turn)
  <2>1. PICK tip : caches'[n] = About(end(n), tip)
    BY <1>1
  <2>2. TurnsCached(end(n).turn_length_cache)
    <3>1. /\ Executor(n, block).turn_length_cache = caches[n].turn
          /\ TurnsCached(Executed(n).turn_length_cache)
      BY <1>2, ExecutedStart, Zenon
    <3>2. TurnsCached(caches[n].turn)
      BY DEF HeaderInv
    <3> QED
      BY <3>1, <3>2
  <2> DEFINE t == end(n).turn_length_cache
  <2>3. caches'[n].turn = Restrict(t, DOMAIN t \cap {tip})
    BY <2>1 DEF About
  <2>4. TurnsCached(t)
    BY <2>2
  <2> HIDE DEF t, end
  <2> QED
    BY <2>3, <2>4 DEF TurnsCached, Restrict
<1>5. CASE Accepts(one)
  <2>1. /\ validate_header(block) /\ validate_header_against_parent(block, Tip)
        /\ verify_seal(TipSnap, block)
        /\ validate_block_post_execution(block, GasOf(block.txs) \o CallGas(block.system_txs))
        /\ WorldLean(Executed(one).world)
    BY <1>2, <1>5, AcceptedFacts
  <2>2. proposal'.status = "accepted" /\ proposal'.block = block /\ proposal'.built = proposal.built
    BY <1>3, <1>5 DEF ProposalFields
  <2>3. BlobsOk(block)
    BY <2>1 DEF validate_header, validate_4844_header_of_bsc, BlobsOk
  <2>4. HeaderInv'
    BY <1>4, <1>5, <2>1, <2>2, <2>3 DEF HeaderInv
  <2>5. ASSUME CancunBlock <= BohrBlock, CancunBlock <= PragueBlock PROVE Enforced(block, proposal.built)
    <3>1. /\ Honest(proposal.built, Tip, TipSnap) /\ proposal.built.beneficiary \in Addresses
          /\ SameOffer(proposal.built, block) /\ Well(block) /\ BlobsOk(Tip)
      BY <1>2 DEF HeaderInv, Nodes
    <3>2. Tip.number \in Nat /\ proposal.built.number = Tip.number + 1
      <4>1. Len(chain) \in Nat /\ Tip.number = Len(chain)
        BY DEF ProductionInv, ChainOk, IsSequence
      <4>2. proposal.built.number = block.number
        BY <3>1 DEF SameOffer
      <4> QED
        BY <1>3, <4>1, <4>2 DEF Proposed
    <3> HIDE DEF block
    <3> QED
      BY <2>1, <2>5, <3>1, <3>2, HeaderPinned
  <2>6. CancunBlock <= BohrBlock /\ CancunBlock <= PragueBlock => HeaderEnforced'
    <3>1. HeaderEnforced' <=> (proposal'.status = "accepted" => Enforced(proposal'.block, proposal'.built))
      BY DEF HeaderEnforced, Enforced
    <3> QED
      BY <2>2, <2>5, <3>1
  <2> QED
    BY <2>4, <2>6
<1>6. CASE Rejects
  <2>1. proposal'.status = "rejected"
    BY <1>3, <1>6 DEF ProposalFields
  <2>2. HeaderInv'
    BY <1>4, <1>6, <2>1 DEF HeaderInv
  <2>3. HeaderEnforced'
    BY <2>1 DEF HeaderEnforced
  <2> QED
    BY <2>2, <2>3
<1> QED
  BY <1>1, <1>5, <1>6

LEMMA HeaderStep == ProductionInv /\ HeaderInv /\ [Next]_vars => HeaderInv'
<1> SUFFICES ASSUME ProductionInv, HeaderInv, [Next]_vars PROVE HeaderInv'
  OBVIOUS
<1>1. CASE UNCHANGED vars
  BY <1>1 DEF vars, HeaderInv, Tip, TipOf, TipSnap
<1>2. CASE \E n \in Nodes, kind \in DOMAIN Pools \cup {"empty"}, voters \in VoterSets,
              day \in {Tip.day, Tip.day + 1} : Build(n, kind, voters, day)
  BY <1>2, BuildHeader
<1>3. CASE \E kind \in DOMAIN Faults : Alter(kind)
  BY <1>3, AlterHeader
<1>4. CASE Import
  BY <1>4, ImportHeader
<1>5. CASE \E n \in Restarting : Restart(n)
  BY <1>5, RestartHeader
<1> QED
  BY <1>1, <1>2, <1>3, <1>4, <1>5 DEF Next

LEMMA EnforcedStep ==
  ASSUME CancunBlock <= BohrBlock, CancunBlock <= PragueBlock,
         ProductionInv, HeaderInv, HeaderEnforced, [Next]_vars
  PROVE  HeaderEnforced'
<1>1. CASE UNCHANGED vars
  BY <1>1 DEF vars, HeaderEnforced
<1>2. ASSUME NEW n, NEW kind, NEW voters, NEW day, Build(n, kind, voters, day) PROVE HeaderEnforced'
  <2> DEFINE Made(ex) == proposal' = [status |-> "built", block |-> ex.block, by |-> n, altered |-> FALSE,
                                      built |-> ex.block, world |-> ex.world]
  <2>1. \E ex : Made(ex)
    BY <1>2, Zenon DEF Build
  <2>2. proposal'.status = "built"
    BY <2>1
  <2> QED
    BY <2>2 DEF HeaderEnforced
<1>3. ASSUME NEW kind, Alter(kind) PROVE HeaderEnforced'
  BY <1>3, AlterHeader DEF HeaderEnforced
<1>4. CASE Import
  BY <1>4, ImportHeader
<1>5. ASSUME NEW n, Restart(n) PROVE HeaderEnforced'
  BY <1>5 DEF Restart, HeaderEnforced
<1> QED
  BY <1>1, <1>2, <1>3, <1>4, <1>5 DEF Next

\* validate_header, validate_block_post_execution, recover_proposer: for all transactions, votes,
\* validators and orders of the other forks, of a header that every node accepts, whoever altered it, the
\* difficulty, the excess of blob gas, the beacon root, the requests, the gas and the receipts are those
\* that a node built, and from Bohr on one sealed as it was built is that very header. The provisos
\* are that Cancun is not after Bohr or Prague: assemble_block_bsc writes the fields of those two only
\* into headers of Cancun, while the checks ask for them by their own forks.
THEOREM HeadersEnforced ==
  ASSUME CancunBlock <= BohrBlock, CancunBlock <= PragueBlock
  PROVE  Spec => []HeaderEnforced
<1>1. Init => HeaderEnforced
  <2>1. Init => proposal.status = "none"
    BY DEF Init, NoProposal
  <2> QED
    BY <2>1 DEF HeaderEnforced
<1>2. ProductionInv /\ HeaderInv /\ HeaderEnforced /\ [Next]_vars => HeaderEnforced'
  BY EnforcedStep
<1> QED
  BY <1>1, <1>2, InitHeader, HeaderStep, ProductionInvariant, PTL DEF Spec
============================================================================
