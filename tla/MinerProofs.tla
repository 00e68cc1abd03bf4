---------------------------- MODULE MinerProofs ----------------------------
(***************************************************************************)
(* Proofs about the miner: the bids' rewards, the payload jobs and the     *)
(* double-sign guard, for any chain, any bids and any number of jobs.      *)
(***************************************************************************)
EXTENDS Miner, SequenceFacts

----------------------------------------------------------------------------
(* The fees of a block. *)

\* The partial sums that Sum is the last of.
LEMMA SumIs ==
  ASSUME NEW w \in Seq(Nat)
  PROVE  \E s : /\ s[0] = 0 /\ \A i \in 1..Len(w) : s[i] = s[i - 1] + w[i]
                /\ \A i \in 0..Len(w) : s[i] \in Nat
                /\ Sum(w) = s[Len(w)]
<1> DEFINE n == Len(w)
           F(s, i) == IF i = 0 THEN 0 ELSE s[i - 1] + w[i]
           sum == CHOOSE s : s = [i \in 0..n |-> F(s, i)]
           g == [i \in 1..n |-> [x \in Nat |-> x + w[i]]]
<1>1. n \in Nat /\ \A i \in 1..n : w[i] \in Nat
  BY LenProperties, ElementOfSeq
<1>2. g \in [1..n -> [Nat -> Nat]]
  <2> HIDE DEF n
  <2> QED
    BY <1>1
<1>3. Sum(w) = sum[n]
  BY DEF Sum
<1> HIDE DEF n
<1>4. PICK s \in [0..n -> Nat] : s[0] = 0 /\ \A i \in 1..n : s[i] = g[i][s[i - 1]]
  <2>1. IsSteps(g, n, Nat) /\ 0 \in Nat
    BY <1>2 DEF IsSteps
  <2> HIDE DEF g
  <2>2. \E s : IsRun(s, g, 0, n, Nat)
    BY <1>1, <2>1, RunExists
  <2> QED
    BY <2>2 DEF IsRun
<1>5. s = [i \in 0..n |-> F(s, i)]
  <2>1. ASSUME NEW i \in 0..n PROVE s[i] = F(s, i)
    <3>1. CASE i = 0
      BY <1>4, <3>1
    <3>2. CASE i # 0
      <4>1. i \in 1..n /\ s[i - 1] \in Nat
        BY <1>1, <1>4, <3>2
      <4>2. g[i][s[i - 1]] = s[i - 1] + w[i]
        BY <4>1
      <4> QED
        BY <1>4, <3>2, <4>1, <4>2
    <3> QED
      BY <3>1, <3>2
  <2> HIDE DEF F
  <2> QED
    BY <2>1
<1>6. sum = [i \in 0..n |-> F(sum, i)]
  <2> HIDE DEF F
  <2> QED
    BY <1>5
<1> HIDE DEF sum
<1>7. \A i \in 0..n : sum[i] = F(sum, i)
  <2> HIDE DEF F
  <2> QED
    BY <1>6
<1>8. sum[0] = 0 /\ \A i \in 1..n : sum[i] = sum[i - 1] + w[i]
  BY <1>1, <1>7
<1>9. \A i \in 0..n : sum[i] \in Nat
  <2> DEFINE G == {i \in 0..n : sum[i] \in Nat}
  <2>1. 0 \in G
    BY <1>1, <1>8
  <2>a. ASSUME NEW i \in 1..n, i - 1 \in G PROVE i \in G
    <3>1. sum[i - 1] \in Nat /\ w[i] \in Nat /\ sum[i] = sum[i - 1] + w[i]
      BY <1>1, <1>8, <2>a
    <3> QED
      BY <1>1, <3>1
  <2> HIDE DEF G
  <2>2. \A i \in 0..n : i \in G
    BY <1>1, <2>1, <2>a, CountUp
  <2> QED
    BY <2>2 DEF G
<1> QED
  BY <1>3, <1>8, <1>9 DEF n

\* One more amount.
LEMMA SumAppend ==
  ASSUME NEW w \in Seq(Nat), NEW x \in Nat
  PROVE  Sum(w) \in Nat /\ Sum(Append(w, x)) = Sum(w) + x
<1> DEFINE v == Append(w, x)
           n == Len(w)
<1>1. /\ v \in Seq(Nat) /\ Len(v) = n + 1 /\ n \in Nat
      /\ \A i \in 1..n : v[i] = w[i]
      /\ v[n + 1] = x
  BY AppendProperties, LenProperties
<1>2. PICK s : /\ s[0] = 0 /\ \A i \in 1..n : s[i] = s[i - 1] + w[i]
               /\ \A i \in 0..n : s[i] \in Nat
               /\ Sum(w) = s[n]
  BY SumIs
<1> HIDE DEF v
<1>3. PICK r : /\ r[0] = 0 /\ \A i \in 1..Len(v) : r[i] = r[i - 1] + v[i]
               /\ \A i \in 0..Len(v) : r[i] \in Nat
               /\ Sum(v) = r[Len(v)]
  BY <1>1, SumIs
<1> HIDE DEF n
<1>4. \A i \in 0..n : r[i] = s[i]
  <2> DEFINE G == {i \in 0..n : r[i] = s[i]}
  <2>1. ASSUME NEW i \in 1..n, i - 1 \in G PROVE i \in G
    <3>1. i \in 1..Len(v) /\ v[i] = w[i]
      BY <1>1
    <3>2. r[i] = r[i - 1] + v[i] /\ s[i] = s[i - 1] + w[i] /\ r[i - 1] = s[i - 1]
      BY <1>2, <1>3, <2>1, <3>1
    <3> QED
      BY <3>1, <3>2
  <2>1a. 0 \in G
    BY <1>1, <1>2, <1>3
  <2> HIDE DEF G
  <2>2. \A i \in 0..n : i \in G
    BY <1>1, <2>1, <2>1a, CountUp
  <2> QED
    BY <2>2 DEF G
<1>5. r[n + 1] = r[n] + v[n + 1]
  BY <1>1, <1>3
<1> QED
  BY <1>1, <1>2, <1>3, <1>4, <1>5 DEF v

\* What is counted of a transaction are numbers.
LEMMA TxFacts ==
  ASSUME NEW tx \in KnownTxs
  PROVE  /\ tx.gas \in Nat /\ tx.tip \in Nat /\ tx.blobs \in Nat /\ tx.tip * tx.gas \in Nat
         /\ tx.gas_limit \in Nat /\ tx.gas <= tx.gas_limit
<1>1. /\ tx.gas \in Nat /\ tx.tip \in Nat /\ tx.blobs \in Nat
      /\ tx.gas_limit \in Nat /\ tx.gas <= tx.gas_limit
  BY TxAssumption
<1> QED
  BY <1>1

\* A total over a block is a number, and a further transaction adds its own amount.
LEMMA TotalAppend ==
  ASSUME NEW amount \in [KnownTxs -> Nat], NEW txs \in Seq(KnownTxs), NEW tx \in KnownTxs
  PROVE  LET more == Append(txs, tx)
             total == Sum([i \in DOMAIN txs |-> amount[txs[i]]])
         IN total \in Nat /\ Sum([i \in DOMAIN more |-> amount[more[i]]]) = total + amount[tx]
<1> DEFINE Amounts(s) == [i \in DOMAIN s |-> amount[s[i]]]
           more == Append(txs, tx)
           x == amount[tx]
           n == Len(txs)
<1>1. /\ n \in Nat /\ DOMAIN txs = 1..n /\ \A i \in 1..n : txs[i] \in KnownTxs
      /\ more \in Seq(KnownTxs) /\ DOMAIN more = 1..(n + 1)
      /\ \A i \in 1..n : more[i] = txs[i]
      /\ more[n + 1] = tx
  BY AppendProperties, LenProperties, ElementOfSeq
<1>2. x \in Nat /\ \A i \in 1..n : amount[txs[i]] \in Nat
  BY <1>1
<1> HIDE DEF more, n, x
<1>3. Amounts(txs) \in Seq(Nat) /\ Len(Amounts(txs)) = n
  <2>1. Amounts(txs) \in [1..n -> Nat]
    BY <1>1, <1>2
  <2> HIDE DEF Amounts
  <2> QED
    BY <1>1, <2>1, LenProperties, SeqDef
<1>4. Amounts(more) = Append(Amounts(txs), x)
  <2>1. \A i \in 1..(n + 1) : Amounts(more)[i] = IF i = n + 1 THEN x ELSE Amounts(txs)[i]
    BY <1>1 DEF x
  <2>2. Amounts(more) = [i \in 1..(n + 1) |-> Amounts(more)[i]]
    BY <1>1
  <2> DEFINE a == Append(Amounts(txs), x)
  <2> HIDE DEF Amounts
  <2>3. /\ Len(a) = n + 1 /\ a \in Seq(Nat)
        /\ \A i \in 1..(n + 1) : a[i] = IF i = n + 1 THEN x ELSE Amounts(txs)[i]
    BY <1>1, <1>2, <1>3, AppendProperties
  <2>4. a = [i \in 1..(n + 1) |-> a[i]]
    <3> HIDE DEF a
    <3> QED
      BY <2>3, LenProperties
  <2> HIDE DEF a
  <2> QED
    BY <2>1, <2>2, <2>3, <2>4 DEF a
<1>5. Sum(Amounts(txs)) \in Nat /\ Sum(Amounts(more)) = Sum(Amounts(txs)) + x
  <2> HIDE DEF Amounts
  <2> QED
    BY <1>2, <1>3, <1>4, SumAppend
<1> QED
  BY <1>5 DEF more, x

\* The same for fees, gas and blobs.
LEMMA TotalsAppend ==
  ASSUME NEW txs \in Seq(KnownTxs), NEW tx \in KnownTxs
  PROVE  /\ FeesOf(txs) \in Nat /\ FeesOf(Append(txs, tx)) = FeesOf(txs) + tx.tip * tx.gas
         /\ GasOf(txs) \in Nat /\ GasOf(Append(txs, tx)) = GasOf(txs) + tx.gas
         /\ BlobsOf(txs) \in Nat /\ BlobsOf(Append(txs, tx)) = BlobsOf(txs) + tx.blobs
<1> DEFINE fee == [t \in KnownTxs |-> t.tip * t.gas]
           gas == [t \in KnownTxs |-> t.gas]
           blob == [t \in KnownTxs |-> t.blobs]
           Amounts(amount, s) == [i \in DOMAIN s |-> amount[s[i]]]
           more == Append(txs, tx)
<1>1. \A t \in KnownTxs : t.gas \in Nat /\ t.tip * t.gas \in Nat /\ t.blobs \in Nat
  BY TxFacts
<1>2. fee \in [KnownTxs -> Nat] /\ gas \in [KnownTxs -> Nat] /\ blob \in [KnownTxs -> Nat]
  <2>1. fee \in [KnownTxs -> Nat]
    BY <1>1
  <2>2. gas \in [KnownTxs -> Nat] /\ blob \in [KnownTxs -> Nat]
    BY <1>1
  <2> QED
    BY <2>1, <2>2
<1>3. more \in Seq(KnownTxs)
  BY AppendProperties
<1> HIDE DEF more
<1>4. ASSUME NEW s \in Seq(KnownTxs)
      PROVE  /\ FeesOf(s) = Sum(Amounts(fee, s)) /\ GasOf(s) = Sum(Amounts(gas, s))
             /\ BlobsOf(s) = Sum(Amounts(blob, s))
  <2>1. \A i \in DOMAIN s : s[i] \in KnownTxs
    BY <1>4, LenProperties, ElementOfSeq
  <2>2. /\ \A i \in DOMAIN s : fee[s[i]] = s[i].tip * s[i].gas
        /\ \A i \in DOMAIN s : gas[s[i]] = s[i].gas
        /\ \A i \in DOMAIN s : blob[s[i]] = s[i].blobs
    BY <2>1
  <2> HIDE DEF fee, gas, blob
  <2>3. Amounts(fee, s) = [i \in DOMAIN s |-> s[i].tip * s[i].gas]
    BY <2>2
  <2>4. Amounts(gas, s) = [i \in DOMAIN s |-> s[i].gas]
    BY <2>2
  <2>5. Amounts(blob, s) = [i \in DOMAIN s |-> s[i].blobs]
    BY <2>2
  <2> HIDE DEF Amounts
  <2> QED
    BY <2>3, <2>4, <2>5 DEF FeesOf, GasOf, BlobsOf
<1>5. fee[tx] = tx.tip * tx.gas /\ gas[tx] = tx.gas /\ blob[tx] = tx.blobs
  OBVIOUS
<1> HIDE DEF fee, gas, blob
<1>6. ASSUME NEW amount \in [KnownTxs -> Nat]
      PROVE  /\ Sum(Amounts(amount, txs)) \in Nat
             /\ Sum(Amounts(amount, more)) = Sum(Amounts(amount, txs)) + amount[tx]
  BY TotalAppend DEF more
<1> HIDE DEF Amounts
<1>7. /\ FeesOf(txs) \in Nat /\ FeesOf(more) = FeesOf(txs) + fee[tx]
      /\ GasOf(txs) \in Nat /\ GasOf(more) = GasOf(txs) + gas[tx]
      /\ BlobsOf(txs) \in Nat /\ BlobsOf(more) = BlobsOf(txs) + blob[tx]
  BY <1>2, <1>3, <1>4, <1>6
<1> QED
  BY <1>5, <1>7 DEF more

\* The fees of a block are a number, and a further transaction takes nothing away.
LEMMA FeesAppend ==
  ASSUME NEW txs \in Seq(KnownTxs), NEW tx \in KnownTxs
  PROVE  FeesOf(txs) \in Nat /\ FeesOf(Append(txs, tx)) >= FeesOf(txs)
<1>1. /\ FeesOf(txs) \in Nat /\ FeesOf(Append(txs, tx)) = FeesOf(txs) + tx.tip * tx.gas
      /\ tx.tip * tx.gas \in Nat
  BY TotalsAppend, TxFacts
<1> DEFINE x == tx.tip * tx.gas
<1> HIDE DEF x
<1> QED
  BY <1>1 DEF x

----------------------------------------------------------------------------
(* Putting a bid's block together. *)

\* r continues rt: it is for the same bid, and its block earns no less.
Continues(r, rt) == r \in Runtimes /\ r.bid = rt.bid /\ FeesOf(r.txs) >= FeesOf(rt.txs)

\* The fees of a runtime's block are a number.
LEMMA RuntimeFees ==
  ASSUME NEW rt \in Runtimes
  PROVE  /\ rt.txs \in Seq(KnownTxs) /\ FeesOf(rt.txs) \in Nat /\ rt.bid \in Bids
         /\ Continues(rt, rt)
<1>1. rt.txs \in Seq(KnownTxs) /\ rt.bid \in Bids
  BY DEF Runtimes
<1>2. FeesOf(rt.txs) \in Nat
  <2> DEFINE w == [i \in DOMAIN rt.txs |-> rt.txs[i].tip * rt.txs[i].gas]
  <2>1. Len(rt.txs) \in Nat /\ DOMAIN rt.txs = 1..Len(rt.txs) /\ \A i \in 1..Len(rt.txs) : rt.txs[i] \in KnownTxs
    BY <1>1, LenProperties, ElementOfSeq
  <2>2. w \in [1..Len(rt.txs) -> Nat]
    BY <2>1, TxFacts
  <2>3. FeesOf(rt.txs) = Sum(w)
    BY DEF FeesOf
  <2> HIDE DEF w
  <2>4. w \in Seq(Nat)
    BY <2>1, <2>2, SeqDef
  <2> QED
    BY <2>3, <2>4, SumAppend
<1> QED
  BY <1>1, <1>2 DEF Continues

\* One transaction.
LEMMA CommitOneFacts ==
  ASSUME NEW rt \in Runtimes, NEW tx \in KnownTxs, NEW index \in Nat, NEW limit, NEW from_pool
  PROVE  Continues(commit_one(rt, tx, index, limit, from_pool), rt)
<1> DEFINE counted == [rt EXCEPT !.block_blob_count = @ + tx.blobs]
           side == WithSidecar(counted, tx, index)
           done == [side EXCEPT !.txs = Append(@, tx)]
           failed == [rt EXCEPT !.err = TRUE]
           countedFailed == [counted EXCEPT !.err = TRUE]
<1>0. tx.blobs \in Nat /\ Continues(rt, rt) /\ rt.txs \in Seq(KnownTxs)
  BY TxFacts, RuntimeFees
<1>1. counted \in Runtimes /\ counted.bid = rt.bid /\ counted.txs = rt.txs
  BY <1>0 DEF Runtimes
<1>2. failed \in Runtimes /\ failed.bid = rt.bid /\ failed.txs = rt.txs
  BY DEF Runtimes
<1> HIDE DEF counted
<1>3. countedFailed \in Runtimes /\ countedFailed.bid = rt.bid /\ countedFailed.txs = rt.txs
  BY <1>1 DEF Runtimes
<1>4. side \in Runtimes /\ side.bid = rt.bid /\ side.txs = rt.txs
  <2> DEFINE Sidecars == [tx : {t.id : t \in KnownTxs}, tx_index : Nat]
  <2>1. [tx |-> tx.id, tx_index |-> index] \in Sidecars
    OBVIOUS
  <2>2. counted.blob_sidecars \in Seq(Sidecars)
    BY <1>1 DEF Runtimes
  <2> HIDE DEF Sidecars
  <2>3. Append(counted.blob_sidecars, [tx |-> tx.id, tx_index |-> index]) \in Seq(Sidecars)
    BY <2>1, <2>2, AppendProperties
  <2> QED
    BY <1>1, <2>3 DEF WithSidecar, Runtimes, Sidecars
<1> HIDE DEF side
<1>5. done \in Runtimes /\ done.bid = rt.bid /\ done.txs = Append(rt.txs, tx)
  <2>1. Append(rt.txs, tx) \in Seq(KnownTxs)
    BY <1>0, AppendProperties
  <2> QED
    BY <1>4, <2>1 DEF Runtimes
<1>6. FeesOf(Append(rt.txs, tx)) >= FeesOf(rt.txs) /\ FeesOf(rt.txs) >= FeesOf(rt.txs)
  BY <1>0, FeesAppend
<1>7. commit_one(rt, tx, index, limit, from_pool) \in {rt, failed, counted, countedFailed, done}
  BY DEF commit_one, LeaveOut, counted, side
<1> HIDE DEF failed, countedFailed, done
<1> QED
  BY <1>0, <1>1, <1>2, <1>3, <1>5, <1>6, <1>7 DEF Continues

\* A turn of the loop of commit_transaction_recovered.
Turn(r, tx, i, limit, from_pool) ==
  IF r.err \/ r.over THEN r
  ELSE IF from_pool /\ limit - GasOf(r.txs) \in 0 .. TX_GAS - 1 THEN [r EXCEPT !.over = TRUE]
  ELSE commit_one(r, tx, i, limit, from_pool)

\* It continues what it begins with.
LEMMA TurnFacts ==
  ASSUME NEW r \in Runtimes, NEW tx \in KnownTxs, NEW i \in Nat, NEW limit, NEW from_pool
  PROVE  Continues(Turn(r, tx, i, limit, from_pool), r)
<1>1. Continues(commit_one(r, tx, i, limit, from_pool), r) /\ Continues(r, r)
  BY CommitOneFacts, RuntimeFees
<1>2. /\ [r EXCEPT !.over = TRUE] \in Runtimes
      /\ [r EXCEPT !.over = TRUE].bid = r.bid /\ [r EXCEPT !.over = TRUE].txs = r.txs
  BY DEF Runtimes
<1>3. Continues([r EXCEPT !.over = TRUE], r)
  BY <1>1, <1>2 DEF Continues
<1> QED
  BY <1>1, <1>3 DEF Turn

\* The loop over a list: what holds before its first turn and is carried on by every turn
\* holds after the last. Hold[i] are the runtimes allowed after i turns.
LEMMA CommitLoop ==
  ASSUME NEW rt \in Runtimes, NEW txs \in Seq(KnownTxs), NEW limit, NEW from_pool, NEW Hold,
         rt \in Hold[0],
         \A i \in 1..Len(txs) : \A r \in Runtimes :
           r \in Hold[i - 1] => Turn(r, txs[i], i, limit, from_pool) \in Hold[i]
  PROVE  /\ commit_transaction_recovered(rt, txs, limit, from_pool) \in Runtimes
         /\ commit_transaction_recovered(rt, txs, limit, from_pool) \in Hold[Len(txs)]
<1> DEFINE n == Len(txs)
           step(r, i) == IF r.err \/ r.over THEN r
                         ELSE IF from_pool /\ limit - GasOf(r.txs) \in 0 .. TX_GAS - 1
                         THEN [r EXCEPT !.over = TRUE]
                         ELSE commit_one(r, txs[i], i, limit, from_pool)
           F(f, i) == IF i = 0 THEN rt ELSE step(f[i - 1], i)
           run == CHOOSE f : f = [i \in 0..n |-> F(f, i)]
           g == [i \in 1..n |-> [r \in Runtimes |-> step(r, i)]]
<1>1. n \in Nat /\ \A i \in 1..n : txs[i] \in KnownTxs /\ i \in Nat
  BY LenProperties, ElementOfSeq
<1>2. commit_transaction_recovered(rt, txs, limit, from_pool) = run[n]
  BY DEF commit_transaction_recovered
<1>3. \A r : \A i \in 1..n : step(r, i) = Turn(r, txs[i], i, limit, from_pool)
  BY DEF Turn
<1> HIDE DEF n, step
<1>4. ASSUME NEW r \in Runtimes, NEW i \in 1..n
      PROVE  step(r, i) \in Runtimes /\ (r \in Hold[i - 1] => step(r, i) \in Hold[i])
  <2>1. Turn(r, txs[i], i, limit, from_pool) \in Runtimes
    BY <1>1, TurnFacts DEF Continues
  <2> QED
    BY <1>3, <2>1 DEF n
<1>5. PICK f : IsRun(f, g, rt, n, Runtimes)
  <2>1. IsSteps(g, n, Runtimes)
    BY <1>4 DEF IsSteps
  <2> HIDE DEF g
  <2> QED
    BY <1>1, <2>1, RunExists
<1>6. f = [i \in 0..n |-> F(f, i)]
  <2>1. ASSUME NEW i \in 0..n PROVE f[i] = F(f, i)
    <3>1. CASE i = 0
      BY <1>5, <3>1 DEF IsRun
    <3>2. CASE i # 0
      <4>1. i \in 1..n /\ f[i - 1] \in Runtimes
        BY <1>1, <1>5, <3>2 DEF IsRun
      <4>2. g[i][f[i - 1]] = step(f[i - 1], i)
        BY <4>1
      <4> QED
        BY <1>5, <3>2, <4>1, <4>2 DEF IsRun
    <3> QED
      BY <3>1, <3>2
  <2> HIDE DEF F
  <2> QED
    BY <1>5, <2>1 DEF IsRun
<1>7. run = [i \in 0..n |-> F(run, i)]
  <2> HIDE DEF F
  <2> QED
    BY <1>6
<1> HIDE DEF run
<1>8. \A i \in 0..n : run[i] = F(run, i)
  <2> HIDE DEF F
  <2> QED
    BY <1>7
<1> DEFINE G == {i \in 0..n : run[i] \in Runtimes /\ run[i] \in Hold[i]}
<1>9. 0 \in G
  BY <1>1, <1>8
<1>10. ASSUME NEW i \in 1..n, i - 1 \in G PROVE i \in G
  <2>1. run[i - 1] \in Runtimes /\ run[i - 1] \in Hold[i - 1] /\ run[i] = step(run[i - 1], i)
    BY <1>1, <1>8, <1>10
  <2> QED
    BY <1>1, <1>4, <2>1
<1> HIDE DEF G
<1>11. \A i \in 0..n : i \in G
  BY <1>1, <1>9, <1>10, CountUp
<1>12. n \in G
  BY <1>1, <1>11
<1> QED
  BY <1>2, <1>12 DEF G, n

\* A list of transactions.
LEMMA CommitFacts ==
  ASSUME NEW rt \in Runtimes, NEW txs \in Seq(KnownTxs), NEW limit, NEW from_pool
  PROVE  Continues(commit_transaction_recovered(rt, txs, limit, from_pool), rt)
<1> DEFINE T == {r \in Runtimes : Continues(r, rt)}
           Hold == [i \in 0..Len(txs) |-> T]
<1>1. Len(txs) \in Nat /\ \A i \in 1..Len(txs) : txs[i] \in KnownTxs /\ i \in Nat
  BY LenProperties, ElementOfSeq
<1>2. \A i \in 0..Len(txs) : Hold[i] = T
  OBVIOUS
<1>3. rt \in T
  BY RuntimeFees
<1>4. ASSUME NEW i \in 1..Len(txs), NEW r \in Runtimes, r \in T
      PROVE  Turn(r, txs[i], i, limit, from_pool) \in T
  <2> DEFINE next == Turn(r, txs[i], i, limit, from_pool)
  <2>1. Continues(next, r)
    BY <1>1, TurnFacts
  <2> HIDE DEF next
  <2>2. FeesOf(next.txs) \in Nat /\ FeesOf(r.txs) \in Nat /\ FeesOf(rt.txs) \in Nat
    BY <2>1, RuntimeFees DEF Continues
  <2>3. Continues(next, rt)
    BY <1>4, <2>1, <2>2 DEF Continues
  <2> QED
    BY <2>1, <2>3 DEF next, Continues
<1> HIDE DEF T, Hold
<1>5. 0 \in 0..Len(txs) /\ Len(txs) \in 0..Len(txs) /\ \A i \in 1..Len(txs) : i \in 0..Len(txs) /\ i - 1 \in 0..Len(txs)
  BY <1>1
<1>6. rt \in Hold[0]
  BY <1>2, <1>3, <1>5
<1>7. \A i \in 1..Len(txs) : \A r \in Runtimes :
        r \in Hold[i - 1] => Turn(r, txs[i], i, limit, from_pool) \in Hold[i]
  BY <1>2, <1>4, <1>5
<1>8. commit_transaction_recovered(rt, txs, limit, from_pool) \in Hold[Len(txs)]
  BY <1>6, <1>7, CommitLoop
<1> QED
  BY <1>2, <1>5, <1>8 DEF T

\* The bids that could be read.
OkBids == {b \in Bids : Bid[b].ok}

\* What such a bid consists of.
LEMMA BidFacts ==
  ASSUME NEW b \in OkBids
  PROVE  /\ Bid[b].parent \in Blocks /\ Bid[b].gas_fee \in Nat /\ Bid[b].builder_fee \in Nat
         /\ Own(b) \in Seq(KnownTxs) /\ PayBid(b) \in KnownTxs /\ Bid[b].gas_used \in Nat
<1> DEFINE args == BidArgs[b]
           raw == args.raw_bid
           decoded == [i \in DOMAIN raw.txs |-> decode_transaction_with_sidecar(raw.txs[i])]
           pay == decode_transaction_with_sidecar(args.pay_bid_tx)
           all == Append(decoded, pay)
           fails == \/ \E i \in DOMAIN all : ~all[i].ok
                    \/ Cardinality(raw.un_revertible) > Len(raw.txs)
           n == Len(raw.txs)
<1>1. b \in Bids /\ Bid[b] = to_bid(args) /\ Bid[b].ok
  BY DEF OkBids, Bid
<1>2. ~fails
  <2>1. ASSUME fails PROVE FALSE
    <3>1. Bid[b] = Failed
      BY <1>1, <2>1 DEF to_bid
    <3> QED
      BY <1>1, <3>1 DEF Failed
  <2> QED
    BY <2>1
<1>3. /\ Bid[b].parent = raw.parent_hash /\ Bid[b].gas_fee = raw.gas_fee /\ Bid[b].gas_used = raw.gas_used
      /\ Bid[b].builder_fee = BuilderFee(raw)
      /\ Bid[b].txs = [i \in DOMAIN all |-> all[i].tx]
  <2> DEFINE made == [ok |-> TRUE, builder |-> recover_builder_address(args),
           block_number |-> raw.block_number, parent |-> raw.parent_hash,
           txs |-> [i \in DOMAIN all |-> all[i].tx],
           blob_sidecars |-> {all[i].tx.id : i \in {j \in DOMAIN all : all[j].sidecar}},
           un_revertible |-> raw.un_revertible, gas_used |-> raw.gas_used,
           gas_fee |-> raw.gas_fee, builder_fee |-> BuilderFee(raw),
           bid_hash |-> calculate_raw_bid_hash(raw)]
  <2>1. Bid[b] = made
    BY <1>1, <1>2 DEF to_bid
  <2> DEFINE txs == [i \in DOMAIN all |-> all[i].tx]
             sidecars == {all[i].tx.id : i \in {j \in DOMAIN all : all[j].sidecar}}
  <2> HIDE DEF all, raw, txs, sidecars
  <2> QED
    BY <2>1
<1>4. /\ raw.parent_hash \in Blocks /\ raw.gas_fee \in Nat /\ raw.builder_fee \in Nat \cup {None}
      /\ raw.txs \in Seq(ToSet(raw.txs)) /\ raw.gas_used \in Nat
  <2>1. raw.txs \in Seq(ToSet(raw.txs)) /\ raw.builder_fee \in Nat \cup {None} /\ raw.gas_used \in Nat
    BY <1>1, TxAssumption
  <2>2. raw.parent_hash \in Blocks /\ raw.gas_fee \in Nat
    BY <1>1, BidAssumption
  <2> QED
    BY <2>1, <2>2
<1>5. /\ Bid[b].parent \in Blocks /\ Bid[b].gas_fee \in Nat /\ Bid[b].builder_fee \in Nat
      /\ Bid[b].gas_used \in Nat
  <2> HIDE DEF raw
  <2> QED
    BY <1>3, <1>4 DEF BuilderFee, None
<1>6. n \in Nat /\ DOMAIN raw.txs = 1..n
  <2> HIDE DEF raw
  <2> QED
    BY <1>4, LenProperties
<1>7. \A bytes \in ToSet(raw.txs) \cup {args.pay_bid_tx} : bytes.tx \in KnownTxs
  <2> DEFINE Brought(c) == {bytes.tx : bytes \in ToSet(BidArgs[c].raw_bid.txs) \cup {BidArgs[c].pay_bid_tx}}
  <2>1. UNION {Brought(c) : c \in Bids} \subseteq KnownTxs
    BY DEF KnownTxs
  <2>2. \A bytes \in ToSet(raw.txs) \cup {args.pay_bid_tx} : bytes.tx \in Brought(b)
    OBVIOUS
  <2> HIDE DEF Brought, raw
  <2>3. Brought(b) \subseteq KnownTxs
    BY <1>1, <2>1
  <2> QED
    BY <2>2, <2>3
<1>8. \A i \in 1..n : raw.txs[i] \in ToSet(raw.txs)
  <2> HIDE DEF raw, n
  <2> QED
    BY <1>6 DEF ToSet
<1>9. \A bytes : decode_transaction_with_sidecar(bytes).ok => decode_transaction_with_sidecar(bytes).tx = bytes.tx
  BY DEF decode_transaction_with_sidecar, parse_transaction, Failed
<1>10. /\ DOMAIN all = 1..(n + 1) /\ all[n + 1] = pay
       /\ \A i \in 1..n : all[i] = decode_transaction_with_sidecar(raw.txs[i])
  <2> DEFINE D == {decode_transaction_with_sidecar(raw.txs[i]) : i \in 1..n} \cup {pay}
  <2> HIDE DEF raw, n, pay
  <2>1. decoded \in [1..n -> D] /\ pay \in D
    BY <1>6
  <2>2. decoded \in Seq(D)
    <3> HIDE DEF D, decoded
    <3> QED
      BY <1>6, <2>1, SeqDef
  <2>3. Len(decoded) = n /\ \A i \in 1..n : decoded[i] = decode_transaction_with_sidecar(raw.txs[i])
    <3>1. DOMAIN decoded = 1..n /\ \A i \in 1..n : decoded[i] = decode_transaction_with_sidecar(raw.txs[i])
      BY <1>6
    <3> HIDE DEF D, decoded
    <3> QED
      BY <1>6, <2>2, <3>1, LenProperties
  <2> HIDE DEF D, decoded
  <2> QED
    BY <1>6, <2>1, <2>2, <2>3, AppendProperties, LenProperties
<1>11. \A i \in 1..(n + 1) : all[i].ok
  <2> HIDE DEF all, raw, n
  <2> QED
    BY <1>2, <1>10
<1>12. \A i \in 1..(n + 1) : all[i].tx \in KnownTxs
  <2> HIDE DEF all, raw, n
  <2>1. ASSUME NEW i \in 1..n PROVE all[i].tx \in KnownTxs
    <3>1. i \in 1..(n + 1)
      BY <1>6
    <3> QED
      BY <1>7, <1>8, <1>9, <1>10, <1>11, <3>1
  <2>2. all[n + 1].tx \in KnownTxs
    <3>1. n + 1 \in 1..(n + 1)
      BY <1>6
    <3> QED
      BY <1>7, <1>9, <1>10, <1>11, <3>1
  <2> QED
    BY <1>6, <2>1, <2>2
<1>13. /\ Bid[b].txs \in Seq(KnownTxs) /\ Len(Bid[b].txs) = n + 1
       /\ \A i \in 1..(n + 1) : Bid[b].txs[i] \in KnownTxs
  <2> DEFINE txs == [i \in 1..(n + 1) |-> all[i].tx]
  <2>1. Bid[b].txs = txs
    BY <1>3, <1>10
  <2>2. txs \in [1..(n + 1) -> KnownTxs] /\ n + 1 \in Nat
    <3> HIDE DEF all, n
    <3> QED
      BY <1>6, <1>12
  <2> HIDE DEF txs, n
  <2>3. txs \in Seq(KnownTxs)
    BY <2>2, SeqDef
  <2> QED
    BY <2>1, <2>2, <2>3, LenProperties
<1> HIDE DEF n
<1>14. Own(b) \in Seq(KnownTxs)
  <2>1. Own(b) = SubSeq(Bid[b].txs, 1, n)
    <3>1. (n + 1) - 1 = n
      BY <1>6
    <3> QED
      BY <1>13, <3>1 DEF Own, Front
  <2>2. \A i \in 1..n : Bid[b].txs[i] \in KnownTxs
    BY <1>6, <1>13
  <2> QED
    BY <1>6, <2>1, <2>2, SubSeqIs
<1>15. PayBid(b) \in KnownTxs
  <2>1. n + 1 \in 1..(n + 1)
    BY <1>6
  <2> QED
    BY <1>13, <2>1 DEF PayBid, Last
<1> QED
  BY <1>5, <1>14, <1>15

\* The transactions of a sender are transactions of the pool.
LEMMA OfSenderTyped ==
  ASSUME NEW s
  PROVE  OfSender(s) \in Seq(KnownTxs)
<1> DEFINE n == Len(PoolTxs)
           step(l, i) == IF PoolTxs[i].sender = s THEN Append(l, PoolTxs[i]) ELSE l
           F(f, i) == IF i = 0 THEN <<>>
                      ELSE IF PoolTxs[i].sender = s THEN Append(f[i - 1], PoolTxs[i]) ELSE f[i - 1]
           take == CHOOSE f : f = [i \in 0..n |-> F(f, i)]
           g == [i \in 1..n |-> [l \in Seq(KnownTxs) |-> step(l, i)]]
<1>1. n \in Nat /\ \A i \in 1..n : PoolTxs[i] \in KnownTxs
  BY TxAssumption, LenProperties, ElementOfSeq
<1>2. OfSender(s) = take[n]
  BY DEF OfSender
<1> HIDE DEF n
<1>3. \A i \in 1..n : \A l \in Seq(KnownTxs) : step(l, i) \in Seq(KnownTxs)
  BY <1>1, AppendProperties
<1>4. \A f : \A i \in 1..n : F(f, i) = step(f[i - 1], i)
  BY <1>1
<1>5. \A f : F(f, 0) = <<>>
  OBVIOUS
<1> HIDE DEF step, F
<1>6. <<>> \in Seq(KnownTxs)
  BY EmptySeq
<1>7. PICK f : IsRun(f, g, <<>>, n, Seq(KnownTxs))
  <2>1. IsSteps(g, n, Seq(KnownTxs))
    BY <1>3, Zenon DEF IsSteps
  <2> HIDE DEF g
  <2> QED
    BY <1>1, <1>6, <2>1, RunExists
<1>8. f = [i \in 0..n |-> F(f, i)]
  <2>1. ASSUME NEW i \in 0..n PROVE f[i] = F(f, i)
    <3>1. CASE i = 0
      BY <1>5, <1>7, <3>1 DEF IsRun
    <3>2. CASE i # 0
      <4>1. i \in 1..n /\ i - 1 \in 0..n
        BY <1>1, <3>2
      <4>2. f[i - 1] \in Seq(KnownTxs) /\ f[i] = g[i][f[i - 1]]
        <5> HIDE DEF g
        <5> QED
          BY <1>7, <4>1 DEF IsRun
      <4>3. g[i][f[i - 1]] = step(f[i - 1], i)
        BY <4>1, <4>2
      <4> QED
        BY <1>4, <4>1, <4>2, <4>3
    <3> QED
      BY <3>1, <3>2
  <2>2. f = [i \in 0..n |-> f[i]]
    BY <1>7 DEF IsRun
  <2> QED
    BY <2>1, <2>2
<1>9. take = [i \in 0..n |-> F(take, i)]
  BY <1>8
<1> HIDE DEF take
<1>10. \A i \in 0..n : take[i] = F(take, i)
  BY <1>9
<1> DEFINE G == {i \in 0..n : take[i] \in Seq(KnownTxs)}
<1>11. 0 \in G
  <2>1. 0 \in 0..n
    BY <1>1
  <2>2. take[0] = <<>>
    BY <1>5, <1>10, <2>1
  <2> QED
    BY <1>6, <2>1, <2>2
<1>12. ASSUME NEW i \in 1..n, i - 1 \in G PROVE i \in G
  <2>1. take[i - 1] \in Seq(KnownTxs) /\ take[i] = step(take[i - 1], i)
    BY <1>1, <1>4, <1>10, <1>12
  <2> QED
    BY <1>1, <1>3, <2>1
<1> HIDE DEF G
<1>13. \A i \in 0..n : i \in G
  BY <1>1, <1>11, <1>12, CountUp
<1> QED
  BY <1>1, <1>2, <1>13 DEF G

Reset(r) == [r EXCEPT !.over = FALSE]

\* fill_tx_from_pool commits a list of transactions of the pool.
LEMMA FillIs ==
  ASSUME NEW rt \in Runtimes, NEW order \in SenderOrders, NEW limit, NEW cut \in Nat
  PROVE  \E txs \in Seq(KnownTxs) :
           fill_tx_from_pool(rt, order, limit, cut) =
             Reset(commit_transaction_recovered(rt, txs, limit, TRUE))
<1> DEFINE of(s) == OfSender(s)
           inBid(s) == {i \in DOMAIN of(s) : \E k \in DOMAIN Own(rt.bid) : Own(rt.bid)[k].id = of(s)[i].id}
           after(s) == IF inBid(s) = {} THEN 0 ELSE CHOOSE i \in inBid(s) : \A k \in inBid(s) : k <= i
           rest(s) == SubSeq(of(s), 1 + after(s), Len(of(s)))
           lists == [i \in DOMAIN order |-> rest(order[i])]
           pending_txs == FlattenSeq(lists)
           taken == IF cut < Len(pending_txs) THEN cut ELSE Len(pending_txs)
           txs == SubSeq(pending_txs, 1, taken)
           r == commit_transaction_recovered(rt, txs, limit, TRUE)
<1>1. fill_tx_from_pool(rt, order, limit, cut) = Reset(r)
  BY DEF fill_tx_from_pool, Reset
<1>2. ASSUME NEW s PROVE rest(s) \in Seq(KnownTxs)
  <2> DEFINE l == of(s)
             In == inBid(s)
             m == after(s)
  <2>1. l \in Seq(KnownTxs)
    BY OfSenderTyped
  <2>2. Len(l) \in Nat /\ DOMAIN l = 1..Len(l) /\ \A i \in 1..Len(l) : l[i] \in KnownTxs
    <3> HIDE DEF l
    <3> QED
      BY <2>1, LenProperties, ElementOfSeq
  <2>3. In \subseteq DOMAIN l
    OBVIOUS
  <2>4. rest(s) = SubSeq(l, 1 + m, Len(l))
    OBVIOUS
  <2>5. m = IF In = {} THEN 0 ELSE CHOOSE i \in In : \A k \in In : k <= i
    OBVIOUS
  <2> HIDE DEF l, In, m, rest
  <2>6. m \in 0..Len(l)
    <3>1. CASE In = {}
      BY <2>2, <2>5, <3>1
    <3>2. CASE In # {}
      <4>1. In \in SUBSET (0..Len(l))
        BY <2>2, <2>3
      <4>2. \E i \in In : \A k \in In : k <= i
        BY <2>2, <3>2, <4>1, GreatestNumber
      <4>3. m \in In
        BY <2>5, <3>2, <4>2
      <4> QED
        BY <4>1, <4>3
    <3> QED
      BY <3>1, <3>2
  <2>7. 1 + m = m + 1 /\ m \in Nat /\ m <= Len(l) /\ \A i \in (m + 1)..Len(l) : l[i] \in KnownTxs
    BY <2>2, <2>6
  <2> QED
    BY <2>2, <2>4, <2>7, SubSeqIs
<1> HIDE DEF rest
<1>3. pending_txs \in Seq(KnownTxs)
  <2> DEFINE Senders == {PoolTxs[i].sender : i \in DOMAIN PoolTxs}
             c == Cardinality(Senders)
  <2>1. DOMAIN PoolTxs = 1..Len(PoolTxs) /\ Len(PoolTxs) \in Nat
    BY TxAssumption, LenProperties
  <2>2. IsFiniteSet(1..Len(PoolTxs))
    <3>1. 1 \in Int /\ Len(PoolTxs) \in Int
      BY <2>1
    <3> QED
      BY <3>1, FS_Interval
  <2>3. IsFiniteSet(Senders)
    <3> DEFINE sender == [i \in 1..Len(PoolTxs) |-> PoolTxs[i].sender]
    <3>1. Senders = {sender[i] : i \in 1..Len(PoolTxs)}
      BY <2>1
    <3>2. sender \in Surjection(1..Len(PoolTxs), Senders)
      BY <3>1 DEF Surjection
    <3> HIDE DEF sender, Senders
    <3> QED
      BY <2>2, <3>2, FS_Surjection
  <2>4. c \in Nat /\ DOMAIN order = 1..c
    <3>1. SenderOrders = SetToSeqs(Senders)
      BY DEF SenderOrders
    <3> HIDE DEF Senders
    <3> QED
      BY <2>3, <3>1, FS_CardinalityType DEF SetToSeqs
  <2>5. lists \in [1..c -> Seq(KnownTxs)]
    BY <1>2, <2>4
  <2> HIDE DEF c, lists
  <2>6. lists \in Seq(Seq(KnownTxs))
    BY <2>4, <2>5, SeqDef
  <2> QED
    BY <2>6, FlattenTyped
<1> HIDE DEF pending_txs
<1>4. txs \in Seq(KnownTxs)
  <2>1. Len(pending_txs) \in Nat /\ \A i \in 1..Len(pending_txs) : pending_txs[i] \in KnownTxs
    BY <1>3, LenProperties, ElementOfSeq
  <2>2. taken \in Nat /\ taken <= Len(pending_txs)
    BY <2>1
  <2> HIDE DEF taken
  <2>3. \A i \in 1..taken : pending_txs[i] \in KnownTxs
    BY <2>1, <2>2
  <2> QED
    BY <2>2, <2>3, SubSeqIs
<1> HIDE DEF txs
<1> QED
  BY <1>1, <1>4

\* It takes away nothing.
LEMMA FillFacts ==
  ASSUME NEW rt \in Runtimes, NEW order \in SenderOrders, NEW limit, NEW cut \in Nat
  PROVE  Continues(fill_tx_from_pool(rt, order, limit, cut), rt)
<1>1. PICK txs \in Seq(KnownTxs) :
        fill_tx_from_pool(rt, order, limit, cut) =
          Reset(commit_transaction_recovered(rt, txs, limit, TRUE))
  BY FillIs
<1> DEFINE r == commit_transaction_recovered(rt, txs, limit, TRUE)
<1>2. Continues(r, rt)
  BY CommitFacts
<1> HIDE DEF r
<1>3. Reset(r) \in Runtimes /\ Reset(r).bid = r.bid /\ Reset(r).txs = r.txs
  BY <1>2 DEF Continues, Runtimes, Reset
<1> QED
  BY <1>1, <1>2, <1>3 DEF Continues, r

\* The block that a bid comes to has at least the fees of its own transactions, and the
\* paying transaction takes none away.
LEMMA MergeFacts ==
  ASSUME NEW b \in OkBids, NEW merged \in MergeOutcomes[b]
  PROVE  /\ merged \in Runtimes /\ merged.bid = b /\ BidPaid(merged) \in Runtimes
         /\ FeesOf(merged.txs) \in Nat /\ FeesOf(BidCommitted(b).txs) \in Nat
         /\ FeesOf(merged.txs) >= FeesOf(BidCommitted(b).txs)
         /\ FeesOf(merged.txs) < Modulus /\ FeesOf(BidPaid(merged).txs) \in Nat
         /\ FeesOf(BidPaid(merged).txs) >= FeesOf(merged.txs)
<1>1. NewRuntime(b) \in Runtimes /\ NewRuntime(b).bid = b
  <2>1. b \in Bids /\ <<>> \in Seq(KnownTxs) /\ <<>> \in Seq([tx : {tx.id : tx \in KnownTxs}, tx_index : Nat])
    BY EmptySeq DEF OkBids
  <2> QED
    BY <2>1 DEF NewRuntime, Runtimes
<1>2. Continues(BidCommitted(b), NewRuntime(b))
  BY <1>1, BidFacts, CommitFacts DEF BidCommitted, commit_transaction
<1>3. BidCommitted(b) \in Runtimes /\ BidCommitted(b).bid = b /\ Continues(BidCommitted(b), BidCommitted(b))
  BY <1>1, <1>2, RuntimeFees DEF Continues
<1>4. MergeOutcomes[b] = {BidCommitted(b)} \cup {Merged(b, order, cut) : order \in SenderOrders, cut \in MergeCuts}
  BY DEF MergeOutcomes, OkBids
<1>5. \A order \in SenderOrders, cut \in MergeCuts : Continues(Merged(b, order, cut), BidCommitted(b))
  BY <1>3, FillFacts, BidAssumption DEF Merged
<1>6. Continues(merged, BidCommitted(b))
  BY <1>3, <1>4, <1>5
<1>7. merged \in Runtimes /\ merged.bid = b
  BY <1>3, <1>6 DEF Continues
<1>8. BidPaid(merged) \in Runtimes /\ FeesOf(BidPaid(merged).txs) >= FeesOf(merged.txs)
  <2> DEFINE r == [merged EXCEPT !.over = FALSE]
  <2>1. r \in Runtimes /\ r.txs = merged.txs
    BY <1>7 DEF Runtimes
  <2>2. <<PayBid(merged.bid)>> \in Seq(KnownTxs)
    BY <1>7, BidFacts
  <2> HIDE DEF r
  <2>3. Continues(commit_transaction_recovered(r, <<PayBid(merged.bid)>>, bid_gas_limit + PAY_BID_TX_GAS_LIMIT, FALSE), r)
    BY <2>1, <2>2, CommitFacts
  <2> QED
    BY <2>1, <2>3 DEF BidPaid, commit_transaction, Continues, r
<1>9. FeesOf(merged.txs) < Modulus
  <2>1. b \in DOMAIN MergeOutcomes
    BY DEF MergeOutcomes, OkBids
  <2> QED
    BY <2>1, FeesFit
<1> QED
  BY <1>3, <1>6, <1>7, <1>8, <1>9, RuntimeFees DEF Continues

----------------------------------------------------------------------------
(* The rewards of the best bid. *)

\* The validator's share is a number, no more than the whole, and grows with it.
LEMMA ShareFacts ==
  ASSUME NEW r \in Nat, NEW q \in Nat
  PROVE  Share(r) \in Nat /\ Share(r) <= r /\ (q <= r => Share(q) <= Share(r))
<1> DEFINE c == Commission
           x == r * c
           y == q * c
<1>1. c \in Nat /\ c <= 10000
  BY BidAssumption
<1> HIDE DEF c
<1>2. x \in Nat /\ y \in Nat
  BY <1>1
<1>3. x <= r * 10000
  BY <1>1
<1>4. q <= r => y <= x
  <2>1. ASSUME q <= r PROVE y <= x
    <3>1. (r - q) * c \in Nat /\ (r - q) * c = r * c - q * c
      BY <1>1, <2>1
    <3> QED
      BY <1>2, <3>1
  <2> QED
    BY <2>1
<1>5. Share(r) = x \div 10000 /\ Share(q) = y \div 10000
  BY DEF Share, c
<1> HIDE DEF x, y
<1>6. x \div 10000 \in Nat /\ x \div 10000 <= r /\ (y <= x => y \div 10000 <= x \div 10000)
  BY <1>2, <1>3
<1> QED
  BY <1>4, <1>5, <1>6

\* Wrapping does nothing to a number that is in range.
LEMMA NoWrap ==
  ASSUME NEW a \in Nat, NEW b \in Nat, b <= a, a < Modulus
  PROVE  WrapSub(a, b) = a - b
<1> DEFINE m == Modulus
           x == a - b
<1>1. m \in Nat /\ x \in Nat /\ x < m
  BY BidAssumption
<1>2. WrapSub(a, b) = (x + m) % m
  BY DEF WrapSub
<1> HIDE DEF m, x
<1>3. (x + m) % m = x
  BY <1>1
<1> QED
  BY <1>2, <1>3 DEF x

\* The bids that new_bid_runtime accepts.
RunBids == {b \in OkBids : runtime_ok(b)}

\* What the validator gets of a simulation that passed valid_reward.
LEMMA RewardFacts ==
  ASSUME NEW b \in RunBids, NEW merged \in MergeOutcomes[b],
         valid_reward(b, FeesOf(BidCommitted(b).txs))
  PROVE  LET reward == FeesOf(merged.txs)
         IN /\ pack_reward(b, reward) \in Int
            /\ pack_reward(b, reward) >= expected_validator_reward(b)
            /\ pack_reward(b, reward) + Bid[b].builder_fee = Share(reward)
<1> DEFINE reward == FeesOf(merged.txs)
           own == FeesOf(BidCommitted(b).txs)
           fee == Bid[b].builder_fee
           claim == Bid[b].gas_fee
<1>1. b \in OkBids /\ Share(claim) >= fee
  BY DEF RunBids, runtime_ok
<1>2. fee \in Nat /\ claim \in Nat
  BY <1>1, BidFacts
<1>3. reward \in Nat /\ own \in Nat /\ reward >= own /\ reward < Modulus
  BY <1>1, MergeFacts
<1>4. own >= claim
  BY DEF valid_reward
<1> HIDE DEF reward, own, fee, claim
<1>5. Share(reward) \in Nat /\ Share(reward) <= reward /\ Share(claim) \in Nat /\ Share(claim) <= Share(reward)
  BY <1>2, <1>3, <1>4, ShareFacts
<1>6. pack_reward(b, reward) = Share(reward) - fee
  <2>1. fee <= Share(reward) /\ Share(reward) < Modulus
    BY <1>1, <1>2, <1>3, <1>5, BidAssumption
  <2> QED
    BY <1>2, <1>5, <2>1, NoWrap DEF pack_reward, fee
<1>7. expected_validator_reward(b) = Share(claim) - fee
  BY DEF expected_validator_reward, fee, claim
<1> QED
  BY <1>2, <1>5, <1>6, <1>7 DEF reward, fee

\* The block of the best bid earns at least the reward it was ranked by.
FeesCover == \A p \in Blocks : best_bid[p] # NoBid => best_bid[p].fees >= best_bid[p].reward

\* The inductive invariant of the simulator: what is queued and what runs are bids
\* that were accepted, and the promises about the best bid.
BidInv ==
  /\ bid_queue \in Seq(OkBids) /\ requests \in Seq(RunBids)
  /\ best_bid_to_run \in [Blocks -> RunBids \cup {NoBid}]
  /\ best_bid \in [Blocks -> BestBids \cup {NoBid}]
  /\ earned \in [Blocks -> SUBSET Nat]
  /\ RewardHonored /\ BestBidIsBest /\ FeesCover

\* A simulation that runs to its end keeps it.
LEMMA CompletionKeeps ==
  ASSUME BidInv, NEW b \in RunBids, NEW merged \in MergeOutcomes[b], simulate_completes(b, merged)
  PROVE  /\ best_bid_to_run' \in [Blocks -> RunBids \cup {NoBid}]
         /\ best_bid' \in [Blocks -> BestBids \cup {NoBid}]
         /\ earned' \in [Blocks -> SUBSET Nat]
         /\ RewardHonored' /\ BestBidIsBest' /\ FeesCover'
<1> DEFINE p == Bid[b].parent
           paid == BidPaid(merged)
           reward == FeesOf(merged.txs)
           e == Simulated(b, merged, paid)
           wins == Beats(reward, p)
<1>1. b \in OkBids /\ b \in Bids /\ p \in Blocks
  BY BidFacts DEF RunBids, OkBids
<1>2. valid_reward(b, FeesOf(BidCommitted(b).txs))
  BY DEF simulate_completes
<1>3. /\ e.bid = b /\ e.reward = reward /\ e.validator = pack_reward(b, reward)
      /\ e \in BestBids /\ e # NoBid /\ e.fees >= e.reward
  <2>1. pack_reward(b, reward) \in Int
    BY <1>2, RewardFacts
  <2>2. reward \in Nat /\ paid \in Runtimes /\ FeesOf(paid.txs) \in Nat /\ FeesOf(paid.txs) >= reward
    BY <1>1, MergeFacts
  <2> HIDE DEF reward, paid
  <2>3. e = [bid |-> b, reward |-> reward, validator |-> pack_reward(b, reward), fees |-> FeesOf(paid.txs), payload |-> paid]
    BY DEF Simulated, reward
  <2> HIDE DEF e
  <2>4. e \in BestBids
    BY <1>1, <2>1, <2>2, <2>3 DEF BestBids
  <2> QED
    BY <2>2, <2>3, <2>4, BidAssumption
<1>4. /\ e.validator >= expected_validator_reward(e.bid)
      /\ e.validator + Bid[e.bid].builder_fee = Share(e.reward)
  BY <1>2, <1>3, RewardFacts
<1>5. reward \in Nat
  BY <1>1, MergeFacts
<1>6. /\ best_bid' = (IF wins THEN [best_bid EXCEPT ![p] = e] ELSE best_bid)
      /\ best_bid_to_run' = (IF wins THEN best_bid_to_run ELSE [best_bid_to_run EXCEPT ![p] = NoBid])
      /\ earned' = [earned EXCEPT ![p] = @ \cup {reward}]
  BY DEF simulate_completes
<1> HIDE DEF p, paid, reward, e
<1>7. /\ best_bid_to_run' \in [Blocks -> RunBids \cup {NoBid}]
      /\ best_bid' \in [Blocks -> BestBids \cup {NoBid}]
      /\ earned' \in [Blocks -> SUBSET Nat]
  BY <1>1, <1>3, <1>5, <1>6 DEF BidInv
<1>8. \A q \in Blocks : best_bid'[q] = e \/ best_bid'[q] = best_bid[q]
  BY <1>1, <1>6 DEF BidInv
<1>9. RewardHonored'
  BY <1>4, <1>8 DEF RewardHonored, BidInv
<1>10. FeesCover'
  BY <1>3, <1>8 DEF FeesCover, BidInv
<1>11. BestBidIsBest'
  <2> SUFFICES ASSUME NEW q \in Blocks, NEW r \in earned'[q]
               PROVE  best_bid'[q] # NoBid /\ best_bid'[q].reward >= r
    BY DEF BestBidIsBest
  <2>1. CASE q # p
    BY <1>1, <1>6, <2>1 DEF BidInv, BestBidIsBest
  <2>2. CASE q = p
    <3>0. best_bid[p] \in BestBids \cup {NoBid} /\ earned'[p] = earned[p] \cup {reward} /\ earned[p] \subseteq Nat
      BY <1>1, <1>6 DEF BidInv
    <3>1. best_bid[p] # NoBid => best_bid[p].reward \in Nat
      BY <3>0 DEF BestBids
    <3>2. \A s \in earned[p] : best_bid[p] # NoBid /\ best_bid[p].reward >= s
      BY <1>1 DEF BidInv, BestBidIsBest
    <3>3. CASE wins
      <4>1. best_bid'[p] = e
        BY <1>1, <1>6, <3>3 DEF BidInv
      <4>2. best_bid[p] = NoBid \/ best_bid[p].reward < reward
        BY <3>3 DEF Beats
      <4> QED
        BY <1>3, <1>5, <2>2, <3>0, <3>1, <3>2, <4>1, <4>2
    <3>4. CASE ~wins
      <4>1. best_bid'[p] = best_bid[p] /\ best_bid[p] # NoBid /\ ~(best_bid[p].reward < reward)
        BY <1>6, <3>4 DEF Beats
      <4> QED
        BY <1>5, <2>2, <3>0, <3>1, <3>2, <4>1
    <3> QED
      BY <3>3, <3>4
  <2> QED
    BY <2>1, <2>2
<1> QED
  BY <1>7, <1>9, <1>10, <1>11

\* Every step of the miner keeps it.
LEMMA BidStepKeeps ==
  ASSUME BidInv, [Next]_vars
  PROVE  BidInv'
<1>1. CASE UNCHANGED bidVars
  BY <1>1 DEF BidInv, bidVars, RewardHonored, BestBidIsBest, FeesCover
<1>2. CASE \E x \in Builders : add_builder(x) \/ remove_builder(x)
  BY <1>2 DEF add_builder, remove_builder, BidInv, RewardHonored, BestBidIsBest, FeesCover
<1>3. ASSUME NEW b \in Bids, NEW turnKnown \in BOOLEAN, send_bid(b, turnKnown) PROVE BidInv'
  <2>1. b \in OkBids
    BY <1>3 DEF send_bid, WellFormed, OkBids
  <2>2. bid_queue' \in Seq(OkBids)
    BY <1>3, <2>1, AppendProperties DEF send_bid, BidInv
  <2> QED
    BY <1>3, <2>2 DEF send_bid, BidInv, RewardHonored, BestBidIsBest, FeesCover
<1>4. ASSUME NEW known \in BOOLEAN, NEW roomLeft \in BOOLEAN, commit_new_bid(known, roomLeft) PROVE BidInv'
  <2> DEFINE b == Head(bid_queue)
             p == Bid[b].parent
             r == ToRun(b)
  <2>1. b \in OkBids /\ bid_queue' \in Seq(OkBids)
    BY <1>4, HeadTailProperties DEF commit_new_bid, BidInv
  <2>2. p \in Blocks
    BY <2>1, BidFacts
  <2>3. UNCHANGED <<best_bid, earned>> /\ (refuse_bid(b, known) \/ run_bid(b, roomLeft))
    BY <1>4 DEF commit_new_bid
  <2> HIDE DEF b
  <2>4. CASE refuse_bid(b, known)
    BY <2>1, <2>3, <2>4 DEF refuse_bid, BidInv, RewardHonored, BestBidIsBest, FeesCover
  <2>5. CASE run_bid(b, roomLeft)
    <3>1. b \in RunBids
      BY <2>1, <2>5 DEF run_bid, RunBids
    <3>2. r \in RunBids
      <4>1. best_bid_to_run[p] \in RunBids \cup {NoBid}
        BY <2>2 DEF BidInv
      <4> QED
        BY <3>1, <4>1 DEF ToRun
    <3>3. /\ best_bid_to_run' = [best_bid_to_run EXCEPT ![p] = r]
          /\ requests' = Append(requests, r) \/ requests' = requests
      BY <2>5 DEF run_bid
    <3> HIDE DEF p, r
    <3>4. requests' \in Seq(RunBids)
      <4>1. requests \in Seq(RunBids)
        BY DEF BidInv
      <4>2. Append(requests, r) \in Seq(RunBids)
        BY <3>2, <4>1, AppendProperties
      <4> QED
        BY <3>3, <4>1, <4>2
    <3>5. best_bid_to_run' \in [Blocks -> RunBids \cup {NoBid}]
      BY <2>2, <3>2, <3>3 DEF BidInv
    <3> QED
      BY <2>1, <2>3, <3>4, <3>5 DEF BidInv, RewardHonored, BestBidIsBest, FeesCover
  <2> QED
    BY <2>3, <2>4, <2>5
<1>5. CASE bid_simulate
  <2> DEFINE b == Head(requests)
  <2>1. b \in RunBids /\ requests' \in Seq(RunBids) /\ bid_queue' = bid_queue
    BY <1>5, HeadTailProperties DEF bid_simulate, BidInv
  <2>2. simulate_fails(b) \/ \E merged \in MergeOutcomes[b] : simulate_completes(b, merged)
    BY <1>5 DEF bid_simulate
  <2> HIDE DEF b
  <2>3. CASE simulate_fails(b)
    BY <2>1, <2>3 DEF simulate_fails, BidInv, RewardHonored, BestBidIsBest, FeesCover
  <2>4. ASSUME NEW merged \in MergeOutcomes[b], simulate_completes(b, merged) PROVE BidInv'
    <3>1. /\ best_bid_to_run' \in [Blocks -> RunBids \cup {NoBid}]
          /\ best_bid' \in [Blocks -> BestBids \cup {NoBid}]
          /\ earned' \in [Blocks -> SUBSET Nat]
          /\ RewardHonored' /\ BestBidIsBest' /\ FeesCover'
      BY <2>1, <2>4, CompletionKeeps
    <3> QED
      BY <2>1, <3>1 DEF BidInv
  <2> QED
    BY <2>2, <2>3, <2>4
<1>6. CASE clear
  <2>1. UNCHANGED <<bid_queue, requests>>
    BY <1>6 DEF clear
  <2>2. /\ best_bid_to_run' \in [Blocks -> RunBids \cup {NoBid}]
        /\ best_bid' \in [Blocks -> BestBids \cup {NoBid}]
        /\ earned' \in [Blocks -> SUBSET Nat]
    BY <1>6 DEF clear, BidInv
  <2>3. \A p \in Blocks : \/ best_bid'[p] = NoBid /\ earned'[p] = {}
                          \/ best_bid'[p] = best_bid[p] /\ earned'[p] = earned[p]
    BY <1>6 DEF clear
  <2>4. RewardHonored' /\ BestBidIsBest' /\ FeesCover'
    BY <2>3 DEF BidInv, RewardHonored, BestBidIsBest, FeesCover
  <2> QED
    BY <2>1, <2>2, <2>4 DEF BidInv
<1> QED
  BY <1>1, <1>2, <1>3, <1>4, <1>5, <1>6
  DEF Next, vars, BidStep, MinerStep, NewTip, JobReturns, TakePayload, DelayOver

\* It holds before the first bid.
LEMMA BidStarts == Init => BidInv
<1> SUFFICES ASSUME BidInit PROVE BidInv
  BY DEF Init
<1>1. bid_queue \in Seq(OkBids) /\ requests \in Seq(RunBids)
  BY EmptySeq DEF BidInit
<1> QED
  BY <1>1 DEF BidInit, BidInv, RewardHonored, BestBidIsBest, FeesCover

\* Whatever the order in which bids arrive, are simulated, interrupted and forgotten:
\* the simulator's invariant always holds.
THEOREM BidInvariant == Spec => []BidInv
<1>1. Init => BidInv
  BY BidStarts
<1>2. BidInv /\ [Next]_vars => BidInv'
  BY BidStepKeeps
<1> QED
  BY <1>1, <1>2, PTL DEF Spec

\* bid_simulate: the best bid of a parent earns at least as much as every simulation
\* of a bid on that parent that ran to its end, for any set of bids and builders.
THEOREM BestBidKept == Spec => []BestBidIsBest
<1>1. BidInv => BestBidIsBest
  BY DEF BidInv
<1> QED
  BY <1>1, BidInvariant, PTL

\* valid_reward: the validator's part of the best bid is what the bid claimed for it
\* at least, and the wrapping subtraction of the builder's fee never wrapped.
THEOREM RewardKept == Spec => []RewardHonored
<1>1. BidInv => RewardHonored
  BY DEF BidInv
<1> QED
  BY <1>1, BidInvariant, PTL

----------------------------------------------------------------------------
(* The block of the best bid. *)

Ids(txs) == {txs[i].id : i \in DOMAIN txs}

\* Each transaction is the next one of its sender.
InOrder(txs) ==
  \A i \in 1..Len(txs) :
    txs[i].nonce = Cardinality({k \in 1..(i - 1) : txs[k].sender = txs[i].sender})

SidecarsOf(r) == {r.blob_sidecars[i].tx : i \in DOMAIN r.blob_sidecars}

\* What holds of every block being put together, whichever transactions it is offered.
Sound(r) ==
  /\ r \in Runtimes
  /\ InOrder(r.txs)
  /\ BlobsOf(r.txs) <= r.block_blob_count /\ BlobsOf(r.txs) <= MaxBlobCount
  /\ SidecarsOf(r) = Bid[r.bid].blob_sidecars \cap Ids(r.txs)

\* In such a block no transaction is there twice.
LEMMA NoneTwice ==
  ASSUME NEW txs \in Seq(KnownTxs), InOrder(txs)
  PROVE  Cardinality(Ids(txs)) = Len(txs)
<1> DEFINE n == Len(txs)
           Before(i) == {k \in 1..(i - 1) : txs[k].sender = txs[i].sender}
           id == [i \in 1..n |-> txs[i].id]
<1>1. n \in Nat /\ DOMAIN txs = 1..n /\ \A i \in 1..n : txs[i] \in KnownTxs
  BY LenProperties, ElementOfSeq
<1> HIDE DEF n
<1>2. ASSUME NEW i \in 1..n, NEW j \in 1..n, i < j PROVE txs[i].id # txs[j].id
  <2> SUFFICES ASSUME txs[i].id = txs[j].id PROVE FALSE
    OBVIOUS
  <2>1. txs[i].sender = txs[j].sender /\ txs[i].nonce = txs[j].nonce
    BY <1>1, TxAssumption
  <2>2. Cardinality(Before(i)) = Cardinality(Before(j))
    BY <1>1, <2>1 DEF InOrder, n
  <2>3. IsFiniteSet(1..(j - 1))
    BY <1>1, FS_Interval
  <2>4. Before(j) \subseteq 1..(j - 1) /\ Before(i) \cup {i} \subseteq Before(j) /\ i \notin Before(i)
    BY <1>1, <1>2, <2>1
  <2> HIDE DEF Before
  <2>5. IsFiniteSet(Before(j)) /\ IsFiniteSet(Before(i))
    BY <2>3, <2>4, FS_Subset
  <2>6. /\ Cardinality(Before(i) \cup {i}) = Cardinality(Before(i)) + 1
        /\ Cardinality(Before(i) \cup {i}) <= Cardinality(Before(j))
        /\ Cardinality(Before(i)) \in Nat
    BY <2>4, <2>5, FS_AddElement, FS_Subset, FS_CardinalityType
  <2> QED
    BY <2>2, <2>6
<1>3. id \in Bijection(1..n, Ids(txs))
  <2>1. Ids(txs) = {id[i] : i \in 1..n}
    BY <1>1 DEF Ids
  <2>2. \A i, j \in 1..n : id[i] = id[j] => i = j
    <3> SUFFICES ASSUME NEW i \in 1..n, NEW j \in 1..n, id[i] = id[j] PROVE i = j
      OBVIOUS
    <3>1. ~(i < j) /\ ~(j < i)
      BY <1>2
    <3> QED
      BY <1>1, <3>1
  <2>3. id \in [1..n -> Ids(txs)] /\ DOMAIN id = 1..n
    BY <2>1
  <2> HIDE DEF id
  <2> QED
    BY <2>1, <2>2, <2>3 DEF Bijection, Injection, Surjection, IsInjective
<1> HIDE DEF id
<1>4. IsFiniteSet(1..n) /\ Cardinality(1..n) = n
  BY <1>1, FS_Interval
<1>5. Cardinality(1..n) = Cardinality(Ids(txs))
  <2> DEFINE S == 1..n
             I == Ids(txs)
  <2>1. ExistsBijection(S, I) /\ IsFiniteSet(S)
    BY <1>3, <1>4 DEF ExistsBijection
  <2> HIDE DEF S, I
  <2>2. Cardinality(S) = Cardinality(I)
    BY <2>1, FS_Bijection
  <2> QED
    BY <2>2 DEF S, I
<1> QED
  BY <1>4, <1>5 DEF n

\* A transaction that the EVM takes is the next one of its sender.
LEMMA OrderAppend ==
  ASSUME NEW txs \in Seq(KnownTxs), NEW tx \in KnownTxs, InOrder(txs),
         tx.nonce = Cardinality({i \in DOMAIN txs : txs[i].sender = tx.sender})
  PROVE  InOrder(Append(txs, tx)) /\ Ids(Append(txs, tx)) = Ids(txs) \cup {tx.id}
<1> DEFINE n == Len(txs)
           more == Append(txs, tx)
<1>1. n \in Nat /\ DOMAIN txs = 1..n /\ more \in Seq(KnownTxs) /\ Len(more) = n + 1
  BY LenProperties, AppendProperties
<1>2. DOMAIN more = 1..(n + 1) /\ more[n + 1] = tx /\ \A i \in 1..n : more[i] = txs[i]
  BY <1>1, LenProperties, AppendProperties
<1> HIDE DEF n, more
<1>3. ASSUME NEW i \in 1..(n + 1)
      PROVE  more[i].nonce = Cardinality({k \in 1..(i - 1) : more[k].sender = more[i].sender})
  <2>1. CASE i = n + 1
    <3>1. {k \in 1..(i - 1) : more[k].sender = more[i].sender} = {k \in DOMAIN txs : txs[k].sender = tx.sender}
      BY <1>1, <1>2, <2>1
    <3> QED
      BY <1>2, <2>1, <3>1
  <2>2. CASE i # n + 1
    <3>1. i \in 1..n /\ \A k \in 1..(i - 1) : k \in 1..n
      BY <1>1, <2>2
    <3>2. {k \in 1..(i - 1) : more[k].sender = more[i].sender} = {k \in 1..(i - 1) : txs[k].sender = txs[i].sender}
      BY <1>2, <3>1
    <3>3. txs[i].nonce = Cardinality({k \in 1..(i - 1) : txs[k].sender = txs[i].sender})
      BY <3>1 DEF InOrder, n
    <3> QED
      BY <1>2, <3>1, <3>2, <3>3
  <2> QED
    BY <2>1, <2>2
<1>4. Ids(more) = Ids(txs) \cup {tx.id}
  <2>1. \A i \in 1..(n + 1) : i \in 1..n \/ i = n + 1
    BY <1>1
  <2>2. n + 1 \in 1..(n + 1) /\ \A i \in 1..n : i \in 1..(n + 1)
    BY <1>1
  <2> QED
    BY <1>1, <1>2, <2>1, <2>2 DEF Ids
<1> QED
  BY <1>1, <1>3, <1>4 DEF more, InOrder

\* What one transaction, or one turn, makes of a runtime: it leaves the block alone, which
\* is an error unless the transaction is from the pool, or it appends the transaction.
Offered(r, rt, tx, limit, from_pool) ==
  /\ Sound(r) /\ r.bid = rt.bid
  /\ \/ r.txs = rt.txs /\ (IF from_pool THEN r.err = rt.err ELSE r.err)
     \/ /\ r.txs = Append(rt.txs, tx) /\ r.err = rt.err
        /\ from_pool => GasOf(rt.txs) + tx.gas_limit <= limit
  /\ ~from_pool => r.over = rt.over

LEMMA OneSound ==
  ASSUME NEW rt, Sound(rt), NEW tx \in KnownTxs, NEW index \in Nat, NEW limit \in Int,
         NEW from_pool \in BOOLEAN
  PROVE  Offered(commit_one(rt, tx, index, limit, from_pool), rt, tx, limit, from_pool)
<1> DEFINE count == rt.block_blob_count + tx.blobs
           counted == [rt EXCEPT !.block_blob_count = @ + tx.blobs]
           side == WithSidecar(counted, tx, index)
           done == [side EXCEPT !.txs = Append(@, tx)]
           failed == [rt EXCEPT !.err = TRUE]
           countedFailed == [counted EXCEPT !.err = TRUE]
           sidecar == [tx |-> tx.id, tx_index |-> index]
           r == commit_one(rt, tx, index, limit, from_pool)
<1>1. /\ rt \in Runtimes /\ rt.txs \in Seq(KnownTxs) /\ rt.block_blob_count \in Nat
      /\ BlobsOf(rt.txs) \in Nat /\ GasOf(rt.txs) \in Nat /\ tx.blobs \in Nat /\ MaxBlobCount \in Nat
      /\ tx.gas_limit \in Nat
  <2>1. rt \in Runtimes /\ rt.txs \in Seq(KnownTxs) /\ rt.block_blob_count \in Nat
    BY DEF Sound, Runtimes
  <2>2. BlobsOf(rt.txs) \in Nat /\ GasOf(rt.txs) \in Nat /\ tx.blobs \in Nat /\ tx.gas_limit \in Nat
    BY <2>1, TxFacts, TotalsAppend
  <2>3. MaxBlobCount \in Nat
    BY TxAssumption
  <2> QED
    BY <2>1, <2>2, <2>3
<1>2. /\ counted \in Runtimes /\ counted.bid = rt.bid /\ counted.txs = rt.txs
      /\ counted.block_blob_count = count /\ counted.blob_sidecars = rt.blob_sidecars
      /\ counted.err = rt.err /\ counted.over = rt.over
  <2>1. count \in Nat
    BY <1>1
  <2>2. counted = [rt EXCEPT !.block_blob_count = count]
    BY <1>1 DEF Runtimes
  <2> HIDE DEF count, counted
  <2> QED
    BY <1>1, <2>1, <2>2 DEF Runtimes
<1>3. /\ failed \in Runtimes /\ failed.bid = rt.bid /\ failed.txs = rt.txs
      /\ failed.block_blob_count = rt.block_blob_count /\ failed.blob_sidecars = rt.blob_sidecars
      /\ failed.err = TRUE /\ failed.over = rt.over
  BY <1>1 DEF Runtimes
<1> HIDE DEF counted, failed
<1>4. /\ countedFailed \in Runtimes /\ countedFailed.bid = rt.bid /\ countedFailed.txs = rt.txs
      /\ countedFailed.block_blob_count = count /\ countedFailed.blob_sidecars = rt.blob_sidecars
      /\ countedFailed.err = TRUE /\ countedFailed.over = rt.over
  BY <1>2 DEF Runtimes
<1> HIDE DEF countedFailed
<1>5. /\ side \in Runtimes /\ side.bid = rt.bid /\ side.txs = rt.txs
      /\ side.block_blob_count = count /\ side.err = rt.err /\ side.over = rt.over
      /\ side.blob_sidecars = IF tx.id \in Bid[rt.bid].blob_sidecars
                              THEN Append(rt.blob_sidecars, sidecar) ELSE rt.blob_sidecars
  <2> DEFINE Sidecars == [tx : {t.id : t \in KnownTxs}, tx_index : Nat]
  <2>1. sidecar \in Sidecars
    OBVIOUS
  <2>2. counted.blob_sidecars \in Seq(Sidecars)
    BY <1>2 DEF Runtimes
  <2> HIDE DEF Sidecars, sidecar
  <2>3. Append(counted.blob_sidecars, sidecar) \in Seq(Sidecars)
    BY <2>1, <2>2, AppendProperties
  <2>4. side = IF tx.id \in Bid[rt.bid].blob_sidecars
               THEN [counted EXCEPT !.blob_sidecars = Append(counted.blob_sidecars, sidecar)] ELSE counted
    BY <1>2 DEF WithSidecar, sidecar
  <2> HIDE DEF side
  <2>5. CASE tx.id \in Bid[rt.bid].blob_sidecars
    BY <1>2, <2>3, <2>4, <2>5 DEF Runtimes, Sidecars
  <2>6. CASE tx.id \notin Bid[rt.bid].blob_sidecars
    BY <1>2, <2>4, <2>6
  <2> QED
    BY <2>5, <2>6
<1> HIDE DEF side
<1>6. /\ done \in Runtimes /\ done.bid = rt.bid /\ done.txs = Append(rt.txs, tx)
      /\ done.block_blob_count = count /\ done.err = rt.err /\ done.over = rt.over
      /\ done.blob_sidecars = side.blob_sidecars
  <2>1. Append(rt.txs, tx) \in Seq(KnownTxs)
    BY <1>1, AppendProperties
  <2> QED
    BY <1>5, <2>1 DEF Runtimes
<1> HIDE DEF done
<1>7. \A x : /\ x \in Runtimes /\ x.bid = rt.bid /\ x.txs = rt.txs /\ x.blob_sidecars = rt.blob_sidecars
             /\ x.block_blob_count \in {rt.block_blob_count, count}
             => Sound(x)
  BY <1>1 DEF Sound, SidecarsOf
<1>8. CASE /\ r = done /\ Executes(rt, tx)
           /\ ~(from_pool /\ GasOf(rt.txs) + tx.gas_limit > limit)
           /\ ~(tx.blobs > 0 /\ count > MaxBlobCount)
  <2>1. InOrder(done.txs) /\ Ids(done.txs) = Ids(rt.txs) \cup {tx.id}
    <3>1. tx.nonce = Cardinality({i \in DOMAIN rt.txs : rt.txs[i].sender = tx.sender})
      BY <1>8 DEF Executes
    <3> QED
      BY <1>1, <1>6, <3>1, OrderAppend DEF Sound
  <2>2. BlobsOf(done.txs) <= done.block_blob_count /\ BlobsOf(done.txs) <= MaxBlobCount
    <3>1. BlobsOf(done.txs) = BlobsOf(rt.txs) + tx.blobs
      BY <1>1, <1>6, TotalsAppend
    <3>2. BlobsOf(rt.txs) <= rt.block_blob_count /\ BlobsOf(rt.txs) <= MaxBlobCount
      BY DEF Sound
    <3> QED
      BY <1>1, <1>6, <1>8, <3>1, <3>2
  <2>3. SidecarsOf(done) = Bid[done.bid].blob_sidecars \cap Ids(done.txs)
    <3>1. SidecarsOf(rt) = Bid[rt.bid].blob_sidecars \cap Ids(rt.txs)
      BY DEF Sound
    <3>2. SidecarsOf(done) = IF tx.id \in Bid[rt.bid].blob_sidecars
                             THEN SidecarsOf(rt) \cup {tx.id} ELSE SidecarsOf(rt)
      <4>1. CASE tx.id \notin Bid[rt.bid].blob_sidecars
        BY <1>5, <1>6, <4>1 DEF SidecarsOf
      <4>2. CASE tx.id \in Bid[rt.bid].blob_sidecars
        <5> DEFINE s == rt.blob_sidecars
                   t == Append(s, sidecar)
                   Sidecars == [tx : {x.id : x \in KnownTxs}, tx_index : Nat]
        <5>1. done.blob_sidecars = t
          BY <1>5, <1>6, <4>2
        <5>2. s \in Seq(Sidecars) /\ sidecar \in Sidecars /\ sidecar.tx = tx.id
          BY <1>1 DEF Runtimes
        <5> HIDE DEF s, sidecar, Sidecars
        <5>3. /\ Len(s) \in Nat /\ DOMAIN s = 1..Len(s) /\ DOMAIN t = 1..(Len(s) + 1)
              /\ t[Len(s) + 1] = sidecar /\ \A i \in 1..Len(s) : t[i] = s[i]
          BY <5>2, AppendProperties, LenProperties
        <5> HIDE DEF t
        <5>4. /\ \A i \in 1..(Len(s) + 1) : i \in 1..Len(s) \/ i = Len(s) + 1
              /\ Len(s) + 1 \in 1..(Len(s) + 1) /\ \A i \in 1..Len(s) : i \in 1..(Len(s) + 1)
          BY <5>3
        <5>5. {t[i].tx : i \in DOMAIN t} = {s[i].tx : i \in DOMAIN s} \cup {tx.id}
          BY <5>2, <5>3, <5>4
        <5> QED
          BY <4>2, <5>1, <5>5 DEF SidecarsOf, s
      <4> QED
        BY <4>1, <4>2
    <3> QED
      BY <1>6, <2>1, <3>1, <3>2
  <2>4. Sound(done)
    BY <1>6, <2>1, <2>2, <2>3 DEF Sound
  <2>5. from_pool => GasOf(rt.txs) + tx.gas_limit <= limit
    BY <1>1, <1>8
  <2> QED
    BY <1>6, <1>8, <2>4, <2>5 DEF Offered
<1>9. CASE r \in {rt, counted} /\ from_pool
  BY <1>2, <1>7, <1>9 DEF Offered, Sound
<1>10. CASE r \in {failed, countedFailed} /\ ~from_pool
  BY <1>3, <1>4, <1>7, <1>10 DEF Offered, Sound
<1>11. \/ r = done /\ Executes(rt, tx) /\ ~(from_pool /\ GasOf(rt.txs) + tx.gas_limit > limit)
                   /\ ~(tx.blobs > 0 /\ count > MaxBlobCount)
       \/ r \in {rt, counted} /\ from_pool
       \/ r \in {failed, countedFailed} /\ ~from_pool
  <2>1. r = IF from_pool /\ GasOf(rt.txs) + tx.gas_limit > limit THEN rt
            ELSE IF tx.blobs > 0 /\ count > MaxBlobCount THEN LeaveOut(rt, from_pool)
            ELSE IF ~Executes(rt, tx) THEN LeaveOut(counted, from_pool)
            ELSE done
    BY <1>2 DEF commit_one, counted, side, done
  <2>2. /\ LeaveOut(rt, from_pool) = IF from_pool THEN rt ELSE failed
        /\ LeaveOut(counted, from_pool) = IF from_pool THEN counted ELSE countedFailed
    BY DEF LeaveOut, failed, countedFailed
  <2> HIDE DEF r
  <2> QED
    BY <2>1, <2>2
<1> QED
  BY <1>8, <1>9, <1>10, <1>11

\* The same for a turn.
LEMMA TurnSound ==
  ASSUME NEW rt, Sound(rt), NEW tx \in KnownTxs, NEW index \in Nat, NEW limit \in Int,
         NEW from_pool \in BOOLEAN
  PROVE  LET r == Turn(rt, tx, index, limit, from_pool)
         IN /\ Sound(r) /\ r.bid = rt.bid
            /\ from_pool => /\ r.err = rt.err
                            /\ \/ r.txs = rt.txs
                               \/ r.txs = Append(rt.txs, tx) /\ GasOf(rt.txs) + tx.gas_limit <= limit
            /\ ~from_pool /\ ~rt.over => /\ ~r.over
                                         /\ ~r.err => ~rt.err /\ r.txs = Append(rt.txs, tx)
<1> DEFINE one == commit_one(rt, tx, index, limit, from_pool)
           stopped == [rt EXCEPT !.over = TRUE]
           full == from_pool /\ limit - GasOf(rt.txs) \in 0 .. TX_GAS - 1
           r == Turn(rt, tx, index, limit, from_pool)
<1>1. r = IF rt.err \/ rt.over THEN rt ELSE IF full THEN stopped ELSE one
  BY DEF Turn
<1>2. Offered(one, rt, tx, limit, from_pool)
  BY OneSound
<1>3. /\ Sound(stopped) /\ stopped.bid = rt.bid /\ stopped.txs = rt.txs /\ stopped.err = rt.err
  <2>1. /\ rt \in Runtimes /\ stopped \in Runtimes /\ stopped.bid = rt.bid /\ stopped.txs = rt.txs
        /\ stopped.err = rt.err /\ stopped.block_blob_count = rt.block_blob_count
        /\ stopped.blob_sidecars = rt.blob_sidecars
    BY DEF Sound, Runtimes
  <2> HIDE DEF stopped
  <2> QED
    BY <2>1 DEF Sound, SidecarsOf
<1>4. full => from_pool
  OBVIOUS
<1> HIDE DEF one, stopped, full, r
<1>5. CASE r = rt /\ (rt.err \/ rt.over)
  BY <1>5 DEF r
<1>6. CASE r = stopped /\ full
  BY <1>3, <1>4, <1>6 DEF r
<1>7. CASE r = one /\ ~rt.err /\ ~rt.over
  <2>1. /\ Sound(r) /\ r.bid = rt.bid
        /\ from_pool => /\ r.err = rt.err
                        /\ \/ r.txs = rt.txs
                           \/ r.txs = Append(rt.txs, tx) /\ GasOf(rt.txs) + tx.gas_limit <= limit
        /\ ~from_pool => /\ ~r.over
                         /\ ~r.err => ~rt.err /\ r.txs = Append(rt.txs, tx)
    BY <1>2, <1>7 DEF Offered
  <2> QED
    BY <2>1 DEF r
<1> QED
  BY <1>1, <1>5, <1>6, <1>7

\* s is the beginning of t.
Begins(s, t) == Len(s) <= Len(t) /\ \A k \in 1..Len(s) : t[k] = s[k]

\* An empty block.
LEMMA NewSound ==
  ASSUME NEW b \in Bids
  PROVE  Sound(NewRuntime(b))
<1> DEFINE w == [i \in DOMAIN <<>> |-> <<>>[i].blobs]
<1>1. DOMAIN <<>> = 1..0 /\ 1..0 = {} /\ Len(<<>>) = 0
  BY EmptySeq
<1>2. BlobsOf(<<>>) = 0
  <2>1. BlobsOf(<<>>) = Sum(w)
    BY DEF BlobsOf
  <2>2. w \in [1..0 -> Nat]
    BY <1>1
  <2> HIDE DEF w
  <2>3. w \in Seq(Nat) /\ Len(w) = 0
    BY <2>2, SeqDef, LenProperties
  <2>4. \E s : s[0] = 0 /\ Sum(w) = s[Len(w)]
    BY <2>3, SumIs
  <2> QED
    BY <2>1, <2>3, <2>4
<1>3. InOrder(<<>>)
  BY <1>1 DEF InOrder
<1>4. Ids(<<>>) = {}
  BY <1>1 DEF Ids
<1>5. /\ NewRuntime(b) \in Runtimes /\ NewRuntime(b).txs = <<>> /\ NewRuntime(b).block_blob_count = 0
      /\ NewRuntime(b).blob_sidecars = <<>>
  <2>1. <<>> \in Seq(KnownTxs) /\ <<>> \in Seq([tx : {tx.id : tx \in KnownTxs}, tx_index : Nat])
    BY EmptySeq
  <2> QED
    BY <2>1 DEF NewRuntime, Runtimes
<1>6. SidecarsOf(NewRuntime(b)) = {}
  BY <1>1, <1>5 DEF SidecarsOf
<1>7. MaxBlobCount \in Nat
  BY TxAssumption
<1> QED
  BY <1>2, <1>3, <1>4, <1>5, <1>6, <1>7 DEF Sound

\* The bid's own transactions are all in the block, or the simulation has failed.
LEMMA OwnBlock ==
  ASSUME NEW b \in OkBids
  PROVE  LET r == BidCommitted(b)
         IN Sound(r) /\ r.bid = b /\ ~r.over /\ (~r.err => r.txs = Own(b))
<1> DEFINE own == Own(b)
           n == Len(own)
           rt == NewRuntime(b)
           T(i) == {r \in Runtimes : /\ Sound(r) /\ r.bid = b /\ ~r.over
                                     /\ ~r.err => Len(r.txs) = i /\ \A k \in 1..i : r.txs[k] = own[k]}
           Hold == [i \in 0..n |-> T(i)]
           limit == bid_gas_limit
<1>1. own \in Seq(KnownTxs) /\ b \in Bids
  BY BidFacts DEF OkBids
<1>2. limit \in Int
  BY TxAssumption DEF bid_gas_limit
<1> HIDE DEF own, limit
<1>3. n \in Nat /\ DOMAIN own = 1..n /\ \A i \in 1..n : own[i] \in KnownTxs /\ i \in Nat /\ i \in 0..n /\ i - 1 \in 0..n
  BY <1>1, LenProperties, ElementOfSeq
<1>4. BidCommitted(b) = commit_transaction_recovered(rt, own, limit, FALSE)
  BY DEF BidCommitted, commit_transaction, own, limit
<1>5. rt \in T(0)
  <2>1. Sound(rt)
    BY <1>1, NewSound
  <2>2. rt.bid = b /\ rt.over = FALSE /\ Len(rt.txs) = 0
    BY EmptySeq DEF NewRuntime
  <2> HIDE DEF rt
  <2> QED
    BY <2>1, <2>2 DEF Sound
<1>6. ASSUME NEW i \in 1..n, NEW r \in T(i - 1) PROVE Turn(r, own[i], i, limit, FALSE) \in T(i)
  <2> DEFINE q == Turn(r, own[i], i, limit, FALSE)
  <2>1. /\ Sound(r) /\ r.bid = b /\ ~r.over
        /\ ~r.err => Len(r.txs) = i - 1 /\ \A k \in 1..(i - 1) : r.txs[k] = own[k]
    BY <1>6
  <2>2. own[i] \in KnownTxs /\ i \in Nat
    BY <1>3
  <2>3. Sound(q) /\ q.bid = r.bid /\ ~q.over /\ (~q.err => ~r.err /\ q.txs = Append(r.txs, own[i]))
    BY <1>2, <2>1, <2>2, TurnSound
  <2> HIDE DEF q
  <2>4. ASSUME ~q.err PROVE Len(q.txs) = i /\ \A k \in 1..i : q.txs[k] = own[k]
    <3> DEFINE s == r.txs
               x == own[i]
    <3>1. s \in Seq(KnownTxs) /\ x \in KnownTxs
      BY <2>1, <2>2 DEF Sound, Runtimes
    <3>2. Len(s) = i - 1 /\ (\A k \in 1..(i - 1) : s[k] = own[k]) /\ q.txs = Append(s, x)
      BY <2>1, <2>3, <2>4
    <3> HIDE DEF s, x
    <3>3. /\ Len(Append(s, x)) = Len(s) + 1 /\ Append(s, x)[Len(s) + 1] = x
          /\ \A k \in 1..Len(s) : Append(s, x)[k] = s[k]
      BY <3>1, AppendProperties
    <3>4. Len(q.txs) = i /\ q.txs[i] = x /\ \A k \in 1..(i - 1) : q.txs[k] = own[k]
      BY <2>2, <3>2, <3>3
    <3> QED
      BY <2>2, <3>4 DEF x
  <2>5. q \in Runtimes /\ q.bid = b
    BY <2>1, <2>3 DEF Sound
  <2> QED
    BY <2>3, <2>4, <2>5 DEF q
<1>7. \A i \in 0..n : Hold[i] = T(i)
  OBVIOUS
<1>8. \A r \in T(n) : Sound(r) /\ r.bid = b /\ ~r.over /\ (~r.err => Len(r.txs) = n /\ \A k \in 1..n : r.txs[k] = own[k])
  OBVIOUS
<1> HIDE DEF T, Hold, n
<1>9. rt \in Runtimes /\ rt \in Hold[0] /\ 0 \in 0..n /\ n \in 0..n
  BY <1>1, <1>3, <1>5, <1>7, NewSound DEF Sound
<1>10. \A i \in 1..n : \A r \in Runtimes : r \in Hold[i - 1] => Turn(r, own[i], i, limit, FALSE) \in Hold[i]
  BY <1>3, <1>6, <1>7
<1>11. BidCommitted(b) \in Hold[n]
  <2> HIDE DEF rt
  <2> QED
    BY <1>1, <1>4, <1>9, <1>10, CommitLoop DEF n
<1> DEFINE r == BidCommitted(b)
<1> HIDE DEF r
<1>12. Sound(r) /\ r.bid = b /\ ~r.over /\ (~r.err => Len(r.txs) = n /\ \A k \in 1..n : r.txs[k] = own[k])
  BY <1>7, <1>8, <1>9, <1>11 DEF r
<1>13. ASSUME ~r.err PROVE r.txs = own
  <2>1. r.txs \in Seq(KnownTxs)
    BY <1>12 DEF Sound, Runtimes
  <2>2. DOMAIN r.txs = 1..n /\ r.txs = [k \in 1..n |-> r.txs[k]] /\ own = [k \in 1..n |-> own[k]]
    BY <1>1, <1>3, <1>12, <1>13, <2>1, LenProperties
  <2> QED
    BY <1>12, <1>13, <2>2
<1> QED
  BY <1>12, <1>13 DEF r, own

\* Merging from the pool only adds transactions, within the limit.
LEMMA PoolBlock ==
  ASSUME NEW rt, Sound(rt), NEW txs \in Seq(KnownTxs), NEW limit \in Int
  PROVE  LET r == commit_transaction_recovered(rt, txs, limit, TRUE)
         IN /\ Sound(r) /\ r.bid = rt.bid /\ r.err = rt.err /\ Begins(rt.txs, r.txs)
            /\ GasOf(rt.txs) <= limit => GasOf(r.txs) <= limit
<1> DEFINE n == Len(txs)
           Good(r) == /\ Sound(r) /\ r.bid = rt.bid /\ r.err = rt.err /\ Begins(rt.txs, r.txs)
                      /\ GasOf(rt.txs) <= limit => GasOf(r.txs) <= limit
           T == {r \in Runtimes : Good(r)}
           Hold == [i \in 0..n |-> T]
<1>1. n \in Nat /\ \A i \in 1..n : txs[i] \in KnownTxs /\ i \in Nat /\ i \in 0..n /\ i - 1 \in 0..n
  BY LenProperties, ElementOfSeq
<1>2. rt \in Runtimes /\ rt.txs \in Seq(KnownTxs) /\ Len(rt.txs) \in Nat
  <2>1. rt \in Runtimes /\ rt.txs \in Seq(KnownTxs)
    BY DEF Sound, Runtimes
  <2> QED
    BY <2>1, LenProperties
<1>3. rt \in T
  BY <1>2 DEF Begins
<1>4. ASSUME NEW i \in 1..n, NEW r \in T PROVE Turn(r, txs[i], i, limit, TRUE) \in T
  <2> DEFINE q == Turn(r, txs[i], i, limit, TRUE)
             x == txs[i]
  <2>1. Good(r)
    BY <1>4
  <2>2. x \in KnownTxs /\ i \in Nat
    BY <1>1
  <2>3. /\ Sound(q) /\ q.bid = r.bid /\ q.err = r.err
        /\ \/ q.txs = r.txs
           \/ q.txs = Append(r.txs, x) /\ GasOf(r.txs) + x.gas_limit <= limit
    BY <2>1, <2>2, TurnSound
  <2> HIDE DEF q, x
  <2>4. r.txs \in Seq(KnownTxs) /\ q \in Runtimes
    BY <2>1, <2>3 DEF Sound, Runtimes
  <2>5. CASE q.txs = r.txs
    BY <2>1, <2>3, <2>4, <2>5 DEF q
  <2>6. CASE q.txs = Append(r.txs, x) /\ GasOf(r.txs) + x.gas_limit <= limit
    <3> DEFINE s == r.txs
               t == q.txs
    <3>1. s \in Seq(KnownTxs) /\ t = Append(s, x) /\ Begins(rt.txs, s)
      BY <2>1, <2>4, <2>6
    <3> HIDE DEF s, t
    <3>2. Len(s) \in Nat /\ Len(t) = Len(s) + 1 /\ \A k \in 1..Len(s) : t[k] = s[k]
      BY <2>2, <3>1, AppendProperties, LenProperties
    <3>3. Begins(rt.txs, t)
      BY <1>2, <3>1, <3>2 DEF Begins
    <3>4. GasOf(s) \in Nat /\ GasOf(t) = GasOf(s) + x.gas /\ x.gas \in Nat /\ x.gas_limit \in Nat /\ x.gas <= x.gas_limit
      BY <2>2, <3>1, TotalsAppend, TxFacts
    <3>5. GasOf(t) <= limit
      BY <2>6, <3>4 DEF s
    <3> QED
      BY <2>1, <2>3, <2>4, <3>3, <3>5 DEF t, q
  <2> QED
    BY <2>3, <2>5, <2>6
<1>5. \A i \in 0..n : Hold[i] = T
  OBVIOUS
<1>6. \A r \in T : Good(r)
  OBVIOUS
<1> HIDE DEF T, Hold, Good
<1>7. rt \in Hold[0] /\ n \in 0..n
  BY <1>1, <1>3, <1>5
<1>8. \A i \in 1..n : \A r \in Runtimes : r \in Hold[i - 1] => Turn(r, txs[i], i, limit, TRUE) \in Hold[i]
  BY <1>1, <1>4, <1>5
<1>9. commit_transaction_recovered(rt, txs, limit, TRUE) \in Hold[n]
  BY <1>2, <1>7, <1>8, CommitLoop
<1>10. Good(commit_transaction_recovered(rt, txs, limit, TRUE))
  BY <1>5, <1>6, <1>7, <1>9
<1> QED
  BY <1>10 DEF Good

\* The paying transaction comes last, or the simulation has failed.
LEMMA PayBlock ==
  ASSUME NEW rt, Sound(rt), ~rt.over, NEW tx \in KnownTxs, NEW limit \in Int
  PROVE  LET r == commit_transaction_recovered(rt, <<tx>>, limit, FALSE)
         IN Sound(r) /\ r.bid = rt.bid /\ (~r.err => ~rt.err /\ r.txs = Append(rt.txs, tx))
<1> DEFINE txs == <<tx>>
           Good(r) == Sound(r) /\ r.bid = rt.bid /\ (~r.err => ~rt.err /\ r.txs = Append(rt.txs, tx))
           T == {r \in Runtimes : Good(r)}
           Hold == [i \in 0..1 |-> IF i = 0 THEN {rt} ELSE T]
<1>1. txs \in Seq(KnownTxs) /\ Len(txs) = 1 /\ txs[1] = tx
  OBVIOUS
<1>2. rt \in Runtimes
  BY DEF Sound
<1>3. Turn(rt, tx, 1, limit, FALSE) \in T
  <2> DEFINE q == Turn(rt, tx, 1, limit, FALSE)
  <2>1. Sound(q) /\ q.bid = rt.bid /\ (~q.err => ~rt.err /\ q.txs = Append(rt.txs, tx))
    BY TurnSound
  <2> HIDE DEF q
  <2> QED
    BY <2>1 DEF Sound, q
<1>4. Hold[0] = {rt} /\ Hold[1] = T
  OBVIOUS
<1>5. \A r \in T : Good(r)
  OBVIOUS
<1> HIDE DEF T, Hold, Good, txs
<1>6. \A i \in 1..Len(txs) : \A r \in Runtimes : r \in Hold[i - 1] => Turn(r, txs[i], i, limit, FALSE) \in Hold[i]
  <2> SUFFICES ASSUME NEW i \in 1..Len(txs), NEW r \in Runtimes, r \in Hold[i - 1]
               PROVE  Turn(r, txs[i], i, limit, FALSE) \in Hold[i]
    OBVIOUS
  <2>1. i = 1 /\ i - 1 = 0
    BY <1>1
  <2>2. r = rt
    BY <1>4, <2>1
  <2> QED
    BY <1>1, <1>3, <1>4, <2>1, <2>2
<1>7. rt \in Hold[0]
  BY <1>4
<1>8. commit_transaction_recovered(rt, txs, limit, FALSE) \in Hold[Len(txs)]
  BY <1>1, <1>2, <1>6, <1>7, CommitLoop
<1>9. Good(commit_transaction_recovered(rt, txs, limit, FALSE))
  BY <1>1, <1>4, <1>5, <1>8
<1> QED
  BY <1>9 DEF Good, txs

\* Setting the loop free again changes nothing else.
LEMMA ResetSound ==
  ASSUME NEW r, Sound(r)
  PROVE  Sound(Reset(r)) /\ Reset(r).bid = r.bid /\ Reset(r).txs = r.txs /\ Reset(r).err = r.err /\ ~Reset(r).over
<1>1. /\ r \in Runtimes /\ Reset(r) \in Runtimes /\ Reset(r).bid = r.bid /\ Reset(r).txs = r.txs
      /\ Reset(r).err = r.err /\ Reset(r).over = FALSE
      /\ Reset(r).block_blob_count = r.block_blob_count /\ Reset(r).blob_sidecars = r.blob_sidecars
  BY DEF Sound, Runtimes, Reset
<1> QED
  BY <1>1 DEF Sound, SidecarsOf

\* The block of a bid after the merge.
LEMMA MergedBlock ==
  ASSUME NEW b \in OkBids, NEW merged \in MergeOutcomes[b]
  PROVE  /\ Sound(merged) /\ merged.bid = b
         /\ ~merged.err => /\ Begins(Own(b), merged.txs)
                           /\ GasOf(Own(b)) <= bid_gas_limit => GasOf(merged.txs) <= bid_gas_limit
<1> DEFINE own == BidCommitted(b)
           limit == bid_gas_limit
           From(txs) == commit_transaction_recovered(own, txs, limit, TRUE)
<1>1. Sound(own) /\ own.bid = b /\ ~own.over /\ (~own.err => own.txs = Own(b))
  BY OwnBlock
<1>2. limit \in Int
  BY TxAssumption DEF bid_gas_limit
<1>3. own \in Runtimes /\ Len(Own(b)) \in Nat
  BY <1>1, BidFacts, LenProperties DEF Sound
<1>4. MergeOutcomes[b] = {own} \cup {Merged(b, order, cut) : order \in SenderOrders, cut \in MergeCuts}
  BY DEF MergeOutcomes, OkBids
<1> HIDE DEF own, limit
<1>5. CASE merged = own
  BY <1>1, <1>3, <1>5 DEF Begins, limit
<1>6. ASSUME NEW order \in SenderOrders, NEW cut \in MergeCuts, merged = Merged(b, order, cut)
      PROVE  \E txs \in Seq(KnownTxs) : merged = Reset(From(txs))
  <2>1. cut \in Nat
    BY BidAssumption
  <2>2. merged = fill_tx_from_pool(own, order, limit, cut)
    BY <1>6 DEF Merged, own, limit
  <2> QED
    BY <1>3, <2>1, <2>2, FillIs
<1>7. ASSUME NEW txs \in Seq(KnownTxs), merged = Reset(From(txs))
      PROVE  /\ Sound(merged) /\ merged.bid = b
             /\ ~merged.err => /\ Begins(Own(b), merged.txs)
                               /\ GasOf(Own(b)) <= limit => GasOf(merged.txs) <= limit
  <2> DEFINE r == From(txs)
  <2>1. /\ Sound(r) /\ r.bid = own.bid /\ r.err = own.err /\ Begins(own.txs, r.txs)
        /\ GasOf(own.txs) <= limit => GasOf(r.txs) <= limit
    BY <1>1, <1>2, PoolBlock
  <2> HIDE DEF r
  <2>2. Sound(merged) /\ merged.bid = r.bid /\ merged.txs = r.txs /\ merged.err = r.err
    BY <1>7, <2>1, ResetSound DEF r
  <2> QED
    BY <1>1, <2>1, <2>2
<1> HIDE DEF From
<1> QED
  BY <1>4, <1>5, <1>6, <1>7 DEF limit

\* BidBlockSound of one best bid.
SoundBlock(e) ==
  LET txs == e.payload.txs
      own == Own(e.bid)
      ids == {txs[i].id : i \in DOMAIN txs}
  IN /\ SubSeq(txs, 1, Len(own)) = own /\ Last(txs) = PayBid(e.bid)
     /\ Cardinality(ids) = Len(txs)
     /\ \A i \in DOMAIN txs : txs[i].reverts => txs[i].id \notin Bid[e.bid].un_revertible
     /\ BlobsOf(txs) <= MaxBlobCount
     /\ {e.payload.blob_sidecars[i].tx : i \in DOMAIN e.payload.blob_sidecars}
          = Bid[e.bid].blob_sidecars \cap ids
     /\ HonestGas(e.bid) => GasOf(txs) <= BlockGasLimit - SystemTxsGas

\* The block of a simulation that ran to its end.
LEMMA BlockFacts ==
  ASSUME NEW b \in OkBids, NEW merged \in MergeOutcomes[b], NEW e,
         e.bid = b, e.payload = BidPaid(merged),
         ~BidPaid(merged).err, UnRevertibleKept(BidPaid(merged)), Bid[b].gas_used <= bid_gas_limit
  PROVE  SoundBlock(e)
<1> DEFINE own == Own(b)
           pay == PayBid(b)
           paid == BidPaid(merged)
           rt == Reset(merged)
           s == merged.txs
           t == paid.txs
           limit == bid_gas_limit + PAY_BID_TX_GAS_LIMIT
<1>1. /\ Sound(merged) /\ merged.bid = b
      /\ ~merged.err => /\ Begins(own, s)
                        /\ GasOf(own) <= bid_gas_limit => GasOf(s) <= bid_gas_limit
  BY MergedBlock
<1>2. /\ own \in Seq(KnownTxs) /\ pay \in KnownTxs /\ Bid[b].gas_used \in Nat
  BY BidFacts
<1>3. /\ limit \in Int /\ bid_gas_limit \in Int /\ BlockGasLimit \in Nat /\ SystemTxsGas \in Nat
      /\ PAY_BID_TX_GAS_LIMIT \in Nat /\ MaxBlobCount \in Nat
      /\ bid_gas_limit = BlockGasLimit - SystemTxsGas - PAY_BID_TX_GAS_LIMIT
  BY TxAssumption DEF bid_gas_limit
<1>4. paid = commit_transaction_recovered(rt, <<pay>>, limit, FALSE)
  BY <1>1 DEF BidPaid, commit_transaction, Reset
<1>5. Sound(rt) /\ rt.bid = b /\ rt.txs = s /\ rt.err = merged.err /\ ~rt.over
  BY <1>1, ResetSound
<1> HIDE DEF rt, limit, own, pay
<1>6. Sound(paid) /\ paid.bid = b /\ (~paid.err => ~rt.err /\ paid.txs = Append(rt.txs, pay))
  <2> DEFINE r == commit_transaction_recovered(rt, <<pay>>, limit, FALSE)
  <2>1. Sound(r) /\ r.bid = rt.bid /\ (~r.err => ~rt.err /\ r.txs = Append(rt.txs, pay))
    BY <1>2, <1>3, <1>5, PayBlock
  <2>2. paid = r
    BY <1>4
  <2> HIDE DEF r, paid
  <2> QED
    BY <1>5, <2>1, <2>2
<1>7. Sound(paid) /\ t = Append(s, pay) /\ ~merged.err
  BY <1>5, <1>6
<1>8. s \in Seq(KnownTxs) /\ t \in Seq(KnownTxs)
  BY <1>1, <1>7 DEF Sound, Runtimes
<1> HIDE DEF s, t, paid
<1>9. /\ Len(s) \in Nat /\ Len(t) = Len(s) + 1 /\ t[Len(t)] = pay /\ \A k \in 1..Len(s) : t[k] = s[k]
  BY <1>2, <1>7, <1>8, AppendProperties, LenProperties
<1>10. SubSeq(t, 1, Len(own)) = own /\ Last(t) = pay
  <2>1. Len(own) \in Nat /\ own = [k \in 1..Len(own) |-> own[k]] /\ \A k \in 1..Len(own) : own[k] \in KnownTxs
    BY <1>2, LenProperties, ElementOfSeq
  <2>2. \A k \in 1..Len(own) : t[k] = own[k] /\ t[k] \in KnownTxs
    BY <1>1, <1>7, <1>9, <2>1 DEF Begins
  <2>3. /\ SubSeq(t, 1, Len(own)) \in Seq(KnownTxs) /\ Len(SubSeq(t, 1, Len(own))) = Len(own)
        /\ \A k \in 1..Len(own) : SubSeq(t, 1, Len(own))[k] = t[k]
    BY <2>1, <2>2, SubSeqIs
  <2> DEFINE z == SubSeq(t, 1, Len(own))
  <2> HIDE DEF z
  <2>4. z = [k \in 1..Len(own) |-> z[k]] /\ \A k \in 1..Len(own) : z[k] = own[k]
    BY <2>2, <2>3, LenProperties DEF z
  <2>5. z = own
    BY <2>1, <2>4
  <2> QED
    BY <1>9, <2>5 DEF z, Last
<1>11. Cardinality(Ids(t)) = Len(t)
  <2>1. InOrder(t)
    BY <1>7 DEF Sound, t
  <2> QED
    BY <1>8, <2>1, NoneTwice
<1>12. /\ BlobsOf(t) <= MaxBlobCount /\ SidecarsOf(paid) = Bid[b].blob_sidecars \cap Ids(t)
       /\ \A i \in DOMAIN t : t[i].reverts => t[i].id \notin Bid[b].un_revertible
  BY <1>6, <1>7 DEF Sound, UnRevertibleKept, t, paid
<1>13. ASSUME HonestGas(b) PROVE GasOf(t) <= BlockGasLimit - SystemTxsGas
  <2>1. GasOf(own) <= Bid[b].gas_used /\ pay.gas <= PAY_BID_TX_GAS_LIMIT
    BY <1>13 DEF HonestGas, own, pay
  <2>2. /\ GasOf(own) \in Nat /\ GasOf(s) \in Nat /\ GasOf(t) = GasOf(s) + pay.gas /\ pay.gas \in Nat
    BY <1>2, <1>7, <1>8, TotalsAppend, TxFacts
  <2>3. GasOf(own) <= bid_gas_limit
    BY <1>2, <1>3, <2>1, <2>2
  <2>4. GasOf(s) <= bid_gas_limit
    BY <1>1, <1>7, <2>3 DEF s
  <2> QED
    BY <1>3, <2>1, <2>2, <2>4
<1> QED
  BY <1>10, <1>11, <1>12, <1>13 DEF SoundBlock, Ids, SidecarsOf, paid, t, own, pay

\* The best bids of a step are old ones, or that of a simulation that has just ended.
LEMMA BlockStep ==
  ASSUME BidInv, BidBlockSound, [Next]_vars
  PROVE  BidBlockSound'
<1>1. \A p \in Blocks : best_bid[p] # NoBid => SoundBlock(best_bid[p])
  BY DEF BidBlockSound, SoundBlock
<1> SUFFICES \A p \in Blocks : best_bid'[p] # NoBid => SoundBlock(best_bid'[p])
  BY DEF BidBlockSound, SoundBlock
<1>2. CASE \A p \in Blocks : best_bid'[p] = best_bid[p] \/ best_bid'[p] = NoBid
  BY <1>1, <1>2
<1>3. CASE bid_simulate
  <2> DEFINE b == Head(requests)
  <2>1. b \in RunBids /\ b \in OkBids
    BY <1>3, HeadTailProperties DEF bid_simulate, BidInv, RunBids
  <2>2. simulate_fails(b) \/ \E merged \in MergeOutcomes[b] : simulate_completes(b, merged)
    BY <1>3 DEF bid_simulate
  <2> HIDE DEF b
  <2>3. CASE simulate_fails(b)
    BY <1>1, <2>3 DEF simulate_fails
  <2>4. ASSUME NEW merged \in MergeOutcomes[b], simulate_completes(b, merged)
        PROVE  \A p \in Blocks : best_bid'[p] # NoBid => SoundBlock(best_bid'[p])
    <3> DEFINE q == Bid[b].parent
               paid == BidPaid(merged)
               e == Simulated(b, merged, paid)
    <3>1. ~paid.err /\ UnRevertibleKept(paid) /\ Bid[b].gas_used <= bid_gas_limit
      BY <2>4 DEF simulate_completes
    <3>2. best_bid' = [best_bid EXCEPT ![q] = e] \/ best_bid' = best_bid
      BY <2>4 DEF simulate_completes
    <3>3. e.bid = b /\ e.payload = paid
      <4> HIDE DEF paid
      <4> QED
        BY DEF Simulated
    <3> HIDE DEF e, q
    <3>4. SoundBlock(e)
      BY <2>1, <3>1, <3>3, BlockFacts
    <3> HIDE DEF paid
    <3>5. \A p \in Blocks : best_bid'[p] = best_bid[p] \/ best_bid'[p] = e
      BY <3>2 DEF BidInv
    <3> QED
      BY <1>1, <3>4, <3>5
  <2> QED
    BY <2>2, <2>3, <2>4
<1>4. CASE clear
  <2>1. \A p \in Blocks : best_bid'[p] = NoBid \/ best_bid'[p] = best_bid[p]
    BY <1>4 DEF clear
  <2> QED
    BY <1>2, <2>1
<1>5. CASE best_bid' = best_bid
  BY <1>1, <1>5
<1>6. CASE UNCHANGED bidVars
  BY <1>5, <1>6 DEF bidVars
<1>7. CASE \E x \in Builders : add_builder(x) \/ remove_builder(x)
  BY <1>5, <1>7 DEF add_builder, remove_builder
<1>8. CASE \E b \in Bids, turnKnown \in BOOLEAN : send_bid(b, turnKnown)
  BY <1>5, <1>8 DEF send_bid
<1>9. CASE \E known, roomLeft \in BOOLEAN : commit_new_bid(known, roomLeft)
  BY <1>5, <1>9 DEF commit_new_bid
<1> QED
  BY <1>3, <1>4, <1>6, <1>7, <1>8, <1>9
  DEF Next, vars, BidStep, MinerStep, NewTip, JobReturns, TakePayload, DelayOver

\* commit_transaction_recovered, fill_tx_from_pool: whatever bids and pools there are, the
\* block of the best bid is the bid's own transactions in their order, some of the pool and
\* the paying one; none is there twice or has reverted against the bid's wish, and gas,
\* blobs and sidecars are as they should be.
THEOREM BestBlockSound == Spec => []BidBlockSound
<1>1. Init => BidBlockSound
  BY DEF Init, BidInit, BidBlockSound
<1>2. BidInv /\ BidBlockSound /\ [Next]_vars => BidBlockSound'
  BY BlockStep
<1> QED
  BY <1>1, <1>2, BidInvariant, PTL DEF Spec

----------------------------------------------------------------------------
(* The payload jobs. *)

JobRecords ==
  [parent : Blocks, phase : {"queued", "building", "waiting"}, built : SUBSET Nat, builds : Nat,
   abort : BOOLEAN, outcome : Outcomes]

\* The tip, and what is known of every block on its way to a job and of every job:
\* none is on a parent above the highest tip.
JobInv ==
  /\ tip \in Blocks /\ high \in Nat /\ Number[tip] <= high /\ Number[tip] + ReorgDepth >= high
  /\ events \in Seq([tip : Blocks, reorg : BOOLEAN])
  /\ \A i \in 1..Len(events) : Number[events[i].tip] <= high
  /\ mining_queue \in Seq(Blocks)
  /\ \A i \in 1..Len(mining_queue) : Number[mining_queue[i]] <= high
  /\ jobs \in Seq(JobRecords)
  /\ \A j \in 1..Len(jobs) : Number[jobs[j].parent] <= high /\ IsFiniteSet(jobs[j].built)
  /\ OneLiveJob

Payloads == [job : Nat, fees : Nat]

Sent(p) == p.job \in 1..Len(jobs) /\ jobs[p.job].outcome = "sent"

\* A job that has sent its payload has it in one place only, the channel or a delay task.
PayloadInv ==
  /\ payloads \in Seq(Payloads) /\ delayed \subseteq Payloads
  /\ \A i \in 1..Len(payloads) : Sent(payloads[i])
  /\ \A p \in delayed : Sent(p)
  /\ \A i, k \in 1..Len(payloads) : payloads[i].job = payloads[k].job => i = k
  /\ \A p, q \in delayed : p.job = q.job => p = q
  /\ \A i \in 1..Len(payloads), p \in delayed : payloads[i].job # p.job

Entries == [number : Nat, parents : SUBSET Blocks]

\* The heights in a cache such as the guard's: each once, none above the next block's, and
\* none more than ReorgDepth below one that was used less recently.
Heights(s) ==
  /\ s \in Seq(Entries)
  /\ \A i, k \in 1..Len(s) : s[i].number = s[k].number => i = k
  /\ \A i \in 1..Len(s) : s[i].number <= high + 1
  /\ \A i, k \in 1..Len(s) : i < k => s[k].number + ReorgDepth >= s[i].number

SignedIn(s, n, parent) == \E i \in 1..Len(s) : s[i].number = n /\ parent \in s[i].parents

\* Some job's block on that parent has passed the guard.
Passed(parent) ==
  \E k \in 1..Len(jobs) : jobs[k].parent = parent /\ jobs[k].outcome \in {"submitted", "lost"}

\* What the guard remembers was signed, and what was submitted is remembered for as long
\* as a tip can be below it.
GuardInv ==
  /\ Heights(recent) /\ Len(recent) <= CacheSize
  /\ \A i \in 1..Len(recent) : \A parent \in recent[i].parents :
       Number[parent] + 1 = recent[i].number /\ Passed(parent)
  /\ submitted \subseteq 1..Len(jobs)
  /\ \A j \in submitted : /\ jobs[j].outcome = "submitted"
                          /\ \/ SignedIn(recent, Number[jobs[j].parent] + 1, jobs[j].parent)
                             \/ Number[jobs[j].parent] + 1 + ReorgDepth <= high
  /\ \A j, k \in submitted : jobs[j].parent = jobs[k].parent => j = k
  /\ \A j \in 1..Len(jobs) : jobs[j].outcome = "double_sign" => Passed(jobs[j].parent)

\* Job j goes on as m, on the same parent, and only when it has not come to its end.
Advances(j, m) ==
  /\ j \in 1..Len(jobs) /\ jobs' = [jobs EXCEPT ![j] = m]
  /\ m \in JobRecords /\ IsFiniteSet(m.built)
  /\ m.parent = jobs[j].parent /\ m.abort = jobs[j].abort
  /\ jobs[j].outcome \in {"running", "sent"}
  /\ m.outcome = "running" => jobs[j].outcome = "running"

\* Jobs only go forward: they keep their parents and their final outcomes.
JobsKept ==
  /\ Len(jobs') >= Len(jobs) /\ high' >= high
  /\ \A j \in 1..Len(jobs) :
       /\ jobs'[j].parent = jobs[j].parent
       /\ jobs[j].outcome \notin {"running", "sent"} => jobs'[j].outcome = jobs[j].outcome

\* One job going on keeps what is known of the jobs.
LEMMA AdvanceFacts ==
  ASSUME JobInv, NEW j, NEW m, Advances(j, m), UNCHANGED <<tip, high, events>>,
         mining_queue' = mining_queue
  PROVE  /\ JobInv' /\ JobsKept /\ Len(jobs') = Len(jobs) /\ Len(jobs) \in Nat
         /\ jobs'[j] = m /\ \A k \in 1..Len(jobs) : k # j => jobs'[k] = jobs[k]
<1>1. Len(jobs) \in Nat /\ DOMAIN jobs = 1..Len(jobs) /\ \A k \in 1..Len(jobs) : jobs[k] \in JobRecords
  BY LenProperties, ElementOfSeq DEF JobInv
<1>2. jobs' \in Seq(JobRecords) /\ Len(jobs') = Len(jobs)
  BY ExceptSeq DEF Advances, JobInv
<1>3. jobs'[j] = m /\ (\A k \in 1..Len(jobs) : k # j => jobs'[k] = jobs[k]) /\ DOMAIN jobs' = 1..Len(jobs)
  BY <1>1 DEF Advances
<1>4. \A k \in 1..Len(jobs) : Number[jobs'[k].parent] <= high /\ IsFiniteSet(jobs'[k].built)
  BY <1>3 DEF Advances, JobInv
<1>5. OneLiveJob'
  <2> SUFFICES ASSUME NEW k \in 1..Len(jobs), jobs'[k].outcome = "running", ~jobs'[k].abort
               PROVE  k = Len(jobs)
    BY <1>2, <1>3 DEF OneLiveJob, Running
  <2>1. jobs[k].outcome = "running" /\ ~jobs[k].abort
    BY <1>3 DEF Advances
  <2> QED
    BY <1>1, <2>1 DEF JobInv, OneLiveJob, Running
<1>6. JobInv'
  BY <1>2, <1>4, <1>5 DEF JobInv
<1>7. JobsKept
  <2>1. high' = high /\ high \in Nat
    BY DEF JobInv
  <2> QED
    BY <1>1, <1>2, <1>3, <2>1 DEF JobsKept, Advances
<1> QED
  BY <1>1, <1>2, <1>3, <1>6, <1>7

\* No payload moves, and no job's block is sent or refused.
Calm ==
  /\ JobInv' /\ JobsKept /\ UNCHANGED <<payloads, delayed, recent, submitted>>
  /\ \A j \in 1..Len(jobs) : jobs[j].outcome = "sent" => jobs'[j].outcome = "sent"
  /\ \A j \in 1..Len(jobs') : jobs'[j].outcome \in {"sent", "double_sign"} =>
       j \in 1..Len(jobs) /\ jobs[j].outcome = jobs'[j].outcome

\* What the jobs are when none changes.
LEMMA SameJobs ==
  ASSUME JobInv, jobs' = jobs, high' >= high
  PROVE  /\ JobsKept /\ OneLiveJob' /\ Len(jobs) \in Nat
         /\ \A j \in 1..Len(jobs) : jobs[j].outcome = "sent" => jobs'[j].outcome = "sent"
         /\ \A j \in 1..Len(jobs') : jobs'[j].outcome \in {"sent", "double_sign"} =>
              j \in 1..Len(jobs) /\ jobs[j].outcome = jobs'[j].outcome
<1>1. Len(jobs) \in Nat
  BY LenProperties DEF JobInv
<1> QED
  BY <1>1 DEF JobInv, JobsKept, OneLiveJob, Running

\* Bids and the steps that do nothing.
LEMMA IdleCalm ==
  ASSUME JobInv, UNCHANGED <<chainVars, minerVars>>
  PROVE  Calm
<1>1. UNCHANGED <<tip, high, events, mining_queue, jobs, payloads, delayed, recent, submitted>>
  BY DEF chainVars, minerVars
<1>2. high' >= high
  BY <1>1 DEF JobInv
<1>3. JobInv'
  BY <1>1, <1>2, SameJobs DEF JobInv
<1> QED
  BY <1>1, <1>2, <1>3, SameJobs DEF Calm

\* A new tip.
LEMMA TipCalm ==
  ASSUME JobInv, NEW b \in Blocks, NewTip(b)
  PROVE  Calm
<1> DEFINE e == [tip |-> b, reorg |-> IsReorg(b)]
<1>1. /\ tip' = b /\ high' = (IF Number[b] > high THEN Number[b] ELSE high)
      /\ Number[b] + ReorgDepth >= high
      /\ events' = Append(events, e) \/ events' = events
      /\ UNCHANGED <<mining_queue, jobs, payloads, delayed, recent, submitted>>
  BY DEF NewTip, SetTip, announce
<1>2. Number[b] \in Nat /\ ReorgDepth \in Nat /\ \A c \in Blocks : Number[c] \in Nat
  BY ChainAssumption
<1>3. high' \in Nat /\ high' >= high /\ Number[b] <= high' /\ Number[b] + ReorgDepth >= high'
  BY <1>1, <1>2 DEF JobInv
<1>4. e \in [tip : Blocks, reorg : BOOLEAN] /\ e.tip = b
  <2>1. IsReorg(b) \in BOOLEAN
    BY DEF IsReorg
  <2> QED
    BY <2>1
<1> HIDE DEF e
<1>5. events' \in Seq([tip : Blocks, reorg : BOOLEAN])
  <2> DEFINE E == [tip : Blocks, reorg : BOOLEAN]
  <2>1. events \in Seq(E) /\ e \in E
    BY <1>4 DEF JobInv
  <2> HIDE DEF E
  <2>2. events' \in Seq(E)
    BY <1>1, <2>1, AppendProperties
  <2> QED
    BY <2>2 DEF E
<1>6. \A i \in 1..Len(events) : events[i].tip \in Blocks /\ Number[events[i].tip] <= high'
  <2>1. \A i \in 1..Len(events) : events[i] \in [tip : Blocks, reorg : BOOLEAN]
    BY ElementOfSeq DEF JobInv
  <2> QED
    BY <1>2, <1>3, <2>1 DEF JobInv
<1>7. \A i \in 1..Len(events') : Number[events'[i].tip] <= high'
  <2>1. CASE events' = events
    BY <1>6, <2>1
  <2>2. CASE events' = Append(events, e)
    <3>1. Len(events) \in Nat
      BY LenProperties DEF JobInv
    <3>2. /\ Len(events') = Len(events) + 1 /\ events'[Len(events) + 1] = e
          /\ \A i \in 1..Len(events) : events'[i] = events[i]
      BY <1>4, <2>2, AppendProperties DEF JobInv
    <3>3. \A i \in 1..Len(events') : i \in 1..Len(events) \/ i = Len(events) + 1
      BY <3>1, <3>2
    <3> QED
      BY <1>3, <1>4, <1>6, <3>2, <3>3
  <2> QED
    BY <1>1, <2>1, <2>2
<1>8. \A i \in 1..Len(mining_queue) : Number[mining_queue[i]] <= high'
  <2>1. \A i \in 1..Len(mining_queue) : mining_queue[i] \in Blocks
    BY ElementOfSeq DEF JobInv
  <2> QED
    BY <1>2, <1>3, <2>1 DEF JobInv
<1>9. \A j \in 1..Len(jobs) : Number[jobs[j].parent] <= high'
  <2>1. \A j \in 1..Len(jobs) : jobs[j] \in JobRecords
    BY ElementOfSeq DEF JobInv
  <2>2. \A j \in 1..Len(jobs) : jobs[j].parent \in Blocks
    BY <2>1 DEF JobRecords
  <2>3. high \in Nat /\ \A j \in 1..Len(jobs) : Number[jobs[j].parent] <= high
    BY DEF JobInv
  <2> QED
    BY <1>2, <1>3, <2>2, <2>3
<1>10. JobInv'
  BY <1>1, <1>3, <1>5, <1>7, <1>8, <1>9, SameJobs DEF JobInv
<1> QED
  BY <1>1, <1>3, <1>10, SameJobs DEF Calm

\* The new-work worker queues a block that is no higher than the highest tip.
LEMMA WorkFacts ==
  ASSUME JobInv, NEW t \in Blocks, Number[t] <= high, NEW fresh \in BOOLEAN, try_new_work(t, fresh)
  PROVE  /\ mining_queue' \in Seq(Blocks)
         /\ \A i \in 1..Len(mining_queue') : Number[mining_queue'[i]] <= high
<1>1. CASE mining_queue' = mining_queue
  BY <1>1 DEF JobInv
<1>2. CASE mining_queue' = Append(mining_queue, t)
  <2>1. Len(mining_queue) \in Nat
    BY LenProperties DEF JobInv
  <2>2. /\ mining_queue' \in Seq(Blocks) /\ Len(mining_queue') = Len(mining_queue) + 1
        /\ mining_queue'[Len(mining_queue) + 1] = t
        /\ \A i \in 1..Len(mining_queue) : mining_queue'[i] = mining_queue[i]
    BY <1>2, AppendProperties DEF JobInv
  <2>3. \A i \in 1..Len(mining_queue') : i \in 1..Len(mining_queue) \/ i = Len(mining_queue) + 1
    BY <2>1, <2>2
  <2> QED
    BY <2>2, <2>3 DEF JobInv
<1> QED
  BY <1>1, <1>2 DEF try_new_work

\* The steps of the new-work worker.
LEMMA WorkerCalm ==
  ASSUME JobInv, UNCHANGED chainVars, NEW fresh \in BOOLEAN, NEW answer,
         startup(fresh) \/ subscribe \/ on_event(fresh, answer)
  PROVE  Calm
<1>1. UNCHANGED <<tip, high, jobs, payloads, delayed, recent, submitted>> /\ high' >= high
  BY DEF chainVars, startup, subscribe, on_event, JobInv
<1>2. /\ events' \in Seq([tip : Blocks, reorg : BOOLEAN])
      /\ \A i \in 1..Len(events') : Number[events'[i].tip] <= high
      /\ mining_queue' \in Seq(Blocks)
      /\ \A i \in 1..Len(mining_queue') : Number[mining_queue'[i]] <= high
  <2>1. CASE startup(fresh)
    BY <2>1, WorkFacts DEF startup, JobInv
  <2>2. CASE subscribe
    BY <2>2 DEF subscribe, JobInv
  <2>3. CASE on_event(fresh, answer)
    <3> DEFINE E == [tip : Blocks, reorg : BOOLEAN]
               t == Head(events).tip
    <3>1. events \in Seq(E) /\ events # <<>> /\ events' = Tail(events)
      BY <2>3 DEF on_event, JobInv
    <3> HIDE DEF E
    <3>2. /\ Head(events) \in E /\ events' \in Seq(E) /\ Len(events') = Len(events) - 1
          /\ \A i \in 1..Len(events') : events'[i] = events[i + 1]
      BY <3>1, HeadTailProperties
    <3>3. Len(events) \in Nat /\ Len(events) > 0 /\ Head(events) = events[1]
      BY <3>1, EmptySeq, LenProperties
    <3>4. t \in Blocks /\ Number[t] <= high
      BY <3>2, <3>3 DEF E, JobInv
    <3>5. \A i \in 1..Len(events') : i + 1 \in 1..Len(events)
      BY <3>2, <3>3
    <3>6. \A i \in 1..Len(events') : Number[events'[i].tip] <= high
      BY <3>2, <3>5 DEF JobInv
    <3>7. mining_queue' = mining_queue \/ try_new_work(t, fresh)
      BY <2>3 DEF on_event
    <3> HIDE DEF t
    <3>8. /\ mining_queue' \in Seq(Blocks)
          /\ \A i \in 1..Len(mining_queue') : Number[mining_queue'[i]] <= high
      BY <3>4, <3>7, WorkFacts DEF JobInv
    <3> QED
      BY <3>2, <3>6, <3>8 DEF E
  <2> QED
    BY <2>1, <2>2, <2>3
<1>3. JobInv'
  BY <1>1, <1>2, SameJobs DEF JobInv
<1> QED
  BY <1>1, <1>3, SameJobs DEF Calm

\* A new job: the one before it is told to stop.
LEMMA MineFacts ==
  ASSUME JobInv, NEW p \in Blocks, Number[p] <= high, try_mine_block(p)
  PROVE  /\ jobs' \in Seq(JobRecords) /\ Len(jobs') = Len(jobs) + 1 /\ Len(jobs) \in Nat
         /\ jobs'[Len(jobs) + 1] = NewJob(p)
         /\ \A j \in 1..Len(jobs) :
              /\ jobs'[j].parent = jobs[j].parent /\ jobs'[j].built = jobs[j].built
              /\ jobs'[j].outcome = jobs[j].outcome
              /\ jobs'[j].abort = IF j = Len(jobs) THEN TRUE ELSE jobs[j].abort
<1> DEFINE n == Len(jobs)
           stopped == [j \in 1..n |-> IF j = Len(jobs) THEN [jobs[j] EXCEPT !.abort = TRUE] ELSE jobs[j]]
<1>1. n \in Nat /\ DOMAIN jobs = 1..n /\ \A j \in 1..n : jobs[j] \in JobRecords
  BY LenProperties, ElementOfSeq DEF JobInv
<1>2. jobs' = Append(stopped, NewJob(p))
  BY <1>1 DEF try_mine_block
<1>3. \A j \in 1..n : /\ stopped[j] \in JobRecords /\ stopped[j].parent = jobs[j].parent
                      /\ stopped[j].built = jobs[j].built /\ stopped[j].outcome = jobs[j].outcome
                      /\ stopped[j].abort = IF j = Len(jobs) THEN TRUE ELSE jobs[j].abort
  BY <1>1 DEF JobRecords
<1>4. NewJob(p) \in JobRecords
  <2>1. {} \in SUBSET Nat /\ 0 \in Nat /\ FALSE \in BOOLEAN
    OBVIOUS
  <2> QED
    BY <2>1 DEF NewJob, JobRecords, Outcomes
<1>5. stopped \in Seq(JobRecords) /\ Len(stopped) = n
  <2>1. stopped \in [1..n -> JobRecords]
    BY <1>3
  <2> HIDE DEF stopped, n
  <2>2. stopped \in Seq(JobRecords)
    BY <1>1, <2>1, SeqDef
  <2> QED
    BY <1>1, <2>1, <2>2, LenProperties
<1> HIDE DEF stopped, n
<1>6. /\ jobs' \in Seq(JobRecords) /\ Len(jobs') = n + 1 /\ jobs'[n + 1] = NewJob(p)
      /\ \A j \in 1..n : jobs'[j] = stopped[j]
  BY <1>2, <1>4, <1>5, AppendProperties
<1> QED
  BY <1>1, <1>3, <1>6 DEF n

\* The main worker takes a mining context.
LEMMA ContextCalm ==
  ASSUME JobInv, UNCHANGED chainVars, NEW readable \in BOOLEAN, take_context(readable)
  PROVE  Calm
<1> DEFINE p == Head(mining_queue)
<1>1. UNCHANGED <<tip, high, events, payloads, delayed, recent, submitted>> /\ high' >= high
  BY DEF chainVars, take_context, JobInv
<1>2. mining_queue \in Seq(Blocks) /\ mining_queue # <<>> /\ mining_queue' = Tail(mining_queue)
  BY DEF take_context, JobInv
<1>3. /\ p \in Blocks /\ mining_queue' \in Seq(Blocks) /\ Len(mining_queue') = Len(mining_queue) - 1
      /\ \A i \in 1..Len(mining_queue') : mining_queue'[i] = mining_queue[i + 1]
  BY <1>2, HeadTailProperties
<1>4. Len(mining_queue) \in Nat /\ Len(mining_queue) > 0 /\ p = mining_queue[1]
  BY <1>2, EmptySeq, LenProperties
<1>5. Number[p] <= high
  BY <1>4 DEF JobInv
<1>6. \A i \in 1..Len(mining_queue') : Number[mining_queue'[i]] <= high
  <2>1. \A i \in 1..Len(mining_queue') : i + 1 \in 1..Len(mining_queue)
    BY <1>3, <1>4
  <2> QED
    BY <1>3, <2>1 DEF JobInv
<1>7. jobs' = jobs \/ try_mine_block(p)
  BY DEF take_context
<1> HIDE DEF p
<1>8. CASE jobs' = jobs
  <2>1. JobInv'
    BY <1>1, <1>3, <1>6, <1>8, SameJobs DEF JobInv
  <2> QED
    BY <1>1, <1>8, <2>1, SameJobs DEF Calm
<1>9. CASE try_mine_block(p)
  <2> DEFINE n == Len(jobs)
  <2>1. /\ jobs' \in Seq(JobRecords) /\ Len(jobs') = n + 1 /\ n \in Nat
        /\ jobs'[n + 1] = NewJob(p)
        /\ \A j \in 1..n : /\ jobs'[j].parent = jobs[j].parent /\ jobs'[j].built = jobs[j].built
                           /\ jobs'[j].outcome = jobs[j].outcome
                           /\ jobs'[j].abort = IF j = n THEN TRUE ELSE jobs[j].abort
    BY <1>3, <1>5, <1>9, MineFacts
  <2>2. /\ NewJob(p).parent = p /\ NewJob(p).outcome = "running" /\ NewJob(p).abort = FALSE
        /\ IsFiniteSet(NewJob(p).built)
    BY FS_EmptySet DEF NewJob
  <2>3. \A j \in 1..Len(jobs') : j \in 1..n \/ j = n + 1
    BY <2>1
  <2>4. DOMAIN jobs = 1..n /\ DOMAIN jobs' = 1..(n + 1)
    BY <2>1, LenProperties DEF JobInv
  <2>5. \A j \in 1..Len(jobs') : Number[jobs'[j].parent] <= high /\ IsFiniteSet(jobs'[j].built)
    BY <1>5, <2>1, <2>2, <2>3 DEF JobInv
  <2>6. OneLiveJob'
    <3> SUFFICES ASSUME NEW j \in 1..(n + 1), jobs'[j].outcome = "running", ~jobs'[j].abort
                 PROVE  j = n + 1
      BY <2>1, <2>4 DEF OneLiveJob, Running
    <3> SUFFICES ASSUME j # n + 1 PROVE FALSE
      OBVIOUS
    <3>1. j \in 1..n
      BY <2>1
    <3>2. jobs[j].outcome = "running" /\ j # n /\ ~jobs[j].abort
      BY <2>1, <3>1
    <3> QED
      BY <2>4, <3>1, <3>2 DEF JobInv, OneLiveJob, Running
  <2>7. JobInv'
    BY <1>1, <1>3, <1>6, <2>1, <2>5, <2>6 DEF JobInv
  <2>8. JobsKept
    <3>1. Len(jobs') >= Len(jobs)
      BY <2>1
    <3> QED
      BY <1>1, <2>1, <3>1 DEF JobsKept
  <2>9. \A j \in 1..Len(jobs') : jobs'[j].outcome \in {"sent", "double_sign"} =>
          j \in 1..n /\ jobs[j].outcome = jobs'[j].outcome
    BY <2>1, <2>2, <2>3
  <2> QED
    BY <1>1, <2>1, <2>7, <2>8, <2>9 DEF Calm
<1> QED
  BY <1>7, <1>8, <1>9

\* A job builds, builds again or is aborted.
LEMMA BuildCalm ==
  ASSUME JobInv, UNCHANGED chainVars, NEW j \in DOMAIN jobs,
         start_build(j) \/ rebuild(j) \/ abort_job(j) \/ \E f \in Fees : build_done(j, f)
  PROVE  Calm
<1>1. UNCHANGED <<tip, high, events, mining_queue, payloads, delayed, recent, submitted>>
  BY DEF chainVars, start_build, rebuild, abort_job, build_done
<1>2. j \in 1..Len(jobs) /\ jobs[j] \in JobRecords /\ IsFiniteSet(jobs[j].built)
  BY LenProperties, ElementOfSeq DEF JobInv
<1>3. jobs[j].outcome = "running"
  BY DEF start_build, rebuild, abort_job, build_done, Running
<1>4. PICK m : Advances(j, m) /\ m.outcome \in {"running", "aborted"}
  <2>1. CASE start_build(j)
    <3> DEFINE m == [jobs[j] EXCEPT !.phase = "building", !.builds = @ + 1]
    <3>1. jobs' = [jobs EXCEPT ![j] = m]
      BY <2>1 DEF start_build
    <3>0. jobs[j].builds + 1 \in Nat
      BY <1>2 DEF JobRecords
    <3>2. m \in JobRecords /\ m.built = jobs[j].built /\ m.parent = jobs[j].parent
          /\ m.abort = jobs[j].abort /\ m.outcome = jobs[j].outcome
      BY <1>2, <3>0 DEF JobRecords
    <3> HIDE DEF m
    <3> QED
      BY <1>2, <1>3, <3>1, <3>2 DEF Advances
  <2>2. CASE rebuild(j)
    <3> DEFINE m == [jobs[j] EXCEPT !.phase = "queued"]
    <3>1. jobs' = [jobs EXCEPT ![j] = m]
      BY <2>2 DEF rebuild
    <3>2. m \in JobRecords /\ m.built = jobs[j].built /\ m.parent = jobs[j].parent
          /\ m.abort = jobs[j].abort /\ m.outcome = jobs[j].outcome
      BY <1>2 DEF JobRecords
    <3> HIDE DEF m
    <3> QED
      BY <1>2, <1>3, <3>1, <3>2 DEF Advances
  <2>3. CASE abort_job(j)
    <3> DEFINE m == [jobs[j] EXCEPT !.outcome = "aborted"]
    <3>1. jobs' = [jobs EXCEPT ![j] = m]
      BY <2>3 DEF abort_job
    <3>2. m \in JobRecords /\ m.built = jobs[j].built /\ m.parent = jobs[j].parent
          /\ m.abort = jobs[j].abort /\ m.outcome = "aborted"
      BY <1>2 DEF JobRecords, Outcomes
    <3> HIDE DEF m
    <3> QED
      BY <1>2, <1>3, <3>1, <3>2 DEF Advances
  <2>4. ASSUME NEW f \in Fees, build_done(j, f)
        PROVE  \E m : Advances(j, m) /\ m.outcome \in {"running", "aborted"}
    <3>0. f \in Nat
      BY MinerAssumption
    <3> DEFINE m == [jobs[j] EXCEPT !.phase = "waiting", !.built = @ \cup {f}]
    <3>1. jobs' = [jobs EXCEPT ![j] = m]
      BY <2>4 DEF build_done
    <3>2. m \in JobRecords /\ m.built = jobs[j].built \cup {f} /\ m.parent = jobs[j].parent
          /\ m.abort = jobs[j].abort /\ m.outcome = jobs[j].outcome
      BY <1>2, <3>0 DEF JobRecords
    <3> HIDE DEF m
    <3>3. IsFiniteSet(m.built)
      BY <1>2, <3>2, FS_AddElement
    <3> QED
      BY <1>2, <1>3, <3>1, <3>2, <3>3 DEF Advances
  <2> QED
    BY <2>1, <2>2, <2>3, <2>4
<1>5. /\ JobInv' /\ JobsKept /\ Len(jobs') = Len(jobs)
      /\ jobs'[j] = m /\ \A k \in 1..Len(jobs) : k # j => jobs'[k] = jobs[k]
  BY <1>1, <1>4, AdvanceFacts
<1> QED
  BY <1>1, <1>3, <1>4, <1>5 DEF Calm

\* The fees a job sends its payload with: no less than those of any other it might send.
BestFees(j, fees) ==
  /\ fees \in Nat /\ \A f \in jobs[j].built : fees >= f
  /\ best_bid[jobs[j].parent] # NoBid => fees >= best_bid[jobs[j].parent].fees

\* The pick is the best of the candidates.
LEMMA PickFacts ==
  ASSUME JobInv, BidInv, NEW j \in 1..Len(jobs), Candidates(j) # {}
  PROVE  BestFees(j, pick_best_payload(j))
<1> DEFINE p == jobs[j].parent
           C == Candidates(j)
           f == pick_best_payload(j)
<1>1. p \in Blocks /\ jobs[j].built \in SUBSET Nat /\ IsFiniteSet(jobs[j].built)
  <2>1. jobs[j] \in JobRecords /\ IsFiniteSet(jobs[j].built)
    BY ElementOfSeq DEF JobInv
  <2> QED
    BY <2>1 DEF JobRecords
<1>2. best_bid[p] \in BestBids \cup {NoBid}
  BY <1>1 DEF BidInv
<1>3. best_bid[p] # NoBid => best_bid[p].fees \in Nat
  BY <1>2 DEF BestBids
<1>4. C = jobs[j].built \cup (IF best_bid[p] = NoBid THEN {} ELSE {best_bid[p].fees})
  BY DEF Candidates, get_best_bid
<1>5. f = CHOOSE x \in C : \A y \in C : x >= y
  BY DEF pick_best_payload
<1> HIDE DEF p, C, f
<1>6. C \in SUBSET Nat /\ IsFiniteSet(C) /\ C # {}
  <2>1. CASE best_bid[p] = NoBid
    BY <1>1, <1>4, <2>1 DEF C
  <2>2. CASE best_bid[p] # NoBid
    BY <1>1, <1>3, <1>4, <2>2, FS_AddElement
  <2> QED
    BY <2>1, <2>2
<1>7. PICK m \in C : \A k \in C : k <= m
  BY <1>6, GreatestOfFinite
<1>8. m \in C /\ \A y \in C : m >= y
  BY <1>6, <1>7
<1>9. f \in C /\ \A y \in C : f >= y
  BY <1>5, <1>8
<1> QED
  BY <1>4, <1>6, <1>9 DEF BestFees, p, f

\* A job that returns sends its best payload or ends.
LEMMA ReturnFacts ==
  ASSUME JobInv, BidInv, NEW j \in DOMAIN jobs, job_returns(j), UNCHANGED chainVars
  PROVE  \E m : /\ Advances(j, m) /\ jobs[j].outcome = "running"
                /\ \/ /\ m.outcome = "sent"
                      /\ \E fees : BestFees(j, fees)
                                   /\ payloads' = Append(payloads, [job |-> j, fees |-> fees])
                   \/ m.outcome \in {"failed", "empty_handed"} /\ payloads' = payloads
<1>1. j \in 1..Len(jobs) /\ jobs[j] \in JobRecords /\ IsFiniteSet(jobs[j].built)
  BY LenProperties, ElementOfSeq DEF JobInv
<1>2. jobs[j].outcome = "running" /\ try_return_best_payload(j)
  BY DEF job_returns, Running
<1>3. ASSUME NEW o \in {"sent", "failed", "empty_handed"}, jobs' = [jobs EXCEPT ![j].outcome = o]
      PROVE  \E m : Advances(j, m) /\ m.outcome = o
  <2> DEFINE m == [jobs[j] EXCEPT !.outcome = o]
  <2>1. jobs' = [jobs EXCEPT ![j] = m]
    BY <1>3
  <2>2. m \in JobRecords /\ m.built = jobs[j].built /\ m.parent = jobs[j].parent
        /\ m.abort = jobs[j].abort /\ m.outcome = o
    BY <1>1 DEF JobRecords, Outcomes
  <2> HIDE DEF m
  <2>3. Advances(j, m)
    BY <1>1, <1>2, <2>1, <2>2 DEF Advances
  <2> QED
    BY <2>2, <2>3
<1>4. ASSUME NEW fees, Send(j, fees), BestFees(j, fees)
      PROVE  \E m : /\ Advances(j, m) /\ m.outcome = "sent"
                    /\ BestFees(j, fees) /\ payloads' = Append(payloads, [job |-> j, fees |-> fees])
  BY <1>3, <1>4 DEF Send
<1>5. CASE Candidates(j) # {} /\ Send(j, pick_best_payload(j))
  <2>1. BestFees(j, pick_best_payload(j))
    BY <1>1, <1>5, PickFacts
  <2> QED
    BY <1>2, <1>4, <1>5, <2>1
<1>6. CASE Candidates(j) = {} /\ Send(j, 0)
  <2>1. BestFees(j, 0)
    BY <1>6 DEF Candidates, get_best_bid, BestFees
  <2> QED
    BY <1>2, <1>4, <1>6, <2>1
<1>7. CASE GiveUp(j, "failed") \/ GiveUp(j, "empty_handed")
  BY <1>2, <1>3, <1>7 DEF GiveUp
<1> QED
  BY <1>2, <1>5, <1>6, <1>7 DEF try_return_best_payload

----------------------------------------------------------------------------
(* The double-sign guard. *)

\* The cache without the entry of a height keeps all the others, in their order.
LEMMA OthersFacts ==
  ASSUME Heights(recent), NEW n
  PROVE  /\ Heights(Others(n)) /\ Len(Others(n)) \in Nat /\ Len(recent) \in Nat
         /\ Len(Others(n)) = IF Remembered(n) = {} THEN Len(recent) ELSE Len(recent) - 1
         /\ \A i \in 1..Len(Others(n)) : /\ Others(n)[i].number # n
                                         /\ \E k \in 1..Len(recent) : Others(n)[i] = recent[k]
         /\ \A k \in 1..Len(recent) : recent[k].number # n =>
              \E i \in 1..Len(Others(n)) : Others(n)[i] = recent[k]
<1> DEFINE o == Others(n)
           c == CHOOSE i \in Remembered(n) : TRUE
           L == Len(recent)
<1>1. /\ recent \in Seq(Entries) /\ L \in Nat /\ DOMAIN recent = 1..L
      /\ \A i \in 1..L : recent[i].number \in Nat
  <2>1. recent \in Seq(Entries)
    BY DEF Heights
  <2>2. \A i \in 1..L : recent[i] \in Entries
    BY <2>1, ElementOfSeq
  <2> QED
    BY <2>1, <2>2, LenProperties DEF Entries
<1>2. CASE Remembered(n) = {}
  <2>1. o = recent
    BY <1>2 DEF Others
  <2>2. \A i \in 1..L : recent[i].number # n
    BY <1>1, <1>2 DEF Remembered
  <2> QED
    BY <1>1, <1>2, <2>1, <2>2
<1>3. CASE Remembered(n) # {}
  <2>1. c \in Remembered(n)
    BY <1>3
  <2>2. c \in 1..L /\ recent[c].number = n
    BY <1>1, <2>1 DEF Remembered
  <2>3. o = RemoveAt(recent, c)
    BY <1>3 DEF Others
  <2> HIDE DEF o, c
  <2>4. /\ o \in Seq(Entries) /\ Len(o) = L - 1
        /\ \A i \in 1..(L - 1) : o[i] = IF i < c THEN recent[i] ELSE recent[i + 1]
    BY <1>1, <2>2, <2>3, RemoveAtFacts
  <2> DEFINE at(i) == IF i < c THEN i ELSE i + 1
  <2>5. \A i \in 1..(L - 1) : at(i) \in 1..L /\ at(i) # c /\ o[i] = recent[at(i)]
    BY <1>1, <2>2, <2>4
  <2>6. \A i, k \in 1..(L - 1) : (at(i) = at(k) => i = k) /\ (i < k => at(i) < at(k))
    BY <1>1, <2>2
  <2>7. \A k \in 1..L : k # c => \E i \in 1..(L - 1) : at(i) = k
    <3> SUFFICES ASSUME NEW k \in 1..L, k # c PROVE \E i \in 1..(L - 1) : at(i) = k
      OBVIOUS
    <3>1. CASE k < c
      <4>1. k \in 1..(L - 1) /\ at(k) = k
        BY <1>1, <2>2, <3>1
      <4> QED
        BY <4>1
    <3>2. CASE k > c
      <4>1. k - 1 \in 1..(L - 1) /\ at(k - 1) = k
        BY <1>1, <2>2, <3>2
      <4> QED
        BY <4>1
    <3> QED
      BY <1>1, <2>2, <3>1, <3>2
  <2> HIDE DEF at, L
  <2>8. \A i \in 1..L : recent[i].number = n => i = c
    BY <2>2 DEF Heights, L
  <2>9. Heights(o)
    <3>1. \A i, k \in 1..(L - 1) : o[i].number = o[k].number => i = k
      BY <2>5, <2>6 DEF Heights, L
    <3>2. \A i \in 1..(L - 1) : o[i].number <= high + 1
      BY <2>5 DEF Heights, L
    <3>3. \A i, k \in 1..(L - 1) : i < k => o[k].number + ReorgDepth >= o[i].number
      BY <2>5, <2>6 DEF Heights, L
    <3> QED
      BY <2>4, <3>1, <3>2, <3>3 DEF Heights
  <2>10. \A i \in 1..(L - 1) : o[i].number # n
    BY <2>5, <2>8
  <2>11. L - 1 \in Nat
    BY <1>1, <2>2
  <2>12. \A i \in 1..(L - 1) : \E k \in 1..L : o[i] = recent[k]
    BY <2>5
  <2>13. \A k \in 1..L : recent[k].number # n => \E i \in 1..(L - 1) : o[i] = recent[k]
    <3> SUFFICES ASSUME NEW k \in 1..L, recent[k].number # n
                 PROVE  \E i \in 1..(L - 1) : o[i] = recent[k]
      OBVIOUS
    <3>1. PICK i \in 1..(L - 1) : at(i) = k
      BY <2>2, <2>7
    <3> QED
      BY <2>5, <3>1
  <2> QED
    BY <1>1, <1>3, <2>4, <2>9, <2>10, <2>11, <2>12, <2>13 DEF o, L
<1> QED
  BY <1>2, <1>3

\* An entry that moves to the recent end, or comes there: its height is one that a tip can
\* still lead to, so the order of the heights is kept.
LEMMA MoveFacts ==
  ASSUME JobInv, Heights(recent), NEW e \in Entries, NEW parent,
         e.number <= high + 1, e.number + ReorgDepth >= high + 1,
         \A i \in 1..Len(recent) : recent[i].number = e.number => recent[i].parents \subseteq e.parents,
         \A q \in e.parents : q = parent \/ SignedIn(recent, e.number, q)
  PROVE  LET all == Append(Others(e.number), e)
         IN /\ Heights(all) /\ Len(all) \in Nat /\ all # <<>>
            /\ Len(all) = IF Remembered(e.number) = {} THEN Len(recent) + 1 ELSE Len(recent)
            /\ \A k, q : SignedIn(all, k, q) => (k = e.number /\ q = parent) \/ SignedIn(recent, k, q)
            /\ \A k, q : SignedIn(recent, k, q) => SignedIn(all, k, q)
            /\ \A q \in e.parents : SignedIn(all, e.number, q)
<1> DEFINE n == e.number
           o == Others(n)
           all == Append(o, e)
           L == Len(o)
<1>1. /\ Heights(o) /\ L \in Nat /\ Len(recent) \in Nat
      /\ L = IF Remembered(n) = {} THEN Len(recent) ELSE Len(recent) - 1
      /\ \A i \in 1..L : o[i].number # n /\ \E k \in 1..Len(recent) : o[i] = recent[k]
      /\ \A k \in 1..Len(recent) : recent[k].number # n => \E i \in 1..L : o[i] = recent[k]
  BY OthersFacts
<1>2. n \in Nat /\ high \in Nat /\ ReorgDepth \in Nat
  BY ChainAssumption DEF JobInv, Entries
<1> HIDE DEF o
<1>3. /\ all \in Seq(Entries) /\ Len(all) = L + 1 /\ all[L + 1] = e /\ all # <<>>
      /\ \A i \in 1..L : all[i] = o[i]
  <2>1. o \in Seq(Entries)
    BY <1>1 DEF Heights
  <2> QED
    BY <2>1, AppendProperties
<1>4. \A i \in 1..L : o[i].number \in Nat /\ o[i].number <= high + 1
  <2>1. \A i \in 1..L : o[i] \in Entries
    BY <1>1, ElementOfSeq DEF Heights
  <2> QED
    BY <1>1, <2>1 DEF Heights, Entries
<1> HIDE DEF all, n, L
<1>5. \A i \in 1..(L + 1) : i \in 1..L \/ i = L + 1
  BY <1>1
<1>5a. \A i \in 1..L : ~(L + 1 < i) /\ L + 1 # i
  BY <1>1
<1>5b. L + 1 \in 1..(L + 1) /\ \A i \in 1..L : i \in 1..(L + 1)
  BY <1>1
<1>6. e.number = n
  BY DEF n
<1>7. Heights(all)
  <2>1. \A i, k \in 1..(L + 1) : all[i].number = all[k].number => i = k
    <3>1. \A i, k \in 1..L : o[i].number = o[k].number => i = k
      BY <1>1 DEF Heights, L
    <3>2. \A i \in 1..L : o[i].number # n
      BY <1>1
    <3> QED
      BY <1>3, <1>5, <1>6, <3>1, <3>2
  <2>2. \A i \in 1..(L + 1) : all[i].number <= high + 1
    BY <1>3, <1>4, <1>5, <1>6
  <2>3. \A i, k \in 1..(L + 1) : i < k => all[k].number + ReorgDepth >= all[i].number
    <3>1. \A i, k \in 1..L : i < k => o[k].number + ReorgDepth >= o[i].number
      BY <1>1 DEF Heights, L
    <3>2. \A i \in 1..L : n + ReorgDepth >= o[i].number
      BY <1>2, <1>4, <1>6
    <3> QED
      BY <1>3, <1>5, <1>5a, <1>6, <3>1, <3>2
  <2> QED
    BY <1>3, <2>1, <2>2, <2>3 DEF Heights
<1>8. ASSUME NEW k, NEW q, SignedIn(all, k, q)
      PROVE  (k = n /\ q = parent) \/ SignedIn(recent, k, q)
  <2>1. PICK i \in 1..(L + 1) : all[i].number = k /\ q \in all[i].parents
    BY <1>3, <1>8 DEF SignedIn
  <2>2. CASE i = L + 1
    BY <1>3, <1>6, <2>1, <2>2
  <2>3. CASE i \in 1..L
    <3>1. PICK h \in 1..Len(recent) : o[i] = recent[h]
      BY <1>1, <2>3
    <3> QED
      BY <1>3, <2>1, <2>3, <3>1 DEF SignedIn
  <2> QED
    BY <1>5, <2>2, <2>3
<1>9. ASSUME NEW k, NEW q, SignedIn(recent, k, q)
      PROVE  SignedIn(all, k, q)
  <2>1. PICK i \in 1..Len(recent) : recent[i].number = k /\ q \in recent[i].parents
    BY <1>9 DEF SignedIn
  <2>2. CASE k = n
    <3>1. q \in e.parents
      BY <1>6, <2>1, <2>2
    <3> QED
      BY <1>3, <1>5b, <1>6, <2>2, <3>1 DEF SignedIn
  <2>3. CASE k # n
    <3>1. PICK h \in 1..L : o[h] = recent[i]
      BY <1>1, <2>1, <2>3
    <3> QED
      BY <1>3, <1>5b, <2>1, <3>1 DEF SignedIn
  <2> QED
    BY <2>2, <2>3
<1>10. \A q \in e.parents : SignedIn(all, n, q)
  BY <1>3, <1>5b, <1>6 DEF SignedIn
<1>11. Len(all) \in Nat /\ Len(all) = IF Remembered(n) = {} THEN Len(recent) + 1 ELSE Len(recent)
  <2>1. Len(all) = L + 1
    BY <1>3
  <2> HIDE DEF n
  <2> QED
    BY <1>1, <2>1
<1> QED
  BY <1>3, <1>7, <1>8, <1>9, <1>10, <1>11 DEF all, n, o

\* The pigeonhole behind the size of the cache: with one entry too many, the least recent
\* one is of a height that no tip can lead to any more.
LEMMA OldestIsPast ==
  ASSUME JobInv, NEW s, Heights(s), Len(s) = CacheSize + 1
  PROVE  s[1].number + ReorgDepth <= high
<1> DEFINE m == s[1].number
           low == m - ReorgDepth
           top == high + 1
           H == low .. top
           f == [i \in 1..(CacheSize + 1) |-> s[i].number]
<1> SUFFICES ASSUME ~(m + ReorgDepth <= high) PROVE FALSE
  OBVIOUS
<1>1. high \in Nat /\ ReorgDepth \in Nat /\ CacheSize \in Nat /\ CacheSize > 2 * ReorgDepth
  BY ChainAssumption, MinerAssumption DEF JobInv
<1>2. \A i \in 1..(CacheSize + 1) : s[i].number \in Nat
  <2>1. \A i \in 1..(CacheSize + 1) : s[i] \in Entries
    BY ElementOfSeq DEF Heights
  <2> QED
    BY <2>1 DEF Entries
<1>3. 1 \in 1..(CacheSize + 1) /\ m \in Nat
  BY <1>1, <1>2
<1>4. \A i \in 1..(CacheSize + 1) : s[i].number <= top /\ low <= s[i].number
  <2> SUFFICES ASSUME NEW i \in 1..(CacheSize + 1) PROVE s[i].number <= top /\ low <= s[i].number
    OBVIOUS
  <2>1. s[i].number <= top /\ (1 < i => s[i].number + ReorgDepth >= m)
    BY <1>3 DEF Heights
  <2>2. i = 1 \/ 1 < i
    BY <1>1
  <2> QED
    BY <1>1, <1>2, <1>3, <2>1, <2>2
<1>5. \A i, k \in 1..(CacheSize + 1) : s[i].number = s[k].number => i = k
  BY DEF Heights
<1>6. low \in Int /\ top \in Int /\ ~(low > top) /\ top - low + 1 <= 2 * ReorgDepth + 1
  <2>1. m <= top
    BY <1>3, <1>4
  <2> QED
    BY <1>1, <1>3, <2>1
<1>7. f \in Injection(1..(CacheSize + 1), H)
  <2>1. \A i \in 1..(CacheSize + 1) : s[i].number \in H
    BY <1>2, <1>4, <1>6
  <2>2. f \in [1..(CacheSize + 1) -> H]
    BY <2>1
  <2>3. \A i, k \in 1..(CacheSize + 1) : f[i] = f[k] => i = k
    BY <1>5
  <2> HIDE DEF H, f
  <2> QED
    BY <2>2, <2>3 DEF Injection, IsInjective
<1> HIDE DEF f, low, top
<1>8. IsFiniteSet(H) /\ Cardinality(H) = top - low + 1
  BY <1>6, FS_Interval
<1>9. Cardinality(1..(CacheSize + 1)) = CacheSize + 1
  <2>1. 1 \in Int /\ CacheSize + 1 \in Int /\ ~(1 > CacheSize + 1)
    BY <1>1
  <2>2. Cardinality(1..(CacheSize + 1)) = (CacheSize + 1) - 1 + 1
    BY <2>1, FS_Interval
  <2> QED
    BY <1>1, <2>2
<1> HIDE DEF H
<1>10. Cardinality(1..(CacheSize + 1)) <= Cardinality(H)
  BY <1>7, <1>8, FS_Injection
<1> QED
  BY <1>1, <1>6, <1>8, <1>9, <1>10

\* The cache after its least recent entry is gone.
LEMMA TailHeights ==
  ASSUME NEW s, Heights(s), s # <<>>
  PROVE  /\ Heights(Tail(s)) /\ Len(s) \in Nat /\ Len(Tail(s)) = Len(s) - 1
         /\ \A k, q : SignedIn(Tail(s), k, q) => SignedIn(s, k, q)
         /\ \A k, q : SignedIn(s, k, q) => SignedIn(Tail(s), k, q) \/ k = s[1].number
<1> DEFINE t == Tail(s)
           L == Len(s)
<1>1. s \in Seq(Entries)
  BY DEF Heights
<1>2. /\ t \in Seq(Entries) /\ Len(t) = L - 1 /\ \A i \in 1..Len(t) : t[i] = s[i + 1]
      /\ L \in Nat /\ L > 0
  BY <1>1, HeadTailProperties, EmptySeq, LenProperties
<1> HIDE DEF t
<1>3. \A i \in 1..(L - 1) : i + 1 \in 1..L /\ t[i] = s[i + 1]
  BY <1>2
<1>4. \A i \in 1..L : i = 1 \/ (i - 1 \in 1..(L - 1) /\ t[i - 1] = s[i])
  BY <1>2
<1>5. \A i, k \in 1..(L - 1) : (i + 1 = k + 1 => i = k) /\ (i < k => i + 1 < k + 1)
  BY <1>2
<1>6. Heights(t)
  <2>1. \A i, k \in 1..L : s[i].number = s[k].number => i = k
    BY DEF Heights
  <2>2. \A i \in 1..L : s[i].number <= high + 1
    BY DEF Heights
  <2>3. \A i, k \in 1..L : i < k => s[k].number + ReorgDepth >= s[i].number
    BY DEF Heights
  <2> HIDE DEF L
  <2>4. \A i, k \in 1..(L - 1) : t[i].number = t[k].number => i = k
    BY <1>3, <1>5, <2>1
  <2>5. \A i \in 1..(L - 1) : t[i].number <= high + 1
    BY <1>3, <2>2
  <2>6. \A i, k \in 1..(L - 1) : i < k => t[k].number + ReorgDepth >= t[i].number
    BY <1>3, <1>5, <2>3
  <2> QED
    BY <1>2, <2>4, <2>5, <2>6 DEF Heights
<1>7. ASSUME NEW k, NEW q, SignedIn(t, k, q) PROVE SignedIn(s, k, q)
  <2>1. PICK i \in 1..(L - 1) : t[i].number = k /\ q \in t[i].parents
    BY <1>2, <1>7 DEF SignedIn
  <2> QED
    BY <1>3, <2>1 DEF SignedIn
<1>8. ASSUME NEW k, NEW q, SignedIn(s, k, q) PROVE SignedIn(t, k, q) \/ k = s[1].number
  <2>1. PICK i \in 1..L : s[i].number = k /\ q \in s[i].parents
    BY <1>8 DEF SignedIn
  <2>2. CASE i = 1
    BY <2>1, <2>2
  <2>3. CASE i # 1
    <3>1. i - 1 \in 1..(L - 1) /\ t[i - 1] = s[i]
      BY <1>4, <2>3
    <3> QED
      BY <1>2, <2>1, <3>1 DEF SignedIn
  <2> QED
    BY <2>2, <2>3
<1> QED
  BY <1>2, <1>6, <1>7, <1>8 DEF t

\* Remember: the parent is recorded, and what is forgotten is past.
LEMMA RememberFacts ==
  ASSUME JobInv, Heights(recent), Len(recent) <= CacheSize, NEW n \in Nat, NEW parent \in Blocks,
         n <= high + 1, n + ReorgDepth >= high + 1
  PROVE  LET r == Remember(n, parent)
         IN /\ Heights(r) /\ Len(r) <= CacheSize
            /\ \A k, q : SignedIn(r, k, q) => (k = n /\ q = parent) \/ SignedIn(recent, k, q)
            /\ \A k, q : SignedIn(recent, k, q) => SignedIn(r, k, q) \/ k + ReorgDepth <= high
            /\ SignedIn(r, n, parent)
<1> DEFINE known == UNION {recent[i].parents : i \in Remembered(n)}
           e == [number |-> n, parents |-> known \cup {parent}]
           all == Append(Others(n), e)
<1>1. recent \in Seq(Entries) /\ DOMAIN recent = 1..Len(recent) /\ Len(recent) \in Nat
  BY LenProperties DEF Heights
<1>2. \A i \in 1..Len(recent) : recent[i].parents \subseteq Blocks
  <2>1. \A i \in 1..Len(recent) : recent[i] \in Entries
    BY <1>1, ElementOfSeq
  <2> QED
    BY <2>1 DEF Entries
<1>3. /\ \A q \in known : \E i \in 1..Len(recent) : recent[i].number = n /\ q \in recent[i].parents
      /\ \A i \in 1..Len(recent) : recent[i].number = n => recent[i].parents \subseteq known
  BY <1>1 DEF Remembered
<1>4. Remember(n, parent) = IF Len(all) > CacheSize THEN Tail(all) ELSE all
  BY DEF Remember
<1> HIDE DEF known
<1>5. known \subseteq Blocks
  BY <1>2, <1>3
<1>6. e \in Entries /\ e.number = n /\ e.parents = known \cup {parent}
  BY <1>5 DEF Entries
<1> HIDE DEF e
<1>7. /\ \A i \in 1..Len(recent) : recent[i].number = e.number => recent[i].parents \subseteq e.parents
      /\ \A q \in e.parents : q = parent \/ SignedIn(recent, e.number, q)
  BY <1>3, <1>6 DEF SignedIn
<1>8. /\ Heights(all) /\ Len(all) \in Nat /\ all # <<>>
      /\ Len(all) = IF Remembered(n) = {} THEN Len(recent) + 1 ELSE Len(recent)
      /\ \A k, q : SignedIn(all, k, q) => (k = n /\ q = parent) \/ SignedIn(recent, k, q)
      /\ \A k, q : SignedIn(recent, k, q) => SignedIn(all, k, q)
      /\ SignedIn(all, n, parent)
  BY <1>6, <1>7, MoveFacts
<1> HIDE DEF all
<1>9. CacheSize \in Nat /\ high \in Nat /\ ReorgDepth \in Nat
  BY ChainAssumption, MinerAssumption DEF JobInv
<1>10. CASE ~(Len(all) > CacheSize)
  <2>1. Remember(n, parent) = all /\ Len(all) <= CacheSize
    BY <1>4, <1>8, <1>9, <1>10
  <2> QED
    BY <1>8, <2>1
<1>11. CASE Len(all) > CacheSize
  <2>1. Remember(n, parent) = Tail(all) /\ Len(all) = CacheSize + 1
    BY <1>1, <1>4, <1>8, <1>9, <1>11
  <2>2. /\ Heights(Tail(all)) /\ Len(Tail(all)) = Len(all) - 1
        /\ \A k, q : SignedIn(Tail(all), k, q) => SignedIn(all, k, q)
        /\ \A k, q : SignedIn(all, k, q) => SignedIn(Tail(all), k, q) \/ k = all[1].number
    BY <1>8, TailHeights
  <2>3. all[1].number + ReorgDepth <= high
    BY <1>8, <2>1, OldestIsPast
  <2>4. n # all[1].number
    <3>1. ~(n + ReorgDepth <= high)
      BY <1>9
    <3> QED
      BY <2>3, <3>1
  <2>5. Len(Tail(all)) <= CacheSize
    BY <1>9, <2>1, <2>2
  <2> QED
    BY <1>8, <2>1, <2>2, <2>3, <2>4, <2>5
<1> QED
  BY <1>10, <1>11

\* Refresh: nothing is forgotten or added.
LEMMA RefreshFacts ==
  ASSUME JobInv, Heights(recent), Len(recent) <= CacheSize, NEW n, NEW parent,
         n <= high + 1, n + ReorgDepth >= high + 1, SignedIn(recent, n, parent)
  PROVE  LET r == Refresh(n)
         IN /\ Heights(r) /\ Len(r) <= CacheSize
            /\ \A k, q : SignedIn(r, k, q) <=> SignedIn(recent, k, q)
<1> DEFINE c == CHOOSE i \in Remembered(n) : TRUE
           e == recent[c]
<1>1. recent \in Seq(Entries) /\ DOMAIN recent = 1..Len(recent) /\ Len(recent) \in Nat
  BY LenProperties DEF Heights
<1>2. Remembered(n) # {}
  BY <1>1 DEF SignedIn, Remembered
<1>3. c \in Remembered(n)
  BY <1>2
<1>4. c \in 1..Len(recent) /\ e.number = n
  BY <1>1, <1>3 DEF Remembered
<1> HIDE DEF c
<1>5. e \in Entries
  BY <1>1, <1>4, ElementOfSeq
<1>6. \A i \in 1..Len(recent) : recent[i].number = n => i = c
  BY <1>4 DEF Heights
<1>7. /\ \A i \in 1..Len(recent) : recent[i].number = e.number => recent[i].parents \subseteq e.parents
      /\ \A q \in e.parents : SignedIn(recent, e.number, q)
  BY <1>4, <1>6 DEF SignedIn
<1>8. Refresh(n) = Append(Others(n), e)
  BY DEF Refresh, c
<1> HIDE DEF e
<1>9. /\ Heights(Append(Others(n), e))
      /\ Len(Append(Others(n), e)) = IF Remembered(n) = {} THEN Len(recent) + 1 ELSE Len(recent)
      /\ \A k, q : SignedIn(Append(Others(n), e), k, q) => (k = n /\ q = parent) \/ SignedIn(recent, k, q)
      /\ \A k, q : SignedIn(recent, k, q) => SignedIn(Append(Others(n), e), k, q)
  BY <1>4, <1>5, <1>7, MoveFacts
<1> QED
  BY <1>2, <1>8, <1>9

\* What the guard's invariant says of the cache, in terms of what it holds.
LEMMA GuardSays ==
  ASSUME GuardInv
  PROVE  /\ Len(recent) \in Nat /\ DOMAIN recent = 1..Len(recent)
         /\ \A k, q : SignedIn(recent, k, q) => Number[q] + 1 = k /\ Passed(q)
         /\ \A k, q : Signed(k, q) <=> SignedIn(recent, k, q)
<1>1. Len(recent) \in Nat /\ DOMAIN recent = 1..Len(recent)
  BY LenProperties DEF GuardInv, Heights
<1> QED
  BY <1>1 DEF GuardInv, SignedIn, Signed, Remembered

\* A job's block that has passed the guard stays so.
LEMMA PassedKept ==
  ASSUME JobInv, JobInv', JobsKept, NEW q, Passed(q)
  PROVE  Passed(q)'
<1>1. PICK k \in 1..Len(jobs) : jobs[k].parent = q /\ jobs[k].outcome \in {"submitted", "lost"}
  BY DEF Passed
<1>2. Len(jobs) \in Nat /\ Len(jobs') \in Nat
  BY LenProperties DEF JobInv
<1>3. k \in 1..Len(jobs') /\ jobs'[k].parent = q /\ jobs'[k].outcome = jobs[k].outcome
  BY <1>1, <1>2 DEF JobsKept
<1> QED
  BY <1>1, <1>3 DEF Passed


\* Steps that leave the guard alone.
LEMMA GuardCalm ==
  ASSUME JobInv, GuardInv, JobInv', JobsKept, UNCHANGED <<recent, submitted>>,
         \A j \in 1..Len(jobs') : jobs'[j].outcome = "double_sign" =>
           j \in 1..Len(jobs) /\ jobs[j].outcome = "double_sign"
  PROVE  GuardInv'
<1>1. Len(jobs) \in Nat /\ Len(jobs') \in Nat
  BY LenProperties DEF JobInv
<1>2. high \in Nat /\ high' \in Nat /\ high' >= high /\ ReorgDepth \in Nat
  BY ChainAssumption DEF JobInv, JobsKept
<1>3. Heights(recent)'
  <2>1. \A i \in 1..Len(recent) : recent[i].number \in Nat
    <3>1. \A i \in 1..Len(recent) : recent[i] \in Entries
      BY ElementOfSeq DEF GuardInv, Heights
    <3> QED
      BY <3>1 DEF Entries
  <2>2. \A i \in 1..Len(recent) : recent[i].number <= high + 1
    BY DEF GuardInv, Heights
  <2>3. \A i \in 1..Len(recent) : recent[i].number <= high' + 1
    BY <1>2, <2>1, <2>2
  <2> QED
    BY <2>3 DEF GuardInv, Heights
<1>4. \A i \in 1..Len(recent) : \A parent \in recent[i].parents :
        Number[parent] + 1 = recent[i].number /\ Passed(parent)'
  BY PassedKept DEF GuardInv
<1>5. submitted \subseteq 1..Len(jobs')
  BY <1>1 DEF GuardInv, JobsKept
<1>6. \A j \in submitted : /\ j \in 1..Len(jobs) /\ jobs'[j].parent = jobs[j].parent
                           /\ jobs'[j].outcome = "submitted" /\ jobs[j].parent \in Blocks
  <2>1. \A j \in submitted : j \in 1..Len(jobs) /\ jobs[j].outcome = "submitted"
    BY DEF GuardInv
  <2>2. \A j \in submitted : jobs[j] \in JobRecords
    BY <2>1, ElementOfSeq DEF JobInv
  <2> QED
    BY <2>1, <2>2 DEF JobsKept, JobRecords
<1>7. \A j \in submitted : \/ SignedIn(recent, Number[jobs'[j].parent] + 1, jobs'[j].parent)
                           \/ Number[jobs'[j].parent] + 1 + ReorgDepth <= high'
  <2> SUFFICES ASSUME NEW j \in submitted
               PROVE  \/ SignedIn(recent, Number[jobs'[j].parent] + 1, jobs'[j].parent)
                      \/ Number[jobs'[j].parent] + 1 + ReorgDepth <= high'
    OBVIOUS
  <2>1. \/ SignedIn(recent, Number[jobs[j].parent] + 1, jobs[j].parent)
        \/ Number[jobs[j].parent] + 1 + ReorgDepth <= high
    BY DEF GuardInv
  <2>2. Number[jobs[j].parent] \in Nat
    BY <1>6, ChainAssumption
  <2>3. Number[jobs[j].parent] + 1 + ReorgDepth <= high => Number[jobs[j].parent] + 1 + ReorgDepth <= high'
    BY <1>2, <2>2
  <2> QED
    BY <1>6, <2>1, <2>3
<1>8. \A j, k \in submitted : jobs'[j].parent = jobs'[k].parent => j = k
  BY <1>6 DEF GuardInv
<1>9. (\A j \in 1..Len(jobs) : jobs[j].outcome = "double_sign" => Passed(jobs[j].parent))'
  <2> SUFFICES ASSUME NEW j \in 1..Len(jobs'), jobs'[j].outcome = "double_sign"
               PROVE  \E k \in 1..Len(jobs') : /\ jobs'[k].parent = jobs'[j].parent
                                               /\ jobs'[k].outcome \in {"submitted", "lost"}
    BY DEF Passed
  <2>1. j \in 1..Len(jobs) /\ jobs[j].outcome = "double_sign" /\ jobs'[j].parent = jobs[j].parent
    BY DEF JobsKept
  <2>2. Passed(jobs[j].parent)
    BY <2>1 DEF GuardInv
  <2> DEFINE q == jobs[j].parent
  <2> HIDE DEF q
  <2>3. PICK k \in 1..Len(jobs) : jobs[k].parent = q /\ jobs[k].outcome \in {"submitted", "lost"}
    BY <2>2 DEF Passed, q
  <2>4. k \in 1..Len(jobs') /\ jobs'[k].parent = q /\ jobs'[k].outcome = jobs[k].outcome
    BY <1>1, <2>3 DEF JobsKept
  <2> QED
    BY <2>1, <2>3, <2>4 DEF q
<1>10. Len(recent) <= CacheSize /\ UNCHANGED <<recent, submitted>>
  BY DEF GuardInv
<1> QED
  BY <1>3, <1>4, <1>5, <1>6, <1>7, <1>8, <1>9, <1>10 DEF GuardInv, SignedIn

\* Ending a job that has sent its payload.
LEMMA FinishFacts ==
  ASSUME JobInv, NEW p, Sent(p), UNCHANGED <<tip, high, events, mining_queue>>,
         NEW o \in {"lost", "stale", "double_sign", "submitted"}, Finish(p, o)
  PROVE  /\ JobInv' /\ JobsKept /\ Len(jobs') = Len(jobs) /\ Len(jobs) \in Nat
         /\ jobs'[p.job].outcome = o /\ jobs'[p.job].parent = jobs[p.job].parent
         /\ \A k \in 1..Len(jobs) : k # p.job => jobs'[k] = jobs[k]
<1> DEFINE j == p.job
           m == [jobs[j] EXCEPT !.outcome = o]
<1>1. j \in 1..Len(jobs) /\ jobs[j].outcome = "sent"
  BY DEF Sent
<1>2. jobs[j] \in JobRecords /\ IsFiniteSet(jobs[j].built)
  BY <1>1, ElementOfSeq DEF JobInv
<1>3. m \in JobRecords /\ m.built = jobs[j].built /\ m.parent = jobs[j].parent
      /\ m.abort = jobs[j].abort /\ m.outcome = o
  BY <1>2 DEF JobRecords, Outcomes
<1>4. jobs' = [jobs EXCEPT ![j] = m]
  BY DEF Finish
<1> HIDE DEF m, j
<1>5. Advances(j, m)
  BY <1>1, <1>2, <1>3, <1>4 DEF Advances
<1>6. /\ JobInv' /\ JobsKept /\ Len(jobs') = Len(jobs) /\ Len(jobs) \in Nat
      /\ jobs'[j] = m /\ \A k \in 1..Len(jobs) : k # j => jobs'[k] = jobs[k]
  BY <1>5, AdvanceFacts
<1> QED
  BY <1>3, <1>6 DEF j

\* Whatever becomes of a payload, the guard's invariant holds after it.
LEMMA SubmitKeeps ==
  ASSUME JobInv, GuardInv, NEW p, Sent(p), UNCHANGED <<tip, high, events, mining_queue>>,
         NEW works \in BOOLEAN, submit_payload(p, works)
  PROVE  /\ JobInv' /\ GuardInv' /\ Len(jobs') = Len(jobs)
         /\ \A k \in 1..Len(jobs) : k # p.job => jobs'[k] = jobs[k]
         /\ jobs'[p.job].outcome # "sent"
<1> DEFINE j == p.job
           parent == jobs[j].parent
           n == NumberOf(p)
<1>1. j \in 1..Len(jobs) /\ jobs[j].outcome = "sent"
  BY DEF Sent
<1>2. parent \in Blocks /\ Number[parent] <= high
  <2>1. jobs[j] \in JobRecords
    BY <1>1, ElementOfSeq DEF JobInv
  <2> QED
    BY <1>1, <2>1 DEF JobInv, JobRecords
<1>3. n = Number[parent] + 1 /\ Number[parent] \in Nat /\ n \in Nat /\ n <= high + 1
      /\ high \in Nat /\ ReorgDepth \in Nat
  <2>1. high \in Nat /\ ReorgDepth \in Nat /\ Number[parent] \in Nat
    BY <1>2, ChainAssumption DEF JobInv
  <2>2. n = Number[parent] + 1
    BY DEF NumberOf
  <2> HIDE DEF n, parent
  <2> QED
    BY <1>2, <2>1, <2>2
<1>4. n > Number[tip] => n + ReorgDepth >= high + 1
  <2>1. Number[tip] \in Nat /\ Number[tip] + ReorgDepth >= high
    BY ChainAssumption DEF JobInv
  <2> HIDE DEF n
  <2> QED
    BY <1>3, <2>1
<1>5. ASSUME NEW o \in {"lost", "stale"}, Finish(p, o), UNCHANGED <<recent, submitted>>
      PROVE  GuardInv'
  <2>1. /\ JobInv' /\ JobsKept /\ Len(jobs') = Len(jobs)
        /\ jobs'[j].outcome = o /\ \A k \in 1..Len(jobs) : k # j => jobs'[k] = jobs[k]
    BY <1>5, FinishFacts
  <2> HIDE DEF j
  <2>2. \A k \in 1..Len(jobs') : jobs'[k].outcome = "double_sign" =>
          k \in 1..Len(jobs) /\ jobs[k].outcome = "double_sign"
    BY <1>5, <2>1
  <2> QED
    BY <1>5, <2>1, <2>2, GuardCalm
<1>6. \A k, q : /\ SignedIn(recent, k, q) => Number[q] + 1 = k /\ Passed(q)
                /\ Signed(k, q) <=> SignedIn(recent, k, q)
  BY GuardSays
\* The guard is touched: what has to hold of the cache afterwards.
<1>7. ASSUME NEW o \in {"lost", "double_sign", "submitted"}, Finish(p, o),
             Heights(recent'), Len(recent') <= CacheSize, n > Number[tip],
             \A k, q : SignedIn(recent', k, q) =>
                         (k = n /\ q = parent /\ o \in {"lost", "submitted"}) \/ SignedIn(recent, k, q),
             \A k, q : SignedIn(recent, k, q) => SignedIn(recent', k, q) \/ k + ReorgDepth <= high,
             o = "submitted" => SignedIn(recent', n, parent) /\ ~SignedIn(recent, n, parent),
             o = "double_sign" => SignedIn(recent, n, parent),
             submitted' = IF o = "submitted" THEN submitted \cup {j} ELSE submitted
      PROVE  GuardInv'
  <2>1. /\ JobInv' /\ JobsKept /\ Len(jobs') = Len(jobs) /\ Len(jobs) \in Nat
        /\ jobs'[j].outcome = o /\ jobs'[j].parent = parent
        /\ \A k \in 1..Len(jobs) : k # j => jobs'[k] = jobs[k]
    BY <1>7, FinishFacts
  <2> HIDE DEF j, parent, n
  <2>2. \A q : Passed(q) => Passed(q)'
    BY <2>1, PassedKept
  <2>3. o \in {"lost", "submitted"} => \A q : q = parent => Passed(q)'
    BY <1>1, <2>1 DEF Passed
  <2>4. (\A i \in 1..Len(recent) : \A q \in recent[i].parents :
           Number[q] + 1 = recent[i].number /\ Passed(q))'
    <3> SUFFICES ASSUME NEW i \in 1..Len(recent'), NEW q \in recent'[i].parents
                 PROVE  Number[q] + 1 = recent'[i].number /\ Passed(q)'
      OBVIOUS
    <3> DEFINE k == recent'[i].number
    <3>1. SignedIn(recent', k, q)
      BY DEF SignedIn
    <3> HIDE DEF k
    <3>2. CASE k = n /\ q = parent /\ o \in {"lost", "submitted"}
      BY <1>3, <2>3, <3>2 DEF k
    <3>3. CASE SignedIn(recent, k, q)
      BY <1>6, <2>2, <3>3 DEF k
    <3> QED
      BY <1>7, <3>1, <3>2, <3>3
  <2>5. \A k \in submitted : k \in 1..Len(jobs) /\ jobs[k].outcome = "submitted"
    BY DEF GuardInv
  <2>6. \A k \in submitted : k # j /\ jobs'[k] = jobs[k]
    BY <1>1, <2>1, <2>5
  <2>7. \A k \in submitted' : k \in submitted \/ (k = j /\ o = "submitted")
    BY <1>7
  <2>8. submitted' \subseteq 1..Len(jobs')
    BY <1>1, <2>1, <2>5, <2>7
  <2>9. \A k \in submitted' : /\ jobs'[k].outcome = "submitted"
                              /\ \/ SignedIn(recent', Number[jobs'[k].parent] + 1, jobs'[k].parent)
                                 \/ Number[jobs'[k].parent] + 1 + ReorgDepth <= high
    <3> SUFFICES ASSUME NEW k \in submitted'
                 PROVE  /\ jobs'[k].outcome = "submitted"
                        /\ \/ SignedIn(recent', Number[jobs'[k].parent] + 1, jobs'[k].parent)
                           \/ Number[jobs'[k].parent] + 1 + ReorgDepth <= high
      OBVIOUS
    <3>1. CASE k \in submitted
      <4>1. \/ SignedIn(recent, Number[jobs[k].parent] + 1, jobs[k].parent)
            \/ Number[jobs[k].parent] + 1 + ReorgDepth <= high
        BY <3>1 DEF GuardInv
      <4>2. jobs'[k] = jobs[k] /\ jobs[k].outcome = "submitted"
        BY <2>5, <2>6, <3>1
      <4> QED
        BY <1>7, <4>1, <4>2
    <3>2. CASE k = j /\ o = "submitted"
      BY <1>3, <1>7, <2>1, <3>2
    <3> QED
      BY <2>7, <3>1, <3>2
  <2>10. ASSUME NEW k \in submitted, o = "submitted" PROVE jobs[k].parent # parent
    <3> SUFFICES ASSUME jobs[k].parent = parent PROVE FALSE
      OBVIOUS
    <3>1. SignedIn(recent, Number[parent] + 1, parent) \/ Number[parent] + 1 + ReorgDepth <= high
      BY DEF GuardInv
    <3>2. ~SignedIn(recent, Number[parent] + 1, parent)
      BY <1>3, <1>7, <2>10
    <3>3. ~(Number[parent] + 1 + ReorgDepth <= high)
      BY <1>3, <1>4, <1>7
    <3> QED
      BY <3>1, <3>2, <3>3
  <2>11. \A k, l \in submitted' : jobs'[k].parent = jobs'[l].parent => k = l
    <3>1. \A k, l \in submitted : jobs[k].parent = jobs[l].parent => k = l
      BY DEF GuardInv
    <3> QED
      BY <2>1, <2>6, <2>7, <2>10, <3>1
  <2>12. (\A k \in 1..Len(jobs) : jobs[k].outcome = "double_sign" => Passed(jobs[k].parent))'
    <3> SUFFICES ASSUME NEW k \in 1..Len(jobs'), jobs'[k].outcome = "double_sign"
                 PROVE  \E l \in 1..Len(jobs') : /\ jobs'[l].parent = jobs'[k].parent
                                                 /\ jobs'[l].outcome \in {"submitted", "lost"}
      BY DEF Passed
    <3>1. Passed(jobs[k].parent) /\ jobs'[k].parent = jobs[k].parent
      <4>1. CASE k = j
        <5>1. SignedIn(recent, n, parent)
          BY <1>7, <2>1, <4>1
        <5> QED
          BY <1>6, <2>1, <4>1, <5>1 DEF parent
      <4>2. CASE k # j
        BY <2>1, <4>2 DEF GuardInv
      <4> QED
        BY <4>1, <4>2
    <3>2. PICK l \in 1..Len(jobs) : jobs[l].parent = jobs[k].parent /\ jobs[l].outcome \in {"submitted", "lost"}
      BY <3>1 DEF Passed
    <3>3. jobs'[l] = jobs[l]
      BY <1>1, <2>1, <3>2
    <3> QED
      BY <2>1, <3>1, <3>2, <3>3
  <2>13. Heights(recent)' /\ Len(recent') <= CacheSize /\ high' = high
    BY <1>7 DEF Heights
  <2> QED
    BY <2>4, <2>8, <2>9, <2>11, <2>12, <2>13 DEF GuardInv, SignedIn
<1>8. Heights(recent) /\ Len(recent) <= CacheSize
  BY DEF GuardInv
<1>9. CASE ~works /\ Finish(p, "lost") /\ UNCHANGED <<recent, submitted>>
  BY <1>5, <1>9, FinishFacts
<1>10. CASE n <= Number[tip] /\ Finish(p, "stale") /\ UNCHANGED <<recent, submitted>>
  BY <1>5, <1>10, FinishFacts
<1>11. CASE /\ n > Number[tip] /\ Signed(n, parent) /\ Finish(p, "double_sign")
            /\ recent' = Refresh(n) /\ UNCHANGED submitted
  <2> HIDE DEF n, parent
  <2>1. SignedIn(recent, n, parent)
    BY <1>6, <1>11
  <2>2. /\ Heights(Refresh(n)) /\ Len(Refresh(n)) <= CacheSize
        /\ \A k, q : SignedIn(Refresh(n), k, q) <=> SignedIn(recent, k, q)
    BY <1>3, <1>4, <1>8, <1>11, <2>1, RefreshFacts
  <2>3. GuardInv'
    BY <1>7, <1>11, <2>1, <2>2
  <2> QED
    BY <1>11, <2>3, FinishFacts
<1>12. CASE /\ n > Number[tip] /\ ~Signed(n, parent) /\ recent' = Remember(n, parent)
            /\ IF works THEN Finish(p, "submitted") /\ submitted' = submitted \cup {j}
                        ELSE Finish(p, "lost") /\ UNCHANGED submitted
  <2> HIDE DEF n, parent
  <2>1. ~SignedIn(recent, n, parent)
    BY <1>6, <1>12
  <2>2. /\ Heights(recent') /\ Len(recent') <= CacheSize
        /\ \A k, q : SignedIn(recent', k, q) => (k = n /\ q = parent) \/ SignedIn(recent, k, q)
        /\ \A k, q : SignedIn(recent, k, q) => SignedIn(recent', k, q) \/ k + ReorgDepth <= high
        /\ SignedIn(recent', n, parent)
    BY <1>2, <1>3, <1>4, <1>8, <1>12, RememberFacts
  <2>3. CASE works
    <3>1. GuardInv'
      BY <1>7, <1>12, <2>1, <2>2, <2>3
    <3> QED
      BY <1>12, <2>3, <3>1, FinishFacts
  <2>4. CASE ~works
    <3>1. GuardInv'
      BY <1>7, <1>12, <2>1, <2>2, <2>4
    <3> QED
      BY <1>12, <2>4, <3>1, FinishFacts
  <2> QED
    BY <2>3, <2>4
<1> QED
  BY <1>9, <1>10, <1>11, <1>12 DEF submit_payload

\* Steps that move no payload.
LEMMA PayloadCalm ==
  ASSUME JobInv, JobInv', PayloadInv, JobsKept, UNCHANGED <<payloads, delayed>>,
         \A j \in 1..Len(jobs) : jobs[j].outcome = "sent" => jobs'[j].outcome = "sent"
  PROVE  PayloadInv'
<1>1. Len(jobs) \in Nat /\ Len(jobs') \in Nat
  BY LenProperties DEF JobInv
<1>2. \A p : Sent(p) => Sent(p)'
  BY <1>1 DEF Sent, JobsKept
<1> QED
  BY <1>2 DEF PayloadInv, Sent

\* A job that returns.
LEMMA ReturnKeeps ==
  ASSUME BidInv, JobInv, PayloadInv, GuardInv, NEW j \in DOMAIN jobs, JobReturns(j)
  PROVE  /\ JobInv' /\ PayloadInv' /\ GuardInv'
         /\ \A k \in 1..Len(jobs) : k # j => jobs'[k] = jobs[k]
         /\ jobs'[j].outcome = "sent" =>
              /\ Len(payloads') \in Nat \ {0} /\ payloads'[Len(payloads')].job = j
              /\ BestFees(j, payloads'[Len(payloads')].fees)
<1>1. job_returns(j) /\ UNCHANGED <<tip, high, events, mining_queue, delayed, recent, submitted>>
      /\ UNCHANGED chainVars
  BY DEF JobReturns, job_returns, chainVars
<1>2. PICK m : /\ Advances(j, m) /\ jobs[j].outcome = "running"
               /\ \/ /\ m.outcome = "sent"
                     /\ \E fees : BestFees(j, fees)
                                  /\ payloads' = Append(payloads, [job |-> j, fees |-> fees])
                  \/ m.outcome \in {"failed", "empty_handed"} /\ payloads' = payloads
  BY <1>1, ReturnFacts
<1>3. /\ JobInv' /\ JobsKept /\ Len(jobs') = Len(jobs) /\ Len(jobs) \in Nat
      /\ jobs'[j] = m /\ \A k \in 1..Len(jobs) : k # j => jobs'[k] = jobs[k]
  BY <1>1, <1>2, AdvanceFacts
<1>4. j \in 1..Len(jobs)
  BY <1>2 DEF Advances
<1>5. GuardInv'
  <2>1. \A k \in 1..Len(jobs') : jobs'[k].outcome = "double_sign" =>
          k \in 1..Len(jobs) /\ jobs[k].outcome = "double_sign"
    BY <1>2, <1>3
  <2> QED
    BY <1>1, <1>3, <2>1, GuardCalm
<1>6. \A k \in 1..Len(jobs) : jobs[k].outcome = "sent" => jobs'[k].outcome = "sent"
  BY <1>2, <1>3
<1>7. CASE m.outcome \in {"failed", "empty_handed"} /\ payloads' = payloads
  <2>1. PayloadInv'
    BY <1>1, <1>3, <1>6, <1>7, PayloadCalm
  <2> QED
    BY <1>3, <1>5, <1>7, <2>1
<1>8. ASSUME m.outcome = "sent", NEW fees, BestFees(j, fees),
             payloads' = Append(payloads, [job |-> j, fees |-> fees])
      PROVE  /\ PayloadInv' /\ Len(payloads') \in Nat \ {0}
             /\ payloads'[Len(payloads')].job = j /\ payloads'[Len(payloads')].fees = fees
  <2> DEFINE e == [job |-> j, fees |-> fees]
             L == Len(payloads)
  <2>1. e \in Payloads /\ e.job = j /\ e.fees = fees
    BY <1>3, <1>4, <1>8 DEF Payloads, BestFees
  <2> HIDE DEF e
  <2>2. L \in Nat /\ payloads \in Seq(Payloads)
    BY LenProperties DEF PayloadInv
  <2>3. /\ payloads' \in Seq(Payloads) /\ Len(payloads') = L + 1 /\ payloads'[L + 1] = e
        /\ \A i \in 1..L : payloads'[i] = payloads[i]
    BY <1>8, <2>1, <2>2, AppendProperties DEF e
  <2>4. \A i \in 1..L : payloads[i].job # j /\ Sent(payloads[i])
    BY <1>2 DEF PayloadInv, Sent
  <2>5. \A p \in delayed : p.job # j /\ Sent(p)
    BY <1>2 DEF PayloadInv, Sent
  <2>6. \A p : Sent(p) => Sent(p)'
    BY <1>3, <1>6 DEF Sent
  <2>7. \A i \in 1..(L + 1) : i \in 1..L \/ i = L + 1
    BY <2>2
  <2>8. \A p : p.job = j => Sent(p)'
    BY <1>3, <1>4, <1>8 DEF Sent
  <2> HIDE DEF L
  <2>9. \A i \in 1..(L + 1) : payloads'[i].job \in 1..Len(jobs') /\ jobs'[payloads'[i].job].outcome = "sent"
    BY <2>1, <2>3, <2>4, <2>6, <2>7, <2>8 DEF Sent
  <2>10. \A i, k \in 1..(L + 1) : payloads'[i].job = payloads'[k].job => i = k
    <3>1. \A i, k \in 1..L : payloads[i].job = payloads[k].job => i = k
      BY DEF PayloadInv, L
    <3> QED
      BY <2>1, <2>3, <2>4, <2>7, <3>1
  <2>11. \A i \in 1..(L + 1), p \in delayed : payloads'[i].job # p.job
    <3>1. \A i \in 1..L, p \in delayed : payloads[i].job # p.job
      BY DEF PayloadInv, L
    <3> QED
      BY <2>1, <2>3, <2>5, <2>7, <3>1
  <2>12. \A p \in delayed : p.job \in 1..Len(jobs') /\ jobs'[p.job].outcome = "sent"
    BY <2>5, <2>6 DEF Sent
  <2>13. PayloadInv'
    BY <1>1, <2>3, <2>9, <2>10, <2>11, <2>12 DEF PayloadInv, Sent
  <2>14. Len(payloads') \in Nat \ {0}
    BY <2>2, <2>3 DEF L
  <2> QED
    BY <2>1, <2>3, <2>13, <2>14
<1> QED
  BY <1>2, <1>3, <1>5, <1>7, <1>8

\* A payload leaves the channel, for a delay task or to be submitted.
LEMMA TakeKeeps ==
  ASSUME JobInv, PayloadInv, GuardInv, TakePayload
  PROVE  /\ JobInv' /\ PayloadInv' /\ GuardInv'
         /\ \A k \in 1..Len(jobs) : jobs'[k].outcome = "sent" => jobs[k].outcome = "sent"
<1> DEFINE p == Head(payloads)
           L == Len(payloads)
<1>1. PICK now \in BOOLEAN, works \in BOOLEAN : take_payload(now, works)
  BY DEF TakePayload
<1>2. UNCHANGED <<tip, high, events, mining_queue>>
  BY <1>1 DEF TakePayload, take_payload, chainVars
<1>3. payloads \in Seq(Payloads) /\ payloads # <<>> /\ payloads' = Tail(payloads)
  BY <1>1 DEF take_payload, PayloadInv
<1>4. /\ p \in Payloads /\ payloads' \in Seq(Payloads) /\ Len(payloads') = L - 1
      /\ \A i \in 1..Len(payloads') : payloads'[i] = payloads[i + 1]
      /\ L \in Nat /\ L > 0 /\ p = payloads[1]
  BY <1>3, HeadTailProperties, EmptySeq, LenProperties
<1>5. \/ submit_payload(p, works) /\ UNCHANGED delayed
      \/ delayed' = delayed \cup {p} /\ UNCHANGED <<jobs, recent, submitted>>
  BY <1>1 DEF take_payload
<1> HIDE DEF p
<1>6. 1 \in 1..L /\ \A i \in 1..(L - 1) : i + 1 \in 1..L /\ i + 1 # 1 /\ payloads'[i] = payloads[i + 1]
  BY <1>4
<1> HIDE DEF L
<1>7. Sent(p) /\ \A i \in 1..(L - 1) : payloads'[i].job # p.job /\ Sent(payloads'[i])
  BY <1>4, <1>6 DEF PayloadInv, L
<1>8. \A d \in delayed : d.job # p.job /\ Sent(d)
  BY <1>4, <1>6 DEF PayloadInv, L
<1>9. \A i, k \in 1..(L - 1) : payloads'[i].job = payloads'[k].job => i = k
  <2>1. \A i, k \in 1..L : payloads[i].job = payloads[k].job => i = k
    BY DEF PayloadInv, L
  <2>2. \A i, k \in 1..(L - 1) : i + 1 = k + 1 => i = k
    BY <1>4
  <2> QED
    BY <1>6, <2>1, <2>2
<1>10. \A i \in 1..(L - 1), d \in delayed : payloads'[i].job # d.job
  BY <1>6 DEF PayloadInv, L
<1>11. delayed \subseteq Payloads /\ \A d, e \in delayed : d.job = e.job => d = e
  BY DEF PayloadInv
<1>12. CASE submit_payload(p, works) /\ UNCHANGED delayed
  <2>1. /\ JobInv' /\ GuardInv' /\ Len(jobs') = Len(jobs)
        /\ \A k \in 1..Len(jobs) : k # p.job => jobs'[k] = jobs[k]
        /\ jobs'[p.job].outcome # "sent"
    BY <1>2, <1>7, <1>12, SubmitKeeps
  <2>2. \A d : Sent(d) /\ d.job # p.job => d.job \in 1..Len(jobs') /\ jobs'[d.job].outcome = "sent"
    BY <2>1 DEF Sent
  <2>3. PayloadInv'
    BY <1>4, <1>7, <1>8, <1>9, <1>10, <1>11, <1>12, <2>2 DEF PayloadInv, Sent
  <2> QED
    BY <1>7, <2>1, <2>3 DEF Sent
<1>13. CASE delayed' = delayed \cup {p} /\ UNCHANGED <<jobs, recent, submitted>>
  <2>1. high' >= high
    BY <1>2 DEF JobInv
  <2>2. JobInv' /\ JobsKept
    BY <1>2, <1>13, <2>1, SameJobs DEF JobInv
  <2>3. GuardInv'
    BY <1>13, <2>2, GuardCalm
  <2>4. \A d : Sent(d) => d.job \in 1..Len(jobs') /\ jobs'[d.job].outcome = "sent"
    BY <1>13 DEF Sent
  <2>5. PayloadInv'
    BY <1>4, <1>7, <1>8, <1>9, <1>10, <1>11, <1>13, <2>4 DEF PayloadInv, Sent
  <2> QED
    BY <1>13, <2>2, <2>3, <2>5
<1> QED
  BY <1>5, <1>12, <1>13

\* The delay of a payload is over.
LEMMA DelayKeeps ==
  ASSUME JobInv, PayloadInv, GuardInv, NEW p \in delayed, DelayOver(p)
  PROVE  /\ JobInv' /\ PayloadInv' /\ GuardInv'
         /\ \A k \in 1..Len(jobs) : jobs'[k].outcome = "sent" => jobs[k].outcome = "sent"
<1>1. PICK works \in BOOLEAN : delay_over(p, works)
  BY DEF DelayOver
<1>2. /\ UNCHANGED <<tip, high, events, mining_queue, payloads>>
      /\ delayed' = delayed \ {p} /\ submit_payload(p, works)
  BY <1>1 DEF DelayOver, delay_over, chainVars
<1>3. Sent(p)
  BY DEF PayloadInv
<1>4. /\ JobInv' /\ GuardInv' /\ Len(jobs') = Len(jobs)
      /\ \A k \in 1..Len(jobs) : k # p.job => jobs'[k] = jobs[k]
      /\ jobs'[p.job].outcome # "sent"
  BY <1>2, <1>3, SubmitKeeps
<1>5. \A d : Sent(d) /\ d.job # p.job => d.job \in 1..Len(jobs') /\ jobs'[d.job].outcome = "sent"
  BY <1>4 DEF Sent
<1>6. \A i \in 1..Len(payloads) : payloads[i].job # p.job /\ Sent(payloads[i])
  BY DEF PayloadInv
<1>7. \A d \in delayed' : d \in delayed /\ d.job # p.job /\ Sent(d)
  BY <1>2 DEF PayloadInv
<1>8. PayloadInv'
  BY <1>2, <1>5, <1>6, <1>7 DEF PayloadInv, Sent
<1> QED
  BY <1>3, <1>4, <1>8 DEF Sent

----------------------------------------------------------------------------
(* The miner as a whole. *)

MinerInv == BidInv /\ JobInv /\ PayloadInv /\ GuardInv

\* A calm step keeps all of it.
LEMMA CalmKeeps ==
  ASSUME JobInv, PayloadInv, GuardInv, Calm
  PROVE  /\ JobInv' /\ PayloadInv' /\ GuardInv'
         /\ \A k \in 1..Len(jobs) : jobs'[k].outcome = "sent" => jobs[k].outcome = "sent"
<1>1. JobInv' /\ JobsKept /\ UNCHANGED <<payloads, delayed, recent, submitted>>
  BY DEF Calm
<1>2. PayloadInv'
  BY <1>1, PayloadCalm DEF Calm
<1>3. GuardInv'
  <2>1. \A j \in 1..Len(jobs') : jobs'[j].outcome = "double_sign" =>
          j \in 1..Len(jobs) /\ jobs[j].outcome = "double_sign"
    BY DEF Calm
  <2> QED
    BY <1>1, <2>1, GuardCalm
<1>4. Len(jobs) \in Nat /\ Len(jobs') \in Nat
  BY <1>1, LenProperties DEF JobInv
<1>5. \A k \in 1..Len(jobs) : jobs'[k].outcome = "sent" => jobs[k].outcome = "sent"
  BY <1>1, <1>4 DEF Calm, JobsKept
<1> QED
  BY <1>1, <1>2, <1>3, <1>5

\* Every step keeps the jobs, the payloads and the guard, and a job's payload is sent only
\* when the job returns.
LEMMA StepKeeps ==
  ASSUME MinerInv, [Next]_vars
  PROVE  /\ JobInv' /\ PayloadInv' /\ GuardInv'
         /\ \A j \in 1..Len(jobs) : Running(j) /\ jobs'[j].outcome = "sent" =>
              /\ Len(payloads') \in Nat \ {0} /\ payloads'[Len(payloads')].job = j
              /\ BestFees(j, payloads'[Len(payloads')].fees)
<1>0. BidInv /\ JobInv /\ PayloadInv /\ GuardInv
  BY DEF MinerInv
<1>1. ASSUME Calm PROVE /\ JobInv' /\ PayloadInv' /\ GuardInv'
                        /\ \A k \in 1..Len(jobs) : jobs'[k].outcome = "sent" => ~Running(k)
  BY <1>0, <1>1, CalmKeeps DEF Running
<1>2. CASE UNCHANGED <<chainVars, minerVars>>
  BY <1>0, <1>1, <1>2, IdleCalm
<1>3. CASE \E b \in Blocks : NewTip(b)
  BY <1>0, <1>1, <1>3, TipCalm
<1>4. CASE MinerStep
  <2>1. UNCHANGED chainVars
    BY <1>4 DEF MinerStep
  <2>2. ASSUME NEW fresh \in BOOLEAN, NEW answer \in {"yes", "no", "error"},
               startup(fresh) \/ subscribe \/ on_event(fresh, answer)
        PROVE  Calm
    BY <1>0, <2>1, <2>2, WorkerCalm
  <2>3. ASSUME NEW readable \in BOOLEAN, take_context(readable) PROVE Calm
    BY <1>0, <2>1, <2>3, ContextCalm
  <2>4. ASSUME NEW j \in DOMAIN jobs,
               start_build(j) \/ rebuild(j) \/ abort_job(j) \/ \E f \in Fees : build_done(j, f)
        PROVE  Calm
    BY <1>0, <2>1, <2>4, BuildCalm
  <2>5. Calm
    BY <1>4, <2>2, <2>3, <2>4 DEF MinerStep
  <2> QED
    BY <1>1, <2>5
<1>5. ASSUME NEW j \in DOMAIN jobs, JobReturns(j)
      PROVE  /\ JobInv' /\ PayloadInv' /\ GuardInv'
             /\ \A k \in 1..Len(jobs) : Running(k) /\ jobs'[k].outcome = "sent" =>
                  /\ Len(payloads') \in Nat \ {0} /\ payloads'[Len(payloads')].job = k
                  /\ BestFees(k, payloads'[Len(payloads')].fees)
  <2>1. /\ JobInv' /\ PayloadInv' /\ GuardInv'
        /\ \A k \in 1..Len(jobs) : k # j => jobs'[k] = jobs[k]
        /\ jobs'[j].outcome = "sent" =>
             /\ Len(payloads') \in Nat \ {0} /\ payloads'[Len(payloads')].job = j
             /\ BestFees(j, payloads'[Len(payloads')].fees)
    BY <1>0, <1>5, ReturnKeeps
  <2>2. ASSUME NEW k \in 1..Len(jobs), Running(k), jobs'[k].outcome = "sent" PROVE k = j
    <3>1. jobs[k].outcome # "sent"
      BY <2>2 DEF Running
    <3> QED
      BY <2>1, <2>2, <3>1
  <2> QED
    BY <2>1, <2>2
<1>6. CASE TakePayload
  BY <1>0, <1>6, TakeKeeps DEF Running
<1>7. CASE \E p \in delayed : DelayOver(p)
  BY <1>0, <1>7, DelayKeeps DEF Running
<1>8. \/ UNCHANGED <<chainVars, minerVars>> \/ (\E b \in Blocks : NewTip(b)) \/ MinerStep
      \/ (\E j \in DOMAIN jobs : JobReturns(j)) \/ TakePayload \/ (\E p \in delayed : DelayOver(p))
  BY DEF Next, vars, BidStep
<1> QED
  BY <1>2, <1>3, <1>4, <1>5, <1>6, <1>7, <1>8

\* The inductive invariant: the best bids, the jobs and the highest tip, where every sent
\* payload is, and what the guard remembers.
THEOREM MinerInvariant == Spec => []MinerInv
<1>1. Init => MinerInv
  <2> SUFFICES ASSUME Init PROVE JobInv /\ PayloadInv /\ GuardInv /\ BidInv
    BY DEF MinerInv
  <2>1. tip \in Blocks /\ Number[tip] = 0 /\ high = 0 /\ ReorgDepth \in Nat /\ CacheSize \in Nat
    BY ChainAssumption, MinerAssumption DEF Init, ChainInit
  <2>2. /\ events = <<>> /\ mining_queue = <<>> /\ jobs = <<>> /\ payloads = <<>>
        /\ delayed = {} /\ recent = <<>> /\ submitted = {}
    BY DEF Init, MinerInit
  <2>3. Len(<<>>) = 0 /\ \A S : <<>> \in Seq(S)
    BY EmptySeq
  <2>4. JobInv
    BY <2>1, <2>2, <2>3 DEF JobInv, OneLiveJob
  <2>5. PayloadInv
    BY <2>2, <2>3 DEF PayloadInv
  <2>6. GuardInv
    BY <2>1, <2>2, <2>3 DEF GuardInv, Heights
  <2>7. BidInv
    BY BidStarts
  <2> QED
    BY <2>4, <2>5, <2>6, <2>7
<1>2. MinerInv /\ [Next]_vars => MinerInv'
  <2>1. ASSUME MinerInv, [Next]_vars PROVE MinerInv'
    BY <2>1, StepKeeps, BidStepKeeps DEF MinerInv
  <2> QED
    BY <2>1
<1> QED
  BY <1>1, <1>2, PTL DEF Spec

\* try_mine_block: of any number of jobs at most one is running that has not been told to
\* stop, and it is the newest.
THEOREM OneJobLives == Spec => []OneLiveJob
<1>1. MinerInv => OneLiveJob
  BY DEF MinerInv, JobInv
<1> QED
  BY <1>1, MinerInvariant, PTL

\* try_return_best_payload, bid_simulate: what a job sends earns at least as much as every
\* payload it built and every simulation of a bid on its parent that ran to its end,
\* whatever bids come in, in whatever order they are simulated, interrupted or fail.
THEOREM BestPayloadSent == Spec => BestPayloadWins
<1> DEFINE A == \A j \in DOMAIN jobs :
                  Running(j) /\ jobs'[j].outcome = "sent" =>
                    LET sent == payloads'[Len(payloads')]
                    IN /\ sent.job = j
                       /\ \A f \in jobs[j].built \cup earned[jobs[j].parent] : sent.fees >= f
<1>1. MinerInv /\ [Next]_vars => [A]_vars
  <2> SUFFICES ASSUME MinerInv, [Next]_vars, NEW j \in DOMAIN jobs, Running(j), jobs'[j].outcome = "sent"
               PROVE  LET sent == payloads'[Len(payloads')]
                      IN /\ sent.job = j
                         /\ \A f \in jobs[j].built \cup earned[jobs[j].parent] : sent.fees >= f
    OBVIOUS
  <2> DEFINE sent == payloads'[Len(payloads')]
             p == jobs[j].parent
  <2>1. j \in 1..Len(jobs) /\ p \in Blocks
    <3>1. j \in 1..Len(jobs) /\ jobs[j] \in JobRecords
      BY LenProperties, ElementOfSeq DEF MinerInv, JobInv
    <3> QED
      BY <3>1 DEF JobRecords
  <2>2. sent.job = j /\ BestFees(j, sent.fees)
    BY <2>1, StepKeeps
  <2> HIDE DEF sent
  <2>3. ASSUME NEW f \in earned[p] PROVE sent.fees >= f
    <3>1. f \in Nat /\ best_bid[p] # NoBid /\ best_bid[p] \in BestBids \cup {NoBid}
      BY <2>1 DEF MinerInv, BidInv, BestBidIsBest
    <3>2. best_bid[p].reward \in Nat /\ best_bid[p].fees \in Nat
      BY <3>1 DEF BestBids
    <3>3. best_bid[p].reward >= f /\ best_bid[p].fees >= best_bid[p].reward
      BY <2>1, <3>1 DEF MinerInv, BidInv, BestBidIsBest, FeesCover
    <3>4. sent.fees \in Nat /\ sent.fees >= best_bid[p].fees
      BY <2>2, <3>1 DEF BestFees
    <3> QED
      BY <3>1, <3>2, <3>3, <3>4
  <2> QED
    BY <2>2, <2>3 DEF BestFees, sent
<1> QED
  BY <1>1, MinerInvariant, PTL DEF Spec, BestPayloadWins

\* The guard's invariant rules out evidence.
LEMMA GuardSuffices ==
  ASSUME JobInv, GuardInv
  PROVE  NoDoubleSign
<1>1. DOMAIN jobs = 1..Len(jobs)
  BY LenProperties DEF JobInv
<1>2. ASSUME NEW j \in submitted, NEW k \in submitted
      PROVE  double_sign_evidence_validation_run(ChainId, HeaderOf(j), HeaderOf(k)) # "evidence"
  <2> DEFINE h1 == HeaderOf(j)
             h2 == HeaderOf(k)
  <2>1. h1.fields = 15 /\ h2.fields = 15 /\ h1.parent_hash = jobs[j].parent /\ h2.parent_hash = jobs[k].parent
    BY DEF HeaderOf
  <2>2. h1.parent_hash # h2.parent_hash \/ h1.seal = h2.seal
    BY <2>1 DEF GuardInv
  <2> HIDE DEF h1, h2
  <2>3. double_sign_evidence_validation_run(ChainId, h1, h2) # "evidence"
    BY <2>1, <2>2 DEF double_sign_evidence_validation_run, Decodes
  <2> QED
    BY <2>3 DEF h1, h2
<1>3. ASSUME NEW j \in DOMAIN jobs, jobs[j].outcome = "double_sign"
      PROVE  \E k \in DOMAIN jobs \ {j} : /\ jobs[k].parent = jobs[j].parent
                                          /\ jobs[k].outcome \in {"submitted", "lost"}
  <2>1. Passed(jobs[j].parent)
    BY <1>1, <1>3 DEF GuardInv
  <2> QED
    BY <1>1, <1>3, <2>1 DEF Passed
<1> QED
  BY <1>2, <1>3 DEF NoDoubleSign

\* submit_payload: no two blocks that the process sends out are evidence of a double sign,
\* whatever reorgs of up to ReorgDepth blocks there are, when the cache holds more than
\* twice as many heights; and a block is refused only when another on its parent passed.
THEOREM NoEvidence == Spec => []NoDoubleSign
<1>1. MinerInv => NoDoubleSign
  BY GuardSuffices DEF MinerInv
<1> QED
  BY <1>1, MinerInvariant, PTL
============================================================================
