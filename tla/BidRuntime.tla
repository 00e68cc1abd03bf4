----------------------------- MODULE BidRuntime -----------------------------
(***************************************************************************)
(* A builder's bid: how its transactions and its signer are read from what *)
(* was sent (rpc/mev.rs) and how its block is put together: the bid's own  *)
(* transactions, those merged from the pool, and the one that pays the     *)
(* builder (BidRuntime of node/miner/bid_simulator.rs).                    *)
(*                                                                         *)
(* A transaction is [id, sender, nonce, gas, gas_limit, tip, blobs,        *)
(* reverts, chain_id]; its bytes are [encoding, tx]. The base fee of BSC   *)
(* is zero, so the fees of a block and what its system account receives    *)
(* are one number.                                                         *)
(***************************************************************************)
EXTENDS Integers, Sequences, FiniteSets, SequencesExt

CONSTANTS
  Bids,                   \* names of what builders send
  BidArgs,                \* BidArgs[b]: the arguments of mev_sendBid
  Builders,
  PoolTxs,                \* the pool's transactions, the best first
  ChainId,
  NoSigner,
  BlockGasLimit,
  SystemTxsGas,           \* the reserve for system transactions
  PAY_BID_TX_GAS_LIMIT,
  TX_GAS,
  MaxBlobCount

None == -1
Failed == [ok |-> FALSE]

\* The transactions there are: those of the pool and those that bids bring.
KnownTxs ==
  ToSet(PoolTxs) \cup
    UNION {{bytes.tx : bytes \in ToSet(BidArgs[b].raw_bid.txs) \cup {BidArgs[b].pay_bid_tx}} : b \in Bids}

\* A transaction does not use more gas than it says, and its hash covers sender and nonce.
ASSUME TxAssumption ==
  /\ PoolTxs \in Seq(KnownTxs)
  /\ {BlockGasLimit, SystemTxsGas, PAY_BID_TX_GAS_LIMIT, TX_GAS, MaxBlobCount} \subseteq Nat
  /\ \A tx \in KnownTxs : /\ {tx.gas, tx.gas_limit, tx.tip, tx.blobs} \subseteq Nat
                          /\ tx.gas <= tx.gas_limit
  /\ \A tx, t \in KnownTxs : tx.id = t.id => tx.sender = t.sender /\ tx.nonce = t.nonce
  /\ \A b \in Bids : LET raw == BidArgs[b].raw_bid
                     IN /\ raw.txs \in Seq(ToSet(raw.txs))
                        /\ raw.builder_fee \in Nat \cup {None} /\ raw.gas_used \in Nat

----------------------------------------------------------------------------
(* Reading a bid. *)

\* A transaction of another chain or without a signer is refused.
Acceptable(tx) == tx.chain_id \in {None, ChainId} /\ tx.sender # NoSigner

parse_transaction(bytes) ==
  IF bytes.encoding = "plain" /\ Acceptable(bytes.tx)
  THEN [ok |-> TRUE, tx |-> bytes.tx, sidecar |-> FALSE] ELSE Failed

\* A blob transaction may come with its sidecar.
decode_transaction_with_sidecar(bytes) ==
  IF bytes.encoding = "sidecar"
  THEN IF Acceptable(bytes.tx) THEN [ok |-> TRUE, tx |-> bytes.tx, sidecar |-> TRUE] ELSE Failed
  ELSE parse_transaction(bytes)

\* Without builder_fee the builder asks for nothing.
BuilderFee(raw) == IF raw.builder_fee = None THEN 0 ELSE raw.builder_fee

\* The hash covers the raw bid with its fee, not the transaction that pays the builder.
calculate_raw_bid_hash(raw) == [raw EXCEPT !.builder_fee = BuilderFee(raw)]

recover_builder_address(args) ==
  IF args.signature.of = calculate_raw_bid_hash(args.raw_bid) THEN args.signature.by ELSE NoSigner

\* The bid, with the paying transaction as its last one.
to_bid(args) ==
  LET raw == args.raw_bid
      decoded == [i \in DOMAIN raw.txs |-> decode_transaction_with_sidecar(raw.txs[i])]
      pay == decode_transaction_with_sidecar(args.pay_bid_tx)
      all == Append(decoded, pay)
  IN IF \/ \E i \in DOMAIN all : ~all[i].ok
        \/ Cardinality(raw.un_revertible) > Len(raw.txs)
     THEN Failed
     ELSE [ok |-> TRUE, builder |-> recover_builder_address(args),
           block_number |-> raw.block_number, parent |-> raw.parent_hash,
           txs |-> [i \in DOMAIN all |-> all[i].tx],
           blob_sidecars |-> {all[i].tx.id : i \in {j \in DOMAIN all : all[j].sidecar}},
           un_revertible |-> raw.un_revertible, gas_used |-> raw.gas_used,
           gas_fee |-> raw.gas_fee, builder_fee |-> BuilderFee(raw),
           bid_hash |-> calculate_raw_bid_hash(raw)]

Bid == [b \in Bids |-> to_bid(BidArgs[b])]

Own(b) == Front(Bid[b].txs)
PayBid(b) == Last(Bid[b].txs)

----------------------------------------------------------------------------
(* Running it. *)

Sum(amounts) ==
  LET sum[i \in 0 .. Len(amounts)] == IF i = 0 THEN 0 ELSE sum[i - 1] + amounts[i]
  IN sum[Len(amounts)]

GasOf(txs) == Sum([i \in DOMAIN txs |-> txs[i].gas])
FeesOf(txs) == Sum([i \in DOMAIN txs |-> txs[i].tip * txs[i].gas])
BlobsOf(txs) == Sum([i \in DOMAIN txs |-> txs[i].blobs])

\* What BidRuntime keeps of a block being put together.
Runtimes ==
  [bid : Bids, txs : Seq(KnownTxs), block_blob_count : Nat,
   blob_sidecars : Seq([tx : {tx.id : tx \in KnownTxs}, tx_index : Nat]),
   over : BOOLEAN, err : BOOLEAN]

NewRuntime(b) ==
  [bid |-> b, txs |-> <<>>, block_blob_count |-> 0, blob_sidecars |-> <<>>, over |-> FALSE,
   err |-> FALSE]

\* The EVM takes a transaction that is the next of its sender and fits into the block.
Executes(rt, tx) ==
  /\ tx.nonce = Cardinality({i \in DOMAIN rt.txs : rt.txs[i].sender = tx.sender})
  /\ GasOf(rt.txs) + tx.gas_limit <= BlockGasLimit

\* What cannot be in the block: left out if it is from the pool, the end of the bid if not.
LeaveOut(rt, from_pool) == IF from_pool THEN rt ELSE [rt EXCEPT !.err = TRUE]

\* Only the bid's sidecars are added, each with its place in the list being committed.
WithSidecar(rt, tx, index) ==
  IF tx.id \in Bid[rt.bid].blob_sidecars
  THEN [rt EXCEPT !.blob_sidecars = Append(@, [tx |-> tx.id, tx_index |-> index])] ELSE rt

\* MUTANT: the gas limit of the block is left to the EVM.
commit_one_tooBig(rt, tx, index, limit, from_pool) ==
  LET counted == [rt EXCEPT !.block_blob_count = @ + tx.blobs]
  IN IF counted.block_blob_count > MaxBlobCount THEN LeaveOut(rt, from_pool)
     ELSE IF ~Executes(rt, tx) THEN LeaveOut(counted, from_pool)
     ELSE [WithSidecar(counted, tx, index) EXCEPT !.txs = Append(@, tx)]

\* One transaction. Its blobs stay counted when it does not execute.
commit_one(rt, tx, index, limit, from_pool) ==
  LET counted == [rt EXCEPT !.block_blob_count = @ + tx.blobs]
  IN IF from_pool /\ GasOf(rt.txs) + tx.gas_limit > limit THEN rt
     ELSE IF tx.blobs > 0 /\ counted.block_blob_count > MaxBlobCount THEN LeaveOut(rt, from_pool)
     ELSE IF ~Executes(rt, tx) THEN LeaveOut(counted, from_pool)
     ELSE [WithSidecar(counted, tx, index) EXCEPT !.txs = Append(@, tx)]

\* The list, from the pool only while there is room for a transfer. A block that is over
\* the limit already makes the unsigned difference large, not small.
commit_transaction_recovered(runtime, txs, limit, from_pool) ==
  LET full(rt) == from_pool /\ limit - GasOf(rt.txs) \in 0 .. TX_GAS - 1
      step(rt, i) == IF rt.err \/ rt.over THEN rt
                     ELSE IF full(rt) THEN [rt EXCEPT !.over = TRUE]
                     ELSE commit_one(rt, txs[i], i, limit, from_pool)
      run[i \in 0 .. Len(txs)] == IF i = 0 THEN runtime ELSE step(run[i - 1], i)
  IN run[Len(txs)]

commit_transaction(rt, txs, limit) == commit_transaction_recovered(rt, txs, limit, FALSE)

\* The senders of the pool, in the arbitrary order of a hash map.
SenderOrders == SetToSeqs({PoolTxs[i].sender : i \in DOMAIN PoolTxs})

\* The transactions of one sender, in the pool's order.
OfSender(s) ==
  LET take[i \in 0 .. Len(PoolTxs)] ==
        IF i = 0 THEN <<>>
        ELSE IF PoolTxs[i].sender = s THEN Append(take[i - 1], PoolTxs[i]) ELSE take[i - 1]
  IN take[Len(PoolTxs)]

\* fill_tx_from_pool: of each sender what comes after its last transaction in the bid,
\* until the time is up after `cut` of them.
fill_tx_from_pool(rt, order, limit, cut) ==
  LET of(s) == OfSender(s)
      inBid(s) == {i \in DOMAIN of(s) : \E k \in DOMAIN Own(rt.bid) : Own(rt.bid)[k].id = of(s)[i].id}
      rest(s) == SubSeq(of(s), 1 + (IF inBid(s) = {} THEN 0
                                    ELSE CHOOSE i \in inBid(s) : \A k \in inBid(s) : k <= i),
                        Len(of(s)))
      pending_txs == FlattenSeq([i \in DOMAIN order |-> rest(order[i])])
      taken == IF cut < Len(pending_txs) THEN cut ELSE Len(pending_txs)
  IN [commit_transaction_recovered(rt, SubSeq(pending_txs, 1, taken), limit, TRUE)
        EXCEPT !.over = FALSE]

\* What is left for transactions beside the reserve and the paying one.
bid_gas_limit == BlockGasLimit - SystemTxsGas - PAY_BID_TX_GAS_LIMIT

\* The three parts of a simulation.
BidCommitted(b) == commit_transaction(NewRuntime(b), Own(b), bid_gas_limit)
Merged(b, order, cut) == fill_tx_from_pool(BidCommitted(b), order, bid_gas_limit, cut)
BidPaid(rt) ==
  commit_transaction([rt EXCEPT !.over = FALSE], <<PayBid(rt.bid)>>,
                     bid_gas_limit + PAY_BID_TX_GAS_LIMIT)

\* No transaction that must not revert has reverted.
UnRevertibleKept(rt) ==
  \A i \in DOMAIN rt.txs : rt.txs[i].reverts => rt.txs[i].id \notin Bid[rt.bid].un_revertible
=============================================================================
