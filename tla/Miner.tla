------------------------------- MODULE Miner -------------------------------
(***************************************************************************)
(* The miner as a whole: the chain it watches, its workers and payload     *)
(* jobs, and the bids that compete with its own payloads.                  *)
(***************************************************************************)
EXTENDS MinerPipeline, DoubleSign

vars == <<chainVars, bidVars, minerVars>>

Init == ChainInit /\ BidInit /\ MinerInit

NewTip(b) == SetTip(b) /\ announce(b) /\ UNCHANGED bidVars

BidStep ==
  /\ \/ \E x \in Builders : add_builder(x) \/ remove_builder(x)
     \/ \E b \in Bids, turnKnown \in BOOLEAN : send_bid(b, turnKnown)
     \/ \E known, roomLeft \in BOOLEAN : commit_new_bid(known, roomLeft)
     \/ bid_simulate
     \/ clear
  /\ UNCHANGED <<chainVars, minerVars>>

JobReturns(j) == job_returns(j) /\ UNCHANGED <<chainVars, bidVars>>

TakePayload ==
  /\ \E now, works \in BOOLEAN : take_payload(now, works)
  /\ UNCHANGED <<chainVars, bidVars>>

DelayOver(p) ==
  /\ \E works \in BOOLEAN : delay_over(p, works)
  /\ UNCHANGED <<chainVars, bidVars>>

MinerStep ==
  /\ \/ \E fresh \in BOOLEAN : startup(fresh)
     \/ subscribe
     \/ \E fresh \in BOOLEAN, answer \in {"yes", "no", "error"} : on_event(fresh, answer)
     \/ \E readable \in BOOLEAN : take_context(readable)
     \/ \E j \in DOMAIN jobs :
          \/ start_build(j) \/ rebuild(j) \/ abort_job(j)
          \/ \E f \in Fees : build_done(j, f)
  /\ UNCHANGED <<chainVars, bidVars>>

JobIds == 1 .. CHOOSE n \in {u.jobs : u \in Budgets} : \A u \in Budgets : u.jobs <= n

Next ==
  \/ \E b \in Blocks : NewTip(b)
  \/ BidStep
  \/ MinerStep
  \/ \E j \in DOMAIN jobs : JobReturns(j)
  \/ TakePayload
  \/ \E p \in delayed : DelayOver(p)

\* The timers of a job and of a delayed payload fire, and the result worker
\* keeps taking payloads.  Nothing is assumed of the chain or the builders.
Fairness ==
  /\ \A j \in JobIds : WF_vars(j \in DOMAIN jobs /\ JobReturns(j))
  /\ WF_vars(TakePayload)
  /\ \A j \in JobIds : WF_vars(\E p \in delayed : p.job = j /\ DelayOver(p))

Spec == Init /\ [][Next]_vars /\ Fairness
-----------------------------------------------------------------------------
\* The header a job's block is submitted with, before London.
HeaderOf(j) ==
  LET header == [fields |-> 15, parent_hash |-> jobs[j].parent,
                 number |-> Number[jobs[j].parent] + 1, rest |-> j, seal |-> NoSeal]
  IN [header EXCEPT !.seal = [by |-> "validator", of |-> seal_hash(header, ChainId)]]

\* submit_payload, double_sign_evidence_validation_run: however jobs are aborted late,
\* repeated after a reorg and back, delayed and reordered, no two blocks the process sends
\* out are evidence against it, and it refuses a block as a double sign only when
\* another job's block on that parent has passed the guard.
NoDoubleSign ==
  /\ \A j, k \in submitted :
       double_sign_evidence_validation_run(ChainId, HeaderOf(j), HeaderOf(k)) # "evidence"
  /\ \A j \in DOMAIN jobs : jobs[j].outcome = "double_sign" =>
       \E k \in DOMAIN jobs \ {j} : /\ jobs[k].parent = jobs[j].parent
                                    /\ jobs[k].outcome \in {"submitted", "lost"}

\* try_mine_block: at any time at most one job is running that has not been
\* told to stop, and it is the newest.
OneLiveJob ==
  \A j \in DOMAIN jobs : Running(j) /\ ~jobs[j].abort => j = Len(jobs)

\* try_return_best_payload, bid_simulate: what a job sends earns at least as much
\* as every payload it built and as every simulation of a bid on its parent that
\* ran to its end, in whatever order the worker took, interrupted and finished
\* them.  (The comparison is of the fees of the blocks: what the builder is paid
\* is not subtracted.)
BestPayloadWins ==
  [][\A j \in DOMAIN jobs :
       Running(j) /\ jobs'[j].outcome = "sent" =>
         LET sent == payloads'[Len(payloads')]
         IN /\ sent.job = j
            /\ \A f \in jobs[j].built \cup earned[jobs[j].parent] : sent.fees >= f]_vars

\* A job on a parent where the validator is in turn never ends empty-handed:
\* its block is handed in, or the job was aborted, overtaken, a repetition or
\* hit by an error of the builder or of the import channel.
InturnDelivers ==
  \A j \in JobIds :
    (j \in DOMAIN jobs /\ InTurn[jobs[j].parent])
      ~> (j \in DOMAIN jobs /\ jobs[j].outcome \in
            {"submitted", "stale", "double_sign", "lost", "failed", "aborted"})

\* bid_simulate: the best bid of a parent earns at least as much as every
\* simulation of a bid on that parent that ran to its end.
BestBidIsBest ==
  \A p \in Blocks : \A r \in earned[p] : best_bid[p] # NoBid /\ best_bid[p].reward >= r

\* valid_reward: the validator gets of the best bid what the bid claimed for
\* it; in particular the subtraction of the builder's fee has not wrapped.
RewardHonored ==
  \A p \in Blocks : best_bid[p] # NoBid =>
    LET e == best_bid[p]
    IN /\ e.validator >= expected_validator_reward(e.bid)
       /\ e.validator + Bid[e.bid].builder_fee = Share(e.reward)

\* What a bid says of its gas is true.
HonestGas(b) ==
  /\ GasOf(Own(b)) <= Bid[b].gas_used
  /\ PayBid(b).gas <= PAY_BID_TX_GAS_LIMIT

\* commit_transaction_recovered, fill_tx_from_pool: the block of the best bid is the bid's
\* own transactions in their order, then some of the pool, then the one that pays the
\* builder; none is there twice, none of those that must not revert has, the blobs are
\* within the limit and those the bid brought have their sidecars; and what the bid says
\* of its gas being true, the reserve for system transactions is left.
BidBlockSound ==
  \A p \in Blocks : best_bid[p] # NoBid =>
    LET e == best_bid[p]
        txs == e.payload.txs
        own == Own(e.bid)
        ids == {txs[i].id : i \in DOMAIN txs}
    IN /\ SubSeq(txs, 1, Len(own)) = own /\ Last(txs) = PayBid(e.bid)
       /\ Cardinality(ids) = Len(txs)
       /\ \A i \in DOMAIN txs : txs[i].reverts => txs[i].id \notin Bid[e.bid].un_revertible
       /\ BlobsOf(txs) <= MaxBlobCount
       /\ {e.payload.blob_sidecars[i].tx : i \in DOMAIN e.payload.blob_sidecars}
            = Bid[e.bid].blob_sidecars \cap ids
       /\ HonestGas(e.bid) => GasOf(txs) <= BlockGasLimit - SystemTxsGas
=============================================================================
