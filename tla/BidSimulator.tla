---------------------------- MODULE BidSimulator ----------------------------
(***************************************************************************)
(* Builders' bids (rpc/mev.rs, node/miner/bid_simulator.rs and the         *)
(* MevWorkWorker of node/miner/bsc_miner.rs).  The RPC handler checks a bid *)
(* and puts it on the shared queue; one worker task takes bids from the    *)
(* queue, decides which to run and runs them one at a time, as BidRuntime  *)
(* says.  A simulation may also fail for reasons outside the bid (state    *)
(* gone, sealing error).                                                   *)
(***************************************************************************)
EXTENDS CanonicalChain, BidRuntime

CONSTANTS
  Commission,     \* validator_commission, in ten-thousandths
  Modulus,        \* one more than the largest reward (2^256 in the code)
  MergeCuts,      \* after how many transactions the time of the merge may be up
  ClearThreshold, \* 5 in the code
  InTurn,         \* InTurn[b]: the validator is in turn on block b
  NoBid

\* What is kept of a simulation that became the best of its parent.
BestBids == [bid : Bids, reward : Nat, validator : Int, fees : Nat, payload : Runtimes]

ASSUME BidAssumption ==
  /\ \A b \in Bids : /\ BidArgs[b].raw_bid.parent_hash \in Blocks
                     /\ BidArgs[b].raw_bid.gas_fee \in Nat
  /\ Commission \in 0 .. 10000 /\ Modulus \in Nat \ {0}
  /\ MergeCuts \subseteq Nat /\ ClearThreshold \in Nat
  /\ SystemTxsGas + PAY_BID_TX_GAS_LIMIT <= BlockGasLimit
  /\ NoBid \notin Bids \cup BestBids /\ InTurn \in [Blocks -> BOOLEAN]

VARIABLES
  allowed,         \* allowed_builders
  bid_queue,       \* BID_PACKAGE_QUEUE
  pending_bid,     \* bids seen before (block number, builder, bid hash)
  best_bid_to_run, \* parent -> the bid with the best claim, or NoBid
  simulating_bid,  \* parent -> the bid marked as being simulated, or NoBid
  best_bid,        \* parent -> [bid, reward, validator, fees, payload], or NoBid
  interrupted,     \* bids whose interrupt_flag is set (shared by the clones)
  requests,        \* bid_simulate_req channel
  sends,           \* bids accepted so far (bound)
  earned           \* history: parent -> rewards of the completed simulations

bidVars == <<allowed, bid_queue, pending_bid, best_bid_to_run, simulating_bid,
             best_bid, interrupted, requests, sends, earned>>

BidInit ==
  /\ allowed \in SUBSET Builders
  /\ bid_queue = <<>> /\ requests = <<>>
  /\ pending_bid = {} /\ interrupted = {}
  /\ best_bid_to_run = [p \in Blocks |-> NoBid]
  /\ simulating_bid = [p \in Blocks |-> NoBid]
  /\ best_bid = [p \in Blocks |-> NoBid]
  /\ sends = 0
  /\ earned = [p \in Blocks |-> {}]
-----------------------------------------------------------------------------
(* The RPC.  The whitelist only matters to bids still to come: its changes
   share their bound. *)

add_builder(x) ==
  /\ sends < budget.sends
  /\ x \notin allowed
  /\ allowed' = allowed \cup {x}
  /\ UNCHANGED <<bid_queue, pending_bid, best_bid_to_run, simulating_bid,
                 best_bid, interrupted, requests, sends, earned>>

remove_builder(x) ==
  /\ sends < budget.sends
  /\ x \in allowed
  /\ allowed' = allowed \ {x}
  /\ UNCHANGED <<bid_queue, pending_bid, best_bid_to_run, simulating_bid,
                 best_bid, interrupted, requests, sends, earned>>

\* The checks of send_bid that depend on the bid alone. A bid of block zero passes for one
\* of block one.
WellFormed(b) ==
  LET args == BidArgs[b]
      raw == args.raw_bid
      parent_block_number == IF raw.block_number = 0 THEN 0 ELSE raw.block_number - 1
  IN /\ Number[raw.parent_hash] = parent_block_number
     /\ raw.gas_fee > 0 /\ raw.gas_used > 0
     /\ BuilderFee(raw) <= raw.gas_fee
     /\ args.pay_bid_tx.encoding # "empty"
     /\ args.pay_bid_tx_gas_used \in 1 .. PAY_BID_TX_GAS_LIMIT
     /\ Bid[b].ok

\* A refused bid changes nothing.  Without a snapshot of the parent the turn
\* is not checked: turnKnown is what the snapshot provider happens to know.
send_bid(b, turnKnown) ==
  /\ b \in budget.bids /\ sends < budget.sends
  /\ BidArgs[b].raw_bid.parent_hash \in Chain[tip]
  /\ recover_builder_address(BidArgs[b]) \in allowed
  /\ turnKnown => InTurn[BidArgs[b].raw_bid.parent_hash]
  /\ WellFormed(b)
  /\ bid_queue' = Append(bid_queue, b)
  /\ sends' = sends + 1
  /\ UNCHANGED <<allowed, pending_bid, best_bid_to_run, simulating_bid,
                 best_bid, interrupted, requests, earned>>
-----------------------------------------------------------------------------
(* The rewards. *)

\* The product is not wrapped: it would be for a reward near the width of a U256 only, which
\* no block earns, so that valid_reward refuses the bid that claims one either way.
Share(reward) == (reward * Commission) \div 10000

\* U256 subtraction wraps in a release build.
WrapSub(a, b) == (a - b + Modulus) % Modulus

\* new_bid_runtime refuses the bid when this is false.
runtime_ok(b) == Share(Bid[b].gas_fee) >= Bid[b].builder_fee

expected_validator_reward(b) == Share(Bid[b].gas_fee) - Bid[b].builder_fee

is_expected_better_than(b, c) ==
  /\ Bid[b].gas_fee >= Bid[c].gas_fee
  /\ expected_validator_reward(b) >= expected_validator_reward(c)

pack_reward(b, reward) == WrapSub(Share(reward), Bid[b].builder_fee)

\* MUTANT: the fees of the block are not compared.
valid_reward_validatorOnly(b, reward) ==
  pack_reward(b, reward) >= expected_validator_reward(b)

valid_reward(b, reward) ==
  /\ reward >= Bid[b].gas_fee
  /\ pack_reward(b, reward) >= expected_validator_reward(b)
-----------------------------------------------------------------------------
(* The worker: take a bid from the queue. *)

\* check_pending_bid: a bid of that builder with that hash is known.
IsPending(b) ==
  \E c \in pending_bid : Bid[c].builder = Bid[b].builder /\ Bid[c].bid_hash = Bid[b].bid_hash

\* The bid that runs when b arrives: b itself, or the best claim so far.  The
\* stored bid was cloned before commit_bid marks it, so it is never committed
\* and the branch that would drop b without running anything is not reached.
ToRun(b) ==
  LET best == best_bid_to_run[Bid[b].parent]
  IN IF best = NoBid \/ is_expected_better_than(b, best) THEN b ELSE best

\* Refused: seen before, at or below the finalized block, as one of block zero
\* always is, parent or snapshot unknown (known = FALSE), or the builder fee
\* exceeds the validator's share.
refuse_bid(b, known) ==
  /\ IsPending(b) \/ Bid[b].block_number = 0 \/ ~known \/ ~runtime_ok(b)
  /\ UNCHANGED <<best_bid_to_run, interrupted, requests>>

\* roomLeft: the delay left is 0 or at least NO_INTERRUPT_LEFT_OVER.
run_bid(b, roomLeft) ==
  LET r == ToRun(b)
      s == simulating_bid[Bid[b].parent]
  IN /\ ~IsPending(b) /\ Bid[b].block_number # 0 /\ runtime_ok(b)
     /\ best_bid_to_run' = [best_bid_to_run EXCEPT ![Bid[b].parent] = r]
     /\ interrupted' = IF s # NoBid /\ roomLeft THEN interrupted \cup {s} ELSE interrupted
     /\ requests' = IF s = NoBid \/ roomLeft THEN Append(requests, r) ELSE requests

commit_new_bid(known, roomLeft) ==
  /\ bid_queue # <<>>
  /\ bid_queue' = Tail(bid_queue)
  /\ pending_bid' = pending_bid \cup {Head(bid_queue)}
  /\ \/ refuse_bid(Head(bid_queue), known)
     \/ known /\ run_bid(Head(bid_queue), roomLeft)
  /\ UNCHANGED <<allowed, simulating_bid, best_bid, sends, earned>>
-----------------------------------------------------------------------------
(* The worker: simulate. *)

\* Any of the early returns: the bid stays marked as being simulated.
simulate_fails(b) ==
  /\ simulating_bid' = [simulating_bid EXCEPT ![Bid[b].parent] = b]
  /\ UNCHANGED <<best_bid, best_bid_to_run, earned>>

Beats(reward, p) == best_bid[p] = NoBid \/ best_bid[p].reward < reward

\* The runtime that becomes the best: its rewards were packed before the paying
\* transaction ran.
Simulated(b, merged, paid) ==
  LET reward == FeesOf(merged.txs)
  IN [bid |-> b, reward |-> reward, validator |-> pack_reward(b, reward),
      fees |-> FeesOf(paid.txs), payload |-> paid]

\* MUTANT: the last simulation wins.
simulate_completes_lastWins(b, merged) ==
  LET paid == BidPaid(merged)
      reward == FeesOf(merged.txs)
  IN /\ b \notin interrupted /\ ~paid.err /\ UnRevertibleKept(paid)
     /\ Bid[b].gas_used <= bid_gas_limit /\ valid_reward(b, FeesOf(BidCommitted(b).txs))
     /\ simulating_bid' = [simulating_bid EXCEPT ![Bid[b].parent] = NoBid]
     /\ best_bid' = [best_bid EXCEPT ![Bid[b].parent] = Simulated(b, merged, paid)]
     /\ earned' = [earned EXCEPT ![Bid[b].parent] = @ \cup {reward}]
     /\ UNCHANGED best_bid_to_run

\* The rewards are packed once the bid's own transactions have run, checked,
\* and packed again after the merge; the pay-bid transaction runs last.
simulate_completes(b, merged) ==
  LET p == Bid[b].parent
      paid == BidPaid(merged)
      reward == FeesOf(merged.txs)
      wins == Beats(reward, p)
  IN /\ b \notin interrupted /\ ~paid.err /\ UnRevertibleKept(paid)
     /\ Bid[b].gas_used <= bid_gas_limit /\ valid_reward(b, FeesOf(BidCommitted(b).txs))
     /\ simulating_bid' = [simulating_bid EXCEPT ![p] = NoBid]
     /\ best_bid' = IF wins THEN [best_bid EXCEPT ![p] = Simulated(b, merged, paid)]
                            ELSE best_bid
     /\ best_bid_to_run' = IF wins THEN best_bid_to_run
                                   ELSE [best_bid_to_run EXCEPT ![p] = NoBid]
     /\ earned' = [earned EXCEPT ![p] = @ \cup {reward}]

\* The blocks a bid may come to: without the merge or with one that is cut short.
MergeOutcomes ==
  [b \in {c \in Bids : Bid[c].ok} |->
     {BidCommitted(b)} \cup {Merged(b, order, cut) : order \in SenderOrders, cut \in MergeCuts}]

\* A reward is a U256: the fees of a block fit.
ASSUME FeesFit ==
  \A b \in DOMAIN MergeOutcomes : \A merged \in MergeOutcomes[b] : FeesOf(merged.txs) < Modulus

bid_simulate ==
  /\ requests # <<>>
  /\ requests' = Tail(requests)
  /\ \/ simulate_fails(Head(requests))
     \/ \E merged \in MergeOutcomes[Head(requests)] : simulate_completes(Head(requests), merged)
  /\ UNCHANGED <<allowed, bid_queue, pending_bid, interrupted, sends>>

\* Every second: forget what is more than ClearThreshold below the tip.
clear ==
  LET old(p) == Number[p] + 1 < (IF Number[tip] > ClearThreshold
                                   THEN Number[tip] - ClearThreshold ELSE 0)
      Forget(f) == [p \in Blocks |-> IF old(p) THEN NoBid ELSE f[p]]
  IN /\ best_bid_to_run' = Forget(best_bid_to_run)
     /\ simulating_bid' = Forget(simulating_bid)
     /\ best_bid' = Forget(best_bid)
     /\ pending_bid' = {b \in pending_bid : ~old(Bid[b].parent)}
     /\ earned' = [p \in Blocks |-> IF old(p) THEN {} ELSE earned[p]]
     /\ UNCHANGED <<allowed, bid_queue, interrupted, requests, sends>>

get_best_bid(p) == best_bid[p]
=============================================================================
