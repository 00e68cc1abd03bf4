------------------------------ MODULE MCMiner ------------------------------
EXTENDS Miner, TLC

CONSTANTS g, a, b, x

MCBlocks == {g, a, b}
MCNumber == (g :> 0) @@ (a :> 1) @@ (b :> 1)
MCParentOf == (g :> g) @@ (a :> g) @@ (b :> g)
MCInTurn == (g :> TRUE) @@ (a :> FALSE) @@ (b :> TRUE)
MCEligible == (g :> TRUE) @@ (a :> TRUE) @@ (b :> TRUE)

\* Reorgs and late jobs without bids; bids while the tip moves; more bids on
\* one parent; a bid against a job that builds twice; and bids of every kind.
\* Beside bids a payload may earn less than every bid or more than some.
MCBudgets ==
  {[moves |-> 3, bids |-> {}, sends |-> 0, jobs |-> 3, builds |-> 1, fees |-> {3}],
   [moves |-> 1, bids |-> {1, 2}, sends |-> 2, jobs |-> 1, builds |-> 1, fees |-> {3, 6}],
   [moves |-> 0, bids |-> {1, 2, 3}, sends |-> 3, jobs |-> 1, builds |-> 1, fees |-> {3, 6}],
   [moves |-> 0, bids |-> {1, 3}, sends |-> 1, jobs |-> 1, builds |-> 2, fees |-> {3, 6}],
   [moves |-> 0, bids |-> 1..8, sends |-> 2, jobs |-> 0, builds |-> 0, fees |-> {3, 6}]}

Tx(id, sender, nonce, gas, price, blobs) ==
  [id |-> id, sender |-> sender, nonce |-> nonce, gas |-> gas, gas_limit |-> gas, tip |-> price,
   blobs |-> blobs, reverts |-> FALSE, chain_id |-> 56]

Plain(tx) == [encoding |-> "plain", tx |-> tx]
Pay(price) == Plain(Tx(0, "x", 0, 1, price, 0))

\* The pool: the second transaction of u is also in a bid, and beside a bid those of u and
\* w do not all fit.
U1 == Tx(1, "u", 0, 1, 2, 0)
U2 == Tx(2, "u", 1, 2, 1, 1)
U3 == [Tx(3, "u", 2, 1, 1, 1) EXCEPT !.gas_limit = 2]
W1 == Tx(4, "w", 0, 3, 2, 0)
MCPoolTxs == <<W1, U1, U2, U3>>

Raw(txs, gas_used, gas_fee, builder_fee) ==
  [block_number |-> 1, parent_hash |-> g, txs |-> txs, un_revertible |-> {},
   gas_used |-> gas_used, gas_fee |-> gas_fee, builder_fee |-> builder_fee]

Args(raw, pay) ==
  [raw_bid |-> raw, signature |-> [by |-> x, of |-> calculate_raw_bid_hash(raw)],
   pay_bid_tx |-> pay, pay_bid_tx_gas_used |-> 1]

\* Two bids with true claims, one of them with a blob, and one that claims too much; the
\* first again with another paying transaction, whose hash is the same; and bids that
\* are refused or fail.
Honest == Raw(<<Plain(U1), [encoding |-> "sidecar", tx |-> U2]>>, 3, 4, 2)
MCBidArgs ==
  <<Args(Honest, Pay(0)),
    Args(Raw(<<Plain(U1)>>, 1, 6, 3), Pay(0)),
    Args(Raw(<<Plain(Tx(5, "v", 0, 1, 5, 0))>>, 1, 2, None), Pay(1)),
    Args(Honest, Pay(1)),
    Args([Honest EXCEPT !.block_number = 0], Pay(0)),
    Args([Raw(<<Plain([U1 EXCEPT !.reverts = TRUE])>>, 1, 1, 0) EXCEPT !.un_revertible = {1}], Pay(0)),
    [Args(Honest, Pay(0)) EXCEPT !.raw_bid.gas_fee = 1],
    Args(Raw(<<Plain([U1 EXCEPT !.chain_id = 1])>>, 1, 2, 0), Pay(0))>>
MCBids == DOMAIN MCBidArgs
=============================================================================
