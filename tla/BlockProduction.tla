-------------------------- MODULE BlockProduction --------------------------
(***************************************************************************)
(* Nodes that take turns to build blocks and execute each other's. A step  *)
(* is the building of one block on the tip, by a node that may propose, or *)
(* its execution by all the nodes: executions on different nodes share     *)
(* nothing, so their order does not matter. A block is accepted when every *)
(* node accepts it.                                                        *)
(*                                                                         *)
(* A restart empties the caches of a node. Caches keep only the entries of *)
(* the tip: no execution asks for others. A block may also be altered by   *)
(* its proposer, or be built by a node that runs other software.           *)
(***************************************************************************)
EXTENDS PayloadBuilder

CONSTANTS
  Pools,        \* the pools of transactions a build may meet, by kind
  VoterSets,    \* whose votes may be in the pool
  Faults,       \* what a proposer may alter (see Altered), by kind
  Restarting,   \* nodes that may restart
  submit_built_payload,   \* a mined block is handed over without being executed again
  Scenarios     \* bounds on the height and on the unusual steps of a kind

\* A transaction sets no turn length but one of the contract's, and somebody else is there to
\* execute what a node builds.
ASSUME ProductionConstants ==
  /\ \A kind \in DOMAIN Pools :
       /\ Pools[kind] \in Seq(Range(Pools[kind]))
       /\ \A tx \in Range(Pools[kind]) : tx.turn \in TurnLengths \cup {NoTurn}
  /\ \E m, n \in Addresses : m # n
  /\ submit_built_payload \in BOOLEAN
  /\ DEFAULT_EPOCH_LENGTH > 1

VARIABLES
  chain,      \* accepted blocks, without the genesis block
  snaps,      \* the snapshot after each of them
  world,      \* the state after the last
  caches,     \* per node, VALIDATOR_CACHE and TURN_LENGTH_CACHE
  restarted,  \* nodes whose caches were emptied and that have executed no block since
  proposal,   \* the block under way
  verdicts,   \* per node, the error it found in the proposal, "" if it accepts it
  budget
vars == <<chain, snaps, world, caches, restarted, proposal, verdicts, budget>>

Nodes == Addresses
NoCache == [validators |-> <<>>, turn |-> <<>>]
NoProposal == [status |-> "none"]
NoVerdicts == [n \in Nodes |-> ""]

\* What an unusual step of a kind costs.
Cost(kinds) == [k \in DOMAIN budget |-> IF k \in kinds THEN 1 ELSE 0]

Spend(kinds) ==
  /\ \A k \in kinds : budget[k] > 0
  /\ budget' = [k \in DOMAIN budget |-> budget[k] - Cost(kinds)[k]]

Tip == TipOf(chain)
TipSnap == snaps[Len(chain)]

\* The parts of a node's caches that are about one block.
About(ex, block) ==
  [validators |-> Restrict(ex.validator_cache, DOMAIN ex.validator_cache \cap {block}),
   turn |-> Restrict(ex.turn_length_cache, DOMAIN ex.turn_length_cache \cap {block})]

\* The executor of a node that builds a block, and of one that executes it.
MiningExecutor(n, day) ==
  NewExecutor(chain, snaps, world, caches[n], TRUE, n, day, next_evm_env(Tip, Len(chain) + 1))

Executor(n, block) ==
  NewExecutor(chain, snaps, world, caches[n], FALSE, block.beneficiary, block.day, evm_env(block))

\* The votes that reached the pool: those of `voters` for each recent block.
VotesOf(voters) ==
  [t \in 0..Len(chain) |-> {VoteFor(snaps, t, v) : v \in voters}]

Init ==
  /\ chain = <<>>
  /\ snaps = [n \in {0} |-> GenesisSnapshot(GenesisValidators, 0)]
  /\ world = GenesisWorld
  /\ caches = [n \in Nodes |-> NoCache]
  /\ restarted = {}
  /\ proposal = NoProposal
  /\ verdicts = NoVerdicts
  /\ budget \in Scenarios

----------------------------------------------------------------------------
(* What a proposer may do to its block. *)

\* The system transactions signed again, in the order they now have.
Renumbered(txs, first) == [i \in DOMAIN txs |-> set_nonce(txs[i], first + i - 1)]

\* Which of them: a bound on the number of alterations.
Positions(txs) == {i \in DOMAIN txs : i = 1 \/ i > Len(txs) - 2}

\* The header with one of its fields changed.
OtherHeaders(block) ==
  LET others(x) == IF x = None THEN {0} ELSE {None, x + 1}
  IN {[block EXCEPT !.gas_used = @ + 1], [block EXCEPT !.receipts_root = Append(@, 0)],
      [block EXCEPT !.inturn = ~@], [block EXCEPT !.extra = <<Head(@), Last(@)>>]}
     \cup {[block EXCEPT !.base_fee_per_gas = x] : x \in others(block.base_fee_per_gas)}
     \cup {[block EXCEPT !.blob_gas_used = x] :
             x \in others(block.blob_gas_used) \cup {DATA_GAS_PER_BLOB}}
     \cup {[block EXCEPT !.excess_blob_gas = x] :
             x \in others(block.excess_blob_gas) \cup {DATA_GAS_PER_BLOB}}
     \cup {[block EXCEPT !.parent_beacon_block_root = x] :
             x \in others(block.parent_beacon_block_root)}
     \cup {[block EXCEPT !.requests_hash = x] : x \in others(block.requests_hash)}

\* One system transaction left out, repeated, moved or with another value, and the gas and
\* the receipts that go with it; or something in the header that is not what it should
\* be. All of that is sealed by the proposer, except what is "forged". "attested" is no
\* fault: another implementation may have the attestation of the parent that this one
\* cannot assemble.
Altered(block, fault) ==
  LET txs == block.system_txs
      receipts(new) == SubSeq(block.receipts_root, 1, Len(block.txs))
                       \o [i \in DOMAIN new |-> SystemGas[new[i].call]]
      sealed(header) == Sealed(header, block.beneficiary)
      with(new) == sealed([block EXCEPT !.system_txs = Renumbered(new, txs[1].nonce),
                                        !.receipts_root = receipts(new),
                                        !.gas_used = Total(receipts(new))])
      validators == get_validator_bytes_from_header(block, TipSnap.epoch_num)
      turn == get_turn_length_from_header(block, TipSnap.epoch_num)
      attestation == AttestationIn(snaps, block)
      saying(bytes, t, att) ==
        sealed([block EXCEPT !.extra = Append(ExtraData(block.number, bytes, t, att), Last(@))])
      voters == snaps[Len(chain) - 1].validators
  IN CASE fault = "drop" -> {with(RemoveAt(txs, i)) : i \in Positions(txs)}
       [] fault = "repeat" -> {with(InsertAt(txs, i, txs[i])) : i \in Positions(txs)}
       [] fault = "swap" -> {with([txs EXCEPT ![i] = txs[i + 1], ![i + 1] = txs[i]]) :
                               i \in Positions(txs) \ {Len(txs)}}
       [] fault = "value" -> {with([txs EXCEPT ![i].value = @ + 1]) : i \in Positions(txs)}
       [] fault = "validators" ->
            {saying(ValidatorBytes(set, block.number), turn, attestation) : set \in {{}, Nodes, {1}}}
       [] fault = "turn" -> {saying(validators, t, attestation) : t \in TurnLengths \cup {NoTurn}}
       [] fault = "header" -> {sealed(header) : header \in OtherHeaders(block)}
       [] fault = "forged" -> OtherHeaders(block)
       [] fault = "unsigned" /\ attestation # NoVotes ->
            {saying(validators, turn, [attestation EXCEPT !.voters = Nodes])}
       [] fault = "attested" /\ block.number > 2 ->
            {saying(validators, turn, [source |-> TipSnap.vote_data.target, target |-> Len(chain),
                                       voters |-> voters, signers |-> voters])}
       [] OTHER -> {}

----------------------------------------------------------------------------
(* The steps. *)

\* A node that may propose builds a block from its pool, with the votes it has.
Build(n, kind, voters, day) ==
  /\ proposal.status # "built" /\ Len(chain) < budget.height
  /\ n \in TipSnap.validators /\ ~SignRecently(TipSnap, n)
  /\ Spend(({kind} \ {"empty"}) \cup (IF voters = {} THEN {} ELSE {"votes"})
           \cup (IF day = Tip.day THEN {} ELSE {"days"}))
  /\ \E ex \in {IF kind = "empty" THEN build_empty_payload(MiningExecutor(n, day), VotesOf(voters))
                ELSE build_payload(MiningExecutor(n, day), Pools[kind], VotesOf(voters))} :
     /\ Ok(ex)
     /\ proposal' = [status |-> "built", block |-> ex.block, by |-> n, altered |-> FALSE,
                     built |-> ex.block, world |-> ex.world]
     /\ verdicts' = NoVerdicts
     /\ caches' = [caches EXCEPT ![n] = [validators |-> ex.validator_cache,
                                         turn |-> ex.turn_length_cache]]
  /\ UNCHANGED <<chain, snaps, world, restarted>>

\* The proposer alters its block before it sends it.
Alter(kind) ==
  /\ proposal.status = "built" /\ ~proposal.altered
  /\ Spend({kind})
  /\ \E fault \in Faults[kind] : \E block \in Altered(proposal.block, fault) :
       /\ block # proposal.block
       /\ proposal' = [proposal EXCEPT !.block = block, !.altered = TRUE]
  /\ UNCHANGED <<chain, snaps, world, caches, restarted, verdicts>>

\* What a node says of the proposal, the comparison of the state with the proposer's
\* included, which is made outside src/.
Verdict(n, executed) ==
  LET verdict == validate_block(Executor(n, proposal.block), executed, proposal.block)
  IN IF verdict = "" /\ ~proposal.altered /\ executed.world # proposal.world THEN "state root"
     ELSE verdict

\* Every node executes the proposal, except that the one that mined it may have handed
\* it to the engine as it is.
Import ==
  LET block == proposal.block
      skips(n) == submit_built_payload /\ n = proposal.by /\ ~proposal.altered
  IN /\ proposal.status = "built"
     /\ \E exs \in {[n \in Nodes |-> execute_block(Executor(n, block), block)]} :
        \E said \in {[n \in Nodes |-> IF skips(n) THEN "" ELSE Verdict(n, exs[n])]} :
          LET accepted == \A n \in Nodes : said[n] = ""
              one == exs[CHOOSE n \in Nodes : ~skips(n)]
              tip == IF accepted THEN block ELSE Tip
          IN /\ verdicts' = said
             /\ proposal' = [proposal EXCEPT !.status = IF accepted THEN "accepted" ELSE "rejected"]
             /\ caches' = [n \in Nodes |-> About(IF skips(n) THEN Executor(n, block) ELSE exs[n], tip)]
             /\ chain' = IF accepted THEN Append(chain, block) ELSE chain
             /\ snaps' = IF accepted THEN Insert(snaps, block.number, SnapshotOf(one, block)) ELSE snaps
             /\ world' = IF accepted THEN one.world ELSE world
             /\ restarted' = IF accepted THEN {n \in restarted : skips(n)} ELSE restarted
     /\ UNCHANGED budget

Restart(n) ==
  /\ Spend({"restarts"})
  /\ caches' = [caches EXCEPT ![n] = NoCache]
  /\ restarted' = restarted \cup {n}
  /\ UNCHANGED <<chain, snaps, world, proposal, verdicts>>

Next ==
  \/ \E n \in Nodes, kind \in DOMAIN Pools \cup {"empty"}, voters \in VoterSets,
        day \in {Tip.day, Tip.day + 1} :
       Build(n, kind, voters, day)
  \/ \E kind \in DOMAIN Faults : Alter(kind)
  \/ Import
  \/ \E n \in Restarting : Restart(n)

Spec == Init /\ [][Next]_vars
----------------------------------------------------------------------------
SansNonces(txs) == [i \in DOMAIN txs |-> set_nonce(txs[i], 0)]
Judged == proposal.status \in {"accepted", "rejected"}

\* check_new_block, post_check_new_block: what a node says of a block does not depend on
\* what is in its caches, so that nodes that restarted, built the parent themselves or
\* executed it do not part ways.
VerdictsAgree == Judged => \A m, n \in Nodes : (verdicts[m] = "") = (verdicts[n] = "")

\* What the code itself builds and then refuses: it compares the turn length of an epoch's
\* header with the state after the block, and before Bohr leaves out of one validators it has
\* not cached; a transaction that reads the difficulty reads another value while its block is
\* built; and check_header_extra requires the header of an epoch where the fork's epoch length
\* begins one, though the snapshot's does not.
TurnChanged(block) == \E i \in DOMAIN block.txs : block.txs[i].turn # NoTurn
ReadsDifficulty(block) == \E i \in DOMAIN block.txs : block.txs[i].reads
EpochOfForkOnly(n) == n % get_epoch_length(n) = 0 /\ n % TipSnap.epoch_num # 0
RefusesItsOwn(block) ==
  \/ /\ block.number % TipSnap.epoch_num = 0
     /\ \/ TurnChanged(block)
        \/ get_validator_bytes_from_header(block, TipSnap.epoch_num) = <<>>
  \/ ReadsDifficulty(block) /\ Range(verdicts) = {"state root"}
  \/ EpochOfForkOnly(block.number) /\ Range(verdicts) = {"header"}

\* build_payload, finish: a block as a node built it is accepted by everybody: the
\* system transactions and the gas they take, the header of an epoch block, the
\* attestation and the state are what the other role of the executor arrives at, except in
\* the four cases of RefusesItsOwn, in which the code refuses what it built.
OwnBlockAccepted ==
  proposal.status = "rejected" /\ ~proposal.altered => RefusesItsOwn(proposal.block)

\* transact_system_tx: a block that is accepted has the system transactions that are due,
\* in their order; at most calls of the slash contract are missing.
SystemTxsEnforced ==
  proposal.status = "accepted" =>
    LET kept(txs) == SelectSeq(SansNonces(txs), LAMBDA tx : tx.to # "slash")
    IN /\ kept(proposal.block.system_txs) = kept(proposal.built.system_txs)
       /\ Range(SansNonces(proposal.block.system_txs)) \subseteq Range(SansNonces(proposal.built.system_txs))
       /\ Len(proposal.block.system_txs) <= Len(proposal.built.system_txs)

\* validate_header, validate_block_post_execution, recover_proposer: of a header that is
\* accepted, the difficulty, the excess of blob gas, the beacon root, the requests, the
\* gas and the receipts are what a node would have built; and from Bohr on it is to the
\* last field what its proposer sealed. The base fee and the blob gas used, which no check
\* compares with anything, may be others.
HeaderEnforced ==
  LET header == proposal.block
      built == proposal.built
      pinned == {"inturn", "excess_blob_gas", "parent_beacon_block_root"}
                \cup IF header.number >= PragueBlock THEN {"requests_hash"} ELSE {}
  IN proposal.status = "accepted" =>
       /\ \A field \in pinned : header[field] = built[field]
       /\ header.system_txs = built.system_txs =>
            header.gas_used = built.gas_used /\ header.receipts_root = built.receipts_root
       /\ IsBohr(header.number) /\ Last(header.extra) = Last(built.extra) => header = built

\* The blocks whose attestations have been rewarded.
Rewarded ==
  LET last == (Len(chain) \div FF_REWARD_DISTRIBUTION_INTERVAL) * FF_REWARD_DISTRIBUTION_INTERVAL
  IN {i \in 1..(last - 1) : last >= PlatoBlock /\ AttestationIn(snaps, chain[i]) # NoVotes}

\* distribute_incoming, distribute_finality_reward: after a block no fee is left in the
\* system account and every one is with the validators or the system reward; and every
\* attestation is rewarded once, to its voters and for the surplus to its proposer.
LedgerExact ==
  LET votersOf(i) == AttestationIn(snaps, chain[i]).voters
      surplus(i) ==
        Cardinality(votersOf(i)) - Quorum(snaps[AttestationIn(snaps, chain[i]).target - 1])
      collected(a) == {i \in Rewarded : chain[i].beneficiary = a}
  IN /\ world.system = 0
     /\ world.paid = world.system_reward + world.deposits
     /\ \A a \in Nodes :
          world.weights[a] = Cardinality({i \in Rewarded : a \in votersOf(i)})
                             + MapThenSumSet(surplus, collected(a))

\* try_update_build_in_system_contract: whichever forks share a block and whether a block
\* upgrades at its beginning or its end, every contract has the code of the last fork
\* that ships some, and the history storage is there from Prague on.
CodeIsLatest ==
  LET ships(c) == {i \in DOMAIN UpgradeOrder :
                     IsActive(UpgradeOrder[i], Len(chain)) /\ c \in Upgrades[UpgradeOrder[i]]}
  IN /\ \A c \in Contracts :
          world.code[c] = IF ships(c) = {} THEN "Genesis" ELSE LastFork(ships(c))
     /\ world.history_storage = (Len(chain) >= PragueBlock)

\* A node that has not restarted since can start the epoch that follows the tip: its
\* caches hold the validators and, once Bohr is active, the turn length of that state.
EpochPrepared ==
  (Len(chain) + 1) % TipSnap.epoch_num = 0 =>
    \A n \in Nodes \ restarted :
      /\ Tip \in DOMAIN caches[n].validators /\ caches[n].validators[Tip] = world.validators
      /\ IsBohr(Len(chain)) =>
           Tip \in DOMAIN caches[n].turn /\ caches[n].turn[Tip] = world.turn
============================================================================
