# TLA+ models of reth-bsc

reth-bsc is a BNB Smart Chain client built on reth. These modules model the
parts of it that carry its own logic, model-check them on small instances with
TLC, and prove the most important results for every value of the constants with
TLAPS. Paths below are relative to the repository's `src/` directory of Rust
sources unless they say otherwise.

1. The system — 2. Modules — 3. Runs — 4. Findings and observations —
5. Proofs — 6. Plan — 7. Not modelled

## 1. The system

| part | state it keeps | operations | hard because |
|---|---|---|---|
| vote journal (`node/vote_journal.rs`) | a 512-entry first-in first-out cache, `votes.jsonl` | `under_rules`, `write_vote`, reload | crash in the middle of a line, full cache, restart |
| vote producer (`node/vote_producer.rs`) | `PRODUCED_TARGETS`, `BLOCKS_SINCE_MINING`, one task per head | `maybe_produce_and_broadcast_for_head` | tasks run in parallel; the journal's lock is taken twice |
| vote pool (`consensus/parlia/vote_pool.rs`) | received hashes, boxes per block, a priority queue | `put_vote`, `prune`, `drain`, `fetch_vote_by_block_hash` | three indexes, unverified input, wrapping arithmetic |
| Parlia snapshot (`consensus/parlia/snapshot.rs`) | validators, recent proposers, justified and finalized block, turn and epoch length | `new`, `apply`, `sign_recently`, in-turn selection | windows whose length changes, epoch marks, five forks |
| snapshot provider (`consensus/parlia/provider.rs`, `node/evm/util.rs`) | an LRU of snapshots, a database, the header cache by hash and by number | `snapshot_by_hash`, `try_rebuild`, `insert` | concurrent rebuilds, forks, headers looked up by number, restart |
| header checks (`consensus/parlia/consensus.rs`, `validation.rs`, `node/evm/pre_execution.rs`) | none of their own | `validate_header`, `verify_seal`, `check_new_block` | what the seal covers changes with forks; must agree with `apply` |
| attestation (`consensus/parlia/consensus.rs`) | none | `assemble_vote_attestation`, `verify_vote_attestation` | quorum over unverified votes, ancestors as targets |
| block time (`consensus/parlia/ramanujan_fork.rs`, `go_rng.rs`) | none | `prepare_timestamp`, `back_off_time`, `block_time_verify` | two clocks' units, intervals by fork, a shuffle everyone must agree on |
| fork choice (`consensus/parlia/forkchoice_rule.rs`, `node/consensus.rs`) | the canonical head (in reth), a cache of difficulties | `is_need_reorg`, `update_forkchoice` | the head is read before several awaits |
| block import (`node/network/block_import/service.rs`) | caches of processed, queued and downloading blocks | `on_new_block`, `on_new_block_hashes`, engine results | bounded caches, retries, results out of order |
| block execution (`node/evm/`) | caches of the next epoch's validators and turn length | pre- and post-execution, system transactions, assembling | two roles, building and importing, must do the same |
| system contracts (`system_contracts/`) | the code and state of the contracts | upgrades, calls and their decoding | several forks in one block |
| miner pipeline (`node/miner/bsc_miner.rs`, `payload.rs`) | queues between four workers, payload jobs, recent own blocks | new work, jobs, delay, submit | timers, cancellation, double-sign guard |
| bid simulator (`node/miner/bid_simulator.rs`, `rpc/mev.rs`) | best, simulating and pending bid per parent | `send_bid`, simulate, clear | replacement while a simulation runs, merging with the pool |
| BSC sub-protocol (`node/network/bsc_protocol/`, `blocks_by_range.rs`) | pending range requests, a peer registry, caches of full blocks | handshake, requests, broadcast, serving | time-outs, reconnecting peers |
| EVN (`node/network/evn*.rs`, `mod.rs`) | marked peers, on-chain identities, armed or not | arming, refresh, registration | peers, identities and arming come in any order |
| EVM, precompiles, RPC, pool, chain tables | none, or third-party | | data and third-party execution rather than control |

How they interact. A canonical-state notification of reth reaches the miner's
new-work worker, which prunes the vote pool, spawns a voting task for the new tip
and starts new work. The voting task reads the tip's snapshot, checks the
journal, signs, persists and hands the vote to the pool and to the peers. Peers'
votes enter the same pool. A payload job builds blocks on the tip and competes
with builders' bids; executing the block asks the system contracts for the
validators of the next epoch, appends the system transactions, collects the
pool's votes into an attestation and seals the header. The result worker holds
the block back until its time, checks it for a double sign and gives it to the
import service, like a block from a peer. Every node executes it, checks the
header against the parent's snapshot, and feeds it to `apply`, which moves the
justified and finalized blocks. Fork choice compares justified numbers first, so
the loop closes there. Blocks are announced, asked for by range and served over
the BSC sub-protocol; peers of validators are found through EVN.

What makes each part correct:

* journal and producer: no slashable vote leaves the node; a restart does not
  forget one; a fault costs a bounded number of journal entries;
* pool: its indexes agree, votes are neither lost nor kept beyond their time;
* snapshot: every accepted block has a snapshot, the proposer limit
  counts what was really proposed and leaves enough proposers, every checkpoint
  takes effect once, justification and finality never go back;
* provider: a snapshot depends on the block's ancestors only, as long as no other block
  at the height of one of them elects another set, and a canonical block always has one;
* execution: all nodes give one verdict on a block whatever their caches, an own
  block is accepted, a block is what the rules say it is, the books balance;
* time: an own block is not too early, slots do not coincide, the chain goes on;
* fork choice: the head never gets worse and keeps what is finalized;
* import, miner, bids, protocol: every job, bid and request ends where it
  belongs, no block is imported or signed twice, limits hold.

## 2. Modules

| module | what it is |
|---|---|
| `VoteJournal` | cache, rules and file of the journal, as operators |
| `VoteProducer` | the voting tasks over the journal; restart; extends `VoteJournal` |
| `VotePool` | the pool |
| `Voting` | a node: the tasks put their votes into the pool that peers fill; composes `VoteProducer` and `VotePool` |
| `ParliaSnapshot` | `Snapshot::apply`, in-turn selection and helpers, as operators |
| `ParliaChain` | blocks accepted one after the other; extends `ParliaSnapshot` |
| `SnapshotService` | abstract: what the snapshot provider promises its callers |
| `SnapshotProvider` | the provider and the header cache; implements `SnapshotService` |
| `BlockTime` | timestamps, intervals, shuffle and back-off, as operators; extends `ParliaSnapshot` |
| `Proposals` | validators that race for blocks in real time; extends `BlockTime` |
| `ForkChoice` | the fork-choice rule over a tree of blocks, as operators |
| `BlockImport` | the import service and the fork-choice engine over reth's engine; extends `ForkChoice` |
| `SystemContracts` | forks, upgrades, the contract calls and their effects, the election |
| `Attestation` | assembling, checking and rewarding attestations |
| `ParliaHeader` | extra data, seal, and the checks of a header |
| `BlockExecution` | the executor of a block in both roles |
| `PayloadBuilder` | filling, finishing and assembling a block |
| `BlockProduction` | nodes that build blocks and execute each other's: composes the five above |
| `CanonicalChain` | external: the canonical tip that the miner follows |
| `BidRuntime` | one simulation, transaction by transaction |
| `BidSimulator` | `send_bid`, queue, best and simulating bids |
| `MinerPipeline` | the workers and payload jobs |
| `DoubleSign` | the double-sign precompile, as operators |
| `Miner` | composes chain, bids and pipeline |
| `BscProtocol` | connections, handshake, registry, range requests |
| `Evn` | EVN peers |
| `BscNetwork` | composes protocol, EVN, downloads and the block caches |
| `MC...` | the instances for TLC |
| `VoteProofs` | theorems about `VoteProducer`, `VotePool` and `Voting` |
| `ParliaProofs` | theorems about `ParliaChain` and `Proposals` |
| `SnapshotProviderProofs`, `BlockImportProofs`, `BlockProductionProofs`, `MinerProofs`, `BscNetworkProofs` | theorems about the module they are named after |
| `SequenceFacts` | lemmas about sequences and least numbers that the proofs share |

Operators marked `MUTANT` are plausible mistakes in the definition that follows
them. No specification uses them; substituting one for its definition must break
the property it is written for.

### VoteJournal, VoteProducer

`lru` is `VoteDataLru`: `order` and `map` are one function from insertion stamps
to votes. `disk` is the file: lines that parse or do not, and whether the last
line still lacks its newline. A task goes through the stages of
`maybe_produce_and_broadcast_for_head`, cut at every access to shared state:

| action | code |
|---|---|
| `Start` | the spawn in `bsc_miner.rs`, then the lock of `PRODUCED_TARGETS` |
| `Warmup`, `Snapshot` | `fetch_add`; the clamping store and the checks on the snapshot |
| `CheckRules` | `under_rules`, lock and unlock |
| `SignFails`, `SignAndPersist` | `sign_vote_with_global`, `persist_vote` under the second lock, its error ignored |
| `Publish` | `put_vote` and `broadcast_votes` |
| `Restart` | the process dies anywhere, also in the middle of a write, and reloads |

`signed`, `published`, `stale`, `raced` and `failed` are histories: no guard of
the code reads them. A check is *overtaken* (`stale`) when another task persists
a vote between it and its own persist. A head carries its justified number, which
stands for the head's snapshot. It is below the head's own number
(`ProducerConstants`): a block's header only attests its ancestors.

### VotePool

The three fields of `VotePool`. Votes are arbitrary: nothing verifies one before
it is inserted. The priority queue is a set of vote data, which loses nothing
because no entry is ever pushed twice (`OneEntryPerBox`). `Popped` is the closed
form of the pop loop: an entry goes when every entry not above it is out of
range. Two entries of equal number are popped in any order, with the same result.

### Voting

The node. A task that publishes puts the envelope of its vote (`Envelope`) into the pool; peers send packets;
a restart empties the pool and reloads the journal. The new-work loop prunes before it spawns a
task, with the provider's last block number, which may be ahead of the head; the task runs later. `PoolStep` therefore
prunes at any time, with any number. `traffic` is a bound: what reaches the node in one behaviour.

### ParliaSnapshot, ParliaChain

One chain; a block is its number. `Apply` follows `Snapshot::apply` statement by
statement: window, proposer check, attestation, BEP-524 removal, epoch length,
validator switch. `NewBlock` is a block that passes `verify_seal` and
`verify_vote_attestation` and whose snapshot the provider then builds; if it
cannot, the chain has stopped (`SnapshotNeverLost`). `checkpoint` is the last
epoch block; `justified` remembers what the snapshots of the latest blocks
justify, because that is the source of a vote for them. `proposers` and
`installed` are histories. Plato is active from the start, and attestations carry
votes of honest voters, whose source for a target block is what the target's
snapshot justifies (`vote_producer.rs`).

### SnapshotService, SnapshotProvider

`SnapshotService` says what a caller sees: it asks about a block and is answered
with nothing or with the snapshot that the block's own ancestors determine (`Own`),
unless the block is disputed: where a block at the height of an ancestor elects another
set, the answer may be computed with that one as a checkpoint (`Possible`; `Right` is the
one or the other). The code does so against its own words, which `snapshot_branch` shows.
`SnapshotProvider` is the code: `threads` are callers in `snapshot_by_hash`, in
the walk back to a known snapshot, or in a turn of `try_rebuild`'s loop, one
action each; `cache`, `db`, `headers` and `numbers` are the shared maps.
`insert_header_to_cache`, the evictions, `SetCanonical`, `Flush` and `restart` are
everybody else. `get_snapshot` and `ask` are the RPC of `rpc/parlia.rs`, whose tags
"safe" and "finalized" mean the latest block (`parse_block_number`). The
refinement maps a thread to its `Client` and is checked as `Implements`. A valid block
is one whose parent's snapshot accepts it (`ValidTree`, part of `Init`).

### BlockTime, Proposals

Timestamps are in milliseconds; the intervals are the code's (3000, 1500, 750, 450).
`back_off_time` shuffles the steps of the validators with `shuffle`, the
Fisher–Yates loop of `go_rng.rs`; the numbers it draws (`int31n`) are a
parameter of which only the range is assumed, because the generator is a table of Go's. `Proposals` lets validators `Prepare` a
header when they see a head, `Offer` it when their delay is over, `Adopt` the best
offer, `Stop` and `Return`, while `Tick` moves a common clock. A due step is taken
within `Lag`.

### ForkChoice, BlockImport

A block is a node of a fixed tree; `Header` gives what the rule reads of it and of
its snapshot. `IsNeedReorg` is the set of answers the rule may give: empty for
an error, both for its random tie-break. `TreeConstants` says that the tree is one
and that a snapshot speaks about its own chain; `AccountableSafety` is
what honest voters guarantee: a finalized block is in the chain of every block
that justifies as much. `import` holds the futures of the service, cut at every
await and at every read of state another thread changes:

| action | code |
|---|---|
| `OnNewBlock`, `OnNewMinedBlock` | the handlers of the two channels; the second spawns a task of its own |
| `NewPayload`, `SyncTo` | `engine.new_payload` and what each answer leads to |
| `ReadNumber`, `ReadHeader` | `chain_info`, then `header_by_number` |
| `TdCurrent`, `TdIncoming` | `header_td` with its cache, the fallback to the parent |
| `Choose` | the rule, then `fork_choice_updated` |
| `Outcome` | the service takes the result in `poll` |
| `EngineInsertsBuilt`, `EngineSync` | external: reth's engine |

reth's engine executes a block whose parent it knows, asks for the ancestors of
one it does not, makes a known block the head unless the head already descends
from it, answers "none" for the difficulty of an unknown block, and may fail at
any request. `stale` and `unsound` are histories: an import is overtaken when the
head changes after it has read it; the history is unsound once such an import has
changed the head, the rule worked without a snapshot, or the engine followed a
block whose ancestors it did not know.

### SystemContracts, Attestation, ParliaHeader, BlockExecution, PayloadBuilder, BlockProduction

`ex` in `BlockExecution` is `BscBlockExecutor`: the block under way, the world
(fees, code, nonces, validators, voting power), the caches, and the first error. Each
operator takes an executor to the one after it, and nothing follows an error, as
with `?`. `execute_block` is `apply_pre_execution_changes`, the transactions, and
`finish`: upgrades at the beginning or the end, initialisation of the contracts,
slashing of the validator whose turn was missed, distribution of fees, finality
rewards, the election once a day, and the caches for the next epoch. A system
transaction goes through `transact_system_tx`: the miner signs it and puts it into
the block, an importer compares it with the block's next one. `PayloadBuilder`
fills a block from the pool up to the reserve of
`estimate_gas_reserved_for_system_txs` and assembles the header.

`ParliaHeader` models the extra data as a sequence of parts with their sizes, its
parsing by position before and after Luban and Bohr, and the seal by the tuple of
fields it covers, which depends on the fork. `Attestation` has the ancestors that
may be attested (one before Fermi, `K_ANCESTOR_GENERATION_DEPTH` after), the quorum,
and the weights of the reward.

`BlockProduction` composes them: `Build` (any validator that may sign, any pool,
any votes), `Alter` (the proposer drops, repeats, swaps or changes system
transactions, validators, turn length, attestation or header fields, sealed
again or not), `Import` (all nodes execute the block, the miner's own engine
possibly not: `submit_built_payload`), `Restart` (empties the caches of a node).
Transactions are of the kinds the code distinguishes: invalid, blacklisted, with blobs with and
without sidecar, free, staking, changing the turn length, reading the
difficulty, with 7702 authorizations. `PREV_RANDAO` is the mix hash a block is built with:
zero, and from Lorentz on the milliseconds of its time. `RefusesItsOwn` lists the four
cases in which the code refuses a block it has built; section 4 describes them.

### CanonicalChain, BidRuntime, BidSimulator, DoubleSign, MinerPipeline, Miner

`jobs` are the payload jobs with their phase, what they built and whether they have
been told to stop; an aborted job and its successor overlap. `payloads` is the
channel, `delayed` the tasks that hold a block back, `recent` the double-sign
guard. A job's timer, a failed build or a late transaction may end it at any
moment (`job_returns`). The properties use `DoubleSign`, the client's own
precompile, as the judge of what a double sign is.

A bid has claims (gas, fees, builder's fee), transactions in an encoding, and a
signature over the hash of `calculate_raw_bid_hash`. `commit_new_bid` decides
whether it replaces what is being simulated; `bid_simulate` is one action whose
result is compared with the best bid when it ends, and which may be interrupted;
`commit_one` is a turn of the loop of `commit_transaction_recovered`, and
`fill_tx_from_pool` merges the pool, cut off anywhere by the timer (`MergeCuts`).

### BscProtocol, Evn, BscNetwork

`conns` are the connections ever made; a peer that reconnects gets a new one, also while it
has another: `into_connection` has no guard, since reth installs the handlers of a session
that is still pending and drops a duplicate later. `registry` maps a peer to a connection. A broadcast copies the registry, sends, and
removes the peers whose send failed, in separate steps. A request task picks a
connection, sends, waits with a time-out; the connection keeps the pending ids
with their time to live. `Answers` are those of honest peers: the code
forwards whatever blocks come under an id. `serve_range` answers from the caches of full
blocks by hash and by number (`RangeResponse`). `Evn` holds the marked peers, the on-chain identities, the
watcher that arms EVN when the node is synced and registers its own identities, and
the listener that refreshes the marks, first once and then periodically.
`BscNetwork` adds announced hashes, downloads and imports: a new block is offered by its
header before it is executed (`on_new_block`, `offered`); the body of a valid one is kept
(`keep_valid`) and in a step of its own the block is announced (`report_valid`), between
which other tasks run, but not the import service. All timers
may fire at any moment.

## 3. Runs

| run | expects | shows |
|---|---|---|
| `voting` | pass | `CleanNoDoubleVote`, `CleanNoSurroundVote`: a slashable vote needs an overtaken check, a failed write or a lost memory-only journal. `RestartIsLossless`: reload = cache. `LossIsBounded`: a failed write costs the file at most two votes. `IndexesAgree`; `AgreedPruneIsExact`: pruning is exact for blocks whose votes agree |
| `vote_race` | violation of `NoDoubleVote` | two tasks, no fault: both pass rule 1, both publish |
| `parlia_chain` | pass | `SnapshotNeverLost`, `RecentsAccurate`, `EnoughProposers`, `CheckpointTakesEffect` (where neighbouring checkpoints have different marks), `InstalledOnce`, `FinalityAdvances` |
| `snapshot_provider` | pass | `Implements`: every question is answered, along the block's own ancestors unless the block is disputed; `CanonicalAnswered`: a canonical block gets its snapshot unless a write failed or two blocks of one height elect different sets (`Uncontested`) |
| `snapshot_branch` | violation of `CanonicalCheckpoint` | a header that was only announced serves as the checkpoint of a canonical block |
| `block_time` | pass | `OwnTimeAccepted`: nobody is refused for its own block's time; `SlotsSeparate`: two blocks compete only if someone came too late; `ChainAdvances` |
| `block_import` | pass | `CleanHeadNeverWorse`, `BestBlockWins`, `FinalizedStays`: while no import acts on an outdated head, the head only gets better, is as good as every block compared with it, and keeps what is finalized. `DifficultiesRight`: a difficulty is right or unknown, the fallback included. `ImportedOnce` |
| `forkchoice_stale` | violation of `UpdateNeverWorse` | two children of the head, imported at the same time: the lighter one replaces the heavier one |
| `block_execution` | pass | `VerdictsAgree`; `OwnBlockAccepted` but for the four cases of `RefusesItsOwn`; `SystemTxsEnforced`, `HeaderEnforced`, `LedgerExact`, `CodeIsLatest`, `EpochPrepared` |
| `miner` | pass | `NoDoubleSign`, `OneLiveJob`, `BestPayloadWins`, `InturnDelivers` of the pipeline; `BestBidIsBest`, `RewardHonored`, `BidBlockSound` of the bids |
| `bsc_protocol` | pass | `AnswerBelongs`; `LatestSenderKept`: a sender is given up for a newer one or after a loss; `ServedRanges`: what is served by hash or number was built or executed here, in order, and what was announced is there until it is pushed out; `EvnPeersMarked` |
| `stale_cleanup` | violation of `LiveSenderRegistered` | the cleanup of a broadcast removes the sender of a peer that has connected again |

A run whose state space would be a product of independent kinds of trouble is cut
into slices: the initial states choose one of several budgets, each rich in one
kind and poor in the others.

Bounds, and why they are enough (distinct states in parentheses):

* `voting` (3.8 million), two slices. Many heads and no peers: a cache of two and three signatures, so that an
  eviction and its consequences happen; heads at three heights, two of them
  competing and with sources that surround in both directions; windows of two and
  one, so that both ends of a window are reached; two tasks, one restart, one fault.
  A capacity of one for `PRODUCED_TARGETS` makes a head come back. `MCView` hides what
  ended tasks leave behind.
  Peers and one head: eight votes of peers for four blocks, one of them the node's own come back; numbers are
  three bits wide, so that one sum wraps; the votes for two blocks disagree on their number. The heads of
  the first slice are all that `vote_race` has.
* `parlia_chain` (753 thousand): the code's epoch lengths 200, 500 and 1000 divided by 50 or so
  (4, 10, 20), validator sets of one and three (check lengths 0 to 3 with turn
  lengths one and two), every fork inside the chain, 43 blocks. The checkpoints at
  4, 8, 10, 20, 40 cover both changes of epoch length. `MCSymmetry` permutes the three
  validators that appear only together. The lengths satisfy `EpochsGrow` and `MarksApart`, so
  `CheckpointTakesEffect` is checked without its exception.
* `snapshot_provider` (140 thousand): three trees, a fork below the last checkpoint, one
  across it, and an announced header at a checkpoint's height; every odd block
  starts an epoch, every third snapshot is persisted; slices for
  a reorganisation with an eviction, two questions at once, and restarts with a
  failed write. `snapshot_branch` asks about the child of a checkpoint only.
* `block_time` (94 thousand): three validators, one of which may stop; the chain starts at four
  heights with turn length one or two and makes three blocks, so that every fork
  that changes a block's time is crossed (Ramanujan 2, Planck 4, Bohr 5, Lorentz 8,
  Maxwell 10, Fermi 11). `Step` = `Lag` = 230 ms: less than the
  smallest interval and the back-off steps of a second, and a divisor of neither.
* `block_import` (210 thousand): a branch of two heavy blocks against one of three light ones
  that justifies two and finalizes one, all five delivered: the smallest tree where a
  heavier block competes with a finalized one. A second slice adds a block built here
  that ties with a delivered one, a block that does not execute, and one fault, with three
  deliveries. The caches are larger than the tree, so `CachesAsSets` forgets the
  order of their entries, and `ImportSymmetry` permutes the slots. `forkchoice_stale`: two
  siblings, two imports.
* `block_execution` (79 thousand): epochs of four and, after Lorentz, six blocks; Kepler, Feynman,
  Plato, Cancun and London share block 2, Bohr and Prague 3, Lorentz and Fermi 5; Maxwell
  at 7, where its epoch length of seven begins an epoch that the snapshot's does not; rewards
  every second block; up to seven blocks. Six scenarios: an election with a restart of node 2, a new
  turn length, altered bodies, altered headers, attestations, a transaction that reads the
  difficulty in any block. `Positions` limits where
  a body is altered to its first and last two transactions. A blob takes two of gas.
* `miner` (350 thousand): two blocks on one parent, one in turn and one not; three moves of the tip
  with three jobs; eight bids, honest, greedy, badly formed, badly signed or
  repeated; a block of eight gas, one of it reserved for the system and one for the
  payment, and one blob; merging cut off after one or four transactions. Own payloads earn 3 or 6 and
  bids 4 and more, so that either may be the better one, and a job may build two.
* `bsc_protocol` (548 thousand): two peers, one whitelisted, versions 1 and 2; three blocks in
  caches of two; ranges of at most two; slices for up to three connections, overlapping or one
  after the other, while votes are sent, for two downloads, arming EVN, and serving what was imported.
  `stale_cleanup` is the first slice.

Fairness, and why the code justifies it:

* `SnapshotProvider`: a thread that rebuilds goes on; it is a loop without waits.
* `Proposals`: time passes, and a running validator takes a step that is due. A
  stopped one need not return.
* `Miner`: the timers of jobs and delayed blocks fire (`tokio::time::sleep`) and the
  result worker takes payloads. Nothing is assumed of the chain, of builds or of builders.
* `BscNetwork`: the ticker of the refresh listener fires.

The other specifications state none, and nothing about them is liveness.

## 4. Findings and observations

Four runs expect a violation; each contradicts a line of the repository.

* `vote_race`: a rule check and the persist it protects are two critical sections
  (`node/vote_producer.rs:206` and `:217`), and each head has its own task.
* `forkchoice_stale`: `update_forkchoice` decides on the head it read before its
  awaits (`node/consensus.rs:397`); even "keep the current head" sends that old
  head to the engine.
* `snapshot_branch`: the checkpoint is looked up as the "canonical header by number"
  (`node/evm/util.rs:106`), which is the header inserted last, of whatever branch
  (`consensus/parlia/provider.rs:280`); a persisted snapshot keeps the wrong set over a restart.
* `stale_cleanup`: the cleanup after a broadcast removes a peer by identity, also when it has
  reconnected since the registry was copied (`registry.rs:268`); nothing registers it again.

What else the models made visible. Properties state these as exceptions, or the
modules reproduce them; none has a run of its own.

Votes and snapshots

* A failed journal write leaves the vote out of the cache too while the vote is
  published (`node/vote_producer.rs:217`), so the next head of that height is voted for.
* `prune` works by block, with the number of the first vote received for it. Votes
  for far heights are never pruned; the pool has no limit.
* `epoch_key` divides by the epoch length of the moment
  (`consensus/parlia/snapshot.rs:235`), so two checkpoints share a mark when the length doubles after
  one epoch, and the second, taken for one that is installed, has no effect: the exception of
  `CheckpointTakesEffect`. The qanet schedule (`hardforks/bsc.rs:202` and `:203`) has Maxwell twenty
  seconds after Lorentz, from genesis on, so its checkpoints 500 and 1000 meet this way. With Lorentz at block 1
  and Maxwell at 2 TLC finds it. On the main network the lengths changed far from such heights.

Block time

* The first block after Bohr may be refused: its back-off is asked for with a
  provisional header whose time is the present, before Bohr (`"bohr"` in `refused`).
  A refused own block is not tried again on the same head.
* Verification has no tolerance for clocks that differ; `Proposals` assumes they agree.
* `delay_for_mining` speaks of four fifths of the period and uses all of it. The job's
  header has no difficulty yet, so the random part of the delay is never used.

Execution

* `verify_turn_length` asks the state after the block, while the header has
  the parent's value: a block that changes the turn length at an epoch boundary is
  refused (the first case of `RefusesItsOwn`).
* After a restart `prepare_validators` silently leaves the validators out (the second), while
  `prepare_turn_length` fails. If Bohr activates exactly on an epoch block, the
  parent's turn length was never cached and nobody can build that block.
* The comment at `node/evm/pre_execution.rs:98` fears an error after a restart;
  `VerdictsAgree` shows that verification does not depend on the caches.
* `next_evm_env` gives the transactions of the block being built the mix hash, from Lorentz on
  its milliseconds, where `evm_env` gives the difficulty "to ensure correct opcode outputs"
  (`node/evm/config.rs:331`, `:257`); before Kepler the builder has zero for the difficulty (`:330`).
  A transaction that writes what it read makes its own block fail by state root (the third).
* `check_header_extra` counts epochs by the length of the fork, the producer by the
  snapshot's; they differ if a fork activates exactly at a multiple of the new
  length that is none of the old, and then nobody can build that block (the fourth).
* With `submit_built_payload` the miner's caches come from its building run, which uses the
  parent's epoch length, while the comment at `node/evm/post_execution.rs:726` asks for
  the one after `apply`.
* A header's blob gas is compared with itself (`consensus/parlia/validation.rs:153`),
  though the comment says with the sum of the blob transactions. The base
  fee must be present and may have any value. Cancun's fields are covered by
  the seal from Bohr on only.
* A missing call of the slash contract is tolerated, its `init` in block 1 included.
  System transactions may stand anywhere among the others.
* The first attestation of a chain is never assembled by this implementation: its
  source must be a justified header, and there is none yet.
* 7702 authorizations may raise a validator's nonce inside the block it
  proposes; system transactions take the nonce from the state, so this is harmless.
* The double-sign precompile's header has the 15 fields of before London, and
  decoding is strict: from London on it rejects every header.

Miner and bids

* A simulation that fails early stays marked as running and shadows
  lower bids until it is cleared; a bid that runs again shares the interrupt flag of its first
  run. The stored best bid is never marked `committed`.
* Payloads and bids are compared by their fees before the builder's part is taken off, so an own
  payload that leaves more to the validator loses to a bid with higher fees.
* A bid's gas is checked by what it claims (exception `HonestGas`). The count of blobs
  stays raised for a pool transaction that then fails, and sidecars of merged
  transactions are not put into the payload.

Network

* A second session of a peer registers its sender over that of the live one. When the duplicate is
  dropped, the peer is unreachable for votes and requests: its first connection is open but not registered,
  and the dead entry stays until a broadcast removes it. `LatestSenderKept` speaks
  of the newest connection for that reason.
* EVN's armed event is lost if the node is synced before the first BSC connection
  installs the listener (the condition of `EvnPeersMarked`), and a whitelisted peer that
  connects before the network handle is set is not made trusted.
* The handshake's deadline is looked at only when a frame arrives. Range requests also go
  to bsc/1 connections, which are documented as votes only. Own requests always ask for one block.
* A block of a peer is offered by its header before it is executed and its body cached
  (`service.rs:294`, with a TODO to validate the header first), so a peer that asks for it then
  finds nothing; `ServedRanges` speaks of blocks announced as valid. `queued_blocks` keeps a block
  whose import failed. `blocks_by_range.rs:72` speaks of headers and empty bodies, but only full
  cached blocks are served.
* `transfer_to_evn_peers` means to reach "EVN peers or proxyed peers" (`service.rs:397`) but goes
  over the marked peers only, so a proxyed peer outside the EVN gets no block from it.
* On-chain identities are only ever added, and a registration that is tried again
  after a failed hand-over broadcasts its transactions again.
* "No difficulty" is cached for a block the engine does not know yet
  (`node/consensus.rs:601`); comparisons with it fail until the entry is evicted. How long
  the head stays behind depends on reth's downloads.

## 5. Proofs

Every theorem below holds for all values of the constants that satisfy the named
assumptions; each run's module extends the modules that state them, so TLC
evaluates them on the instances. `SequenceFacts` has the lemmas about sequences,
and the least-number principle (`LeastNumber`) through which the proofs reason about
what a recursive function computes: the provers cannot instantiate the
library's induction theorems, but a counterexample has a smallest index, and that
is a statement about sets.

`VoteProofs`, the producer. `TypeCorrect` is `Spec => []TypeOK`. The inductive
invariant of the safety results is `CleanInv`: as long as the history is clean,

* the file holds exactly the votes signed, in order, and ends with a newline;
* the cache is the last `MAX_RECENT_ENTRIES` of them, stamped by their position
  (so that reload and cache are literally equal);
* a task about to sign, if not overtaken, still passes the rules;
* any two remembered votes are compatible in the sense of both rules.

None of these is inductive alone: the rules speak about the cache, the property
about the history, and a restart replaces the cache by what the file gives.
`NoDoubleVoteUnlessRaced`, `NoSurroundVoteUnlessRaced` and `RestartGivesCacheBack`
follow from it. `LossBounded` needs no clean history: `LossInv` charges an open line
with the votes it may still take along, two if it parses and one if it does not. The
assumptions are `JournalConstants` and `ProducerConstants`: positive capacities,
natural windows, justified numbers below the head's.

`VoteProofs`, the pool. `PoolTypeCorrect` is the type invariant. `IndexInv` adds to
`IndexesAgree` that every queue entry is the data of a pooled vote, without which
pruning could not be related to the votes. `PruneExactWhereAgreed` proves the action
property for any set of votes, any width and any limit (`PoolConstants`). `VotingImplements` shows that a node
that runs both behaves as each of the two specifications says, so the theorems hold in it;
`VotingConstants` says that the node's own envelopes are among the votes of the pool.

The type invariants of these two modules are proved and no longer checked by a run.

`ParliaProofs`, the chain. `ChainInv` says, of the tip's snapshot, that its history holds
blocks up to the tip and marks of epochs, and before Bohr nothing outside the window
(`GoodSnapshot`); that what is justified and finalized are ancestors in that order
(`GoodVotes`, `GoodJustified`); that the last checkpoint is at the last multiple of the
epoch length, unless the next block is one (`GoodCheckpoint`); and that the mark
of an epoch whose set was installed stays until the epoch ends (`GoodInstalled`). With it,

* `SnapshotsKept`: `apply` finds the checkpoint and allows the proposer that `verify_seal`
  allowed, although the two look at histories one block apart. The arithmetic is in
  `CheckpointFound` and `EpochArithmetic`, for any epoch and check lengths;
* `HalfAble`: a validator that may not propose takes `turn_length` of the last blocks;
  the map from (validator, share) to block is an injection, so at most half are silenced;
* `CheckpointInstalledOnce` and `FinalityNeverBack`, the latter for attestations of
  any of the last `K_ANCESTOR_GENERATION_DEPTH` blocks.

Two more theorems have invariants of their own on top of `ChainInv`, and hypotheses on the
constants without which they are false (`MCParliaChain` asserts that of the first of its
instance; that of the second is a condition of the property):

* `RecentsCounted`: what `sign_recently` counts is what a validator proposed. `AccurateInv`
  compares the snapshot's history with that of the chain, block by block, as far
  back as the limit looks; one block further when the limit is about to grow. Before Bohr a set
  whose limit is larger by two looks further back than the history of the smaller set
  reaches (`LimitGrowsByOne` excludes it; from three validators to six TLC finds the
  counterexample). From Bohr on a new set starts with an empty history, and a chain
  that has Bohr from its first block needs no hypothesis.
* `CheckpointsTakeEffect`: a checkpoint's validators and turn length are in force once the limit
  has passed it. `EffectInv` follows the mark of the last set installed: it is that of the last
  checkpoint, or the last checkpoint is still to take effect and is not much more
  than an epoch away from the marked one (`Slack`: a change of the epoch length may overtake a
  checkpoint that is still pending). `EpochsGrow` says that each epoch length is
  longer than the one before, `MarksApart` that two such checkpoints have different
  marks. They hold when the epoch length changes high up in the chain, as it did on the
  public networks. `MarksApart` fails when forks start so early that `number / epoch_length`
  repeats: the sets of block 500 (in epochs of 500) and of block 1000 (in epochs of 1000) share
  the mark `u64::MAX - 1`. Without the condition the property is false: TLC finds a dropped checkpoint
  with Lorentz at block 1 and Maxwell at 2.

Assumptions: `SnapshotConstants` (finite validator sets, positive epoch and turn
lengths and fork heights in any order), `ChainConstants` (block numbers below the
marks, which count from the top of 64 bits) and `CheckLenBound` (what `MaxCheckLen` bounds).

`ParliaProofs`, the race. `RaceInv` says of every block under way that its time lies at or
after the slot it was made for, and at that slot if its making began in time (`Made`); that the next step with
it is due by then (`Due`); and that it is offered within two lags (`Announced`). The snapshot of the
head stays one on which its validators can be counted (`SoundSnapshot`, which `GoodSnapshot` refines).
`OwnTimesAccepted` is part of the invariant: no validator is refused for the time of its own block, the
seconds of headers before Lorentz included. `SlotsKeptApart` rests on the shuffle: it is a
recursive function that swaps, every swap keeps an arrangement of distinct steps (`SwapKeeps`), and
`ShuffleKeeps` carries that along the loop. Distinct steps are more than three lags apart,
so that a block is made, held back and announced before the next slot opens. Assumptions:
`BlockTimeConstants`, `ProposalConstants`, `WholeSeconds` (the intervals and back-offs from before Lorentz are whole
seconds, as the code's are), `Promptness` (three times `Lag` is below every back-off) and
`DrawsBelow` (a draw is below its bound: the model leaves the tables of `go_rng.rs` out).

`SnapshotProviderProofs`. `Inv` says that every entry of the cache and of the database is a snapshot its
block can have (`CacheOk`), that a thread which walks back or applies blocks again holds a path
of ancestors that starts at such a snapshot (`ThreadsOk`), and that a question marked steady is still
about a canonical block (`SteadyOk`). `Snapshots` and `Ancestors` are recursive functions over an
arbitrary tree; the lemmas that unfold them show that they satisfy their equations, by
the least block number at which they would not. With it,

* `ServiceImplemented`: every step is a step of `SnapshotService` or changes nothing a caller
  sees, the refinement without its fairness. The checkpoint's header is looked up by
  number, so what the code holds is a snapshot from any of the competing checkpoints (`Possible`).
  Where nothing is disputed each of them is that of the block's own ancestors (`UndisputedIsOwn`: the
  competing headers elect the same set, block by block), which is what `Right` then asks for;
* `CanonicalGetsSnapshot`: for a canonical block no header of the walk is missing, and if heights
  are uncontested (`Uncontested`) the snapshot is unique (`PossibleUnique`), so that `apply` accepts
  what the validator accepted.

Assumptions: `SnapshotConstants` and `ProviderConstants` (numbers grow by one along the tree and fit
into 64 bits).

`BlockImportProofs`. `Typed` and `ChoiceInv`: difficulties, cached or held by an
import, are right or unknown; an import that was not overtaken holds the present head; the
head is as good as every settled block. The rule is a preference by justified
number, then difficulty, then number, then hash; `HeadNeverWorse` and
`BestBlockIsHead` need it to be transitive and the difficulties right, including the
ones computed from a parent. `FinalizedNeverLeaves` uses `AccountableSafety` besides; the tree satisfies
`TreeConstants`. `BlocksImportedOnce` has an invariant of its own, `CachesHoldAll`.

`BlockProductionProofs`. `ProductionInv` says that the chain, its snapshots and the
state fit together (`ChainOk`, `IsWorld`), that a proposal was built on the tip (`ProposalOk`),
that the contracts have the code of the forks so far (`CodeAt`), and that whatever a node
has cached about the tip is what the state says (`CachesOk`). Executions are
compared as twins: two executors that differ in their caches only take the same steps, and end with the same
error, state and receipts. `RunExists` and `LeastNumber` carry that through every transaction of the block.

* `CodeFollowsTheForks`: the contracts have the latest code whichever forks share a block and
  at whichever end of the block it is installed. Needs `UpgradesInOrder`: forks that
  ship code for the same contract are in the order of the code's list.
* `NodesNeverPart`: no two nodes disagree about a block, whatever is in their caches.
* `EpochsArePrepared`: a node that executed the tip can start the next epoch.
* `HeadersEnforced`: whoever altered it, a header that is accepted is pinned to what its proposer
  had built. Two executions are compared here, the builder's and that of a node which
  meets an altered block, so twins do not help; books do. `MinerBooks` says that the builder's receipts are the
  gas of its transactions followed by that of its system transactions, `NodeBooks` that the receipts
  of another node together with the gas of what the block still requires are
  those of the whole block, or that a user's transaction that was set aside blocks the
  rest. Both survive every call (`SystemTxKept`, `DueKept`, `CheckedStep`), so each
  side ends with the receipts that the block's own lists determine (`BuildHonest`,
  `ExecutedBooks`). `HeaderPinned` then derives the fields from the checks, and `HashTells` the
  whole header from its seal. `HeaderInv`, the invariant on top of `ProductionInv`, carries
  what this needs from block to block: finite sets of validators, turn lengths that are
  numbers, also in the caches, and blob fields of the tip from Cancun on.

`NodesNeverPart` and `EpochsArePrepared` assume `~submit_built_payload`. With it the miner
keeps what its building run cached, which section 4 describes. `HeadersEnforced` assumes
`CancunBlock <= BohrBlock` and `CancunBlock <= PragueBlock`: `assemble_block_bsc` writes the
beacon root and the requests hash only into headers of Cancun, and the checks ask for them
by Bohr and Prague alone. Every schedule in `hardforks/bsc.rs` has that order. It uses
of `ProductionConstants` that transactions set no turn length but the contract's.

`MinerProofs`. `BidInv`: queued and running bids have passed the checks, and the best
bid of a parent is the best of all that ended. `RewardKept` shows that
the claims a bid was accepted with keep the unchecked subtraction of the builder's fee from wrapping, provided that
a block's fees fit into the word (`FeesFit`). `MinerInv` adds three parts: no job
is on a parent above the highest tip, and only the newest is live (`JobInv`); a payload is in
one place (`PayloadInv`); the guard's entries were signed, their heights are each there
once, none is more than `ReorgDepth` below one that was used less recently, and a
submitted block is remembered while a tip can still be below it (`GuardInv`).

* `NoEvidence` needs `CacheSize > 2 * ReorgDepth`, not just `> ReorgDepth`: the guard's LRU is
  touched by lookups, so an entry near the tip can be evicted in favour of heights
  up to `ReorgDepth` on either side. The code's 100 entries
  (`node/miner/bsc_miner.rs:54`) allow reorganisations of 49 blocks, far beyond finality.
* `BestPayloadSent`: the fees sent cover everything the job has built and every bid that was
  simulated to its end on its parent. The best bid's reward does so for the bids (`BestBidIsBest`), and
  its fees are no less than its reward (`FeesCover`); the job compares with that bid when it sends.
* `OneJobLives`, `BestBidKept`.
* `BestBlockSound`: what holds of the block that a simulation has built so far is carried through every
  turn of its loops (`CommitLoop`), from the bid's own transactions over those merged from the pool to
  the payment. No transaction is in the block twice because a sender's nonces are
  taken in order and a hash covers sender and nonce.

Assumptions: `ChainAssumption`, `MinerAssumption`, `TxAssumption`, `BidAssumption` (amounts are natural
numbers, a transaction uses at most its gas limit, its id determines sender and nonce,
a bid's parent is a block, the reserve fits into a block).

`BscNetworkProofs`. `NetInv`: every copy of the registry files a connection under its
peer and a broadcast removes what it found closed (`RegistryInv`); a request id is its
own (`RequestInv`); what a connection has pending or queued was sent over it
(`LinkInv`); what was announced, or is about to be, is cached or was evicted, and what is cached was executed
or built here (`CacheInv`). `AnswersBelong`
needs the first three together, since an answer meets the pending table, and the task
behind it, only by its id. `LatestSender` assumes nothing of when a peer connects: registering puts the newest
connection into its place, and only a cleanup takes it out, after a connection of that peer has ended
(`NewestHeld`, `RemovedGone`). `RangesServed` follows the walk back by parents through the cache. They complete the safety
properties of the run. Assumptions: `ProtocolConstants`, `NetworkConstants`.

Only model-checked, and why:

* Of `BlockProduction`, `OwnBlockAccepted`, `SystemTxsEnforced` and `LedgerExact`.
  The first two need the states of two different executions, the builder's and that of a node which
  checks the block, to agree call by call, where the books of `HeadersEnforced` count gas only.
  `LedgerExact` equates two sums over the chain, one by blocks and one by rewards: an
  induction over data.
* Liveness is out of the prover's reach: `ChainAdvances`, `InturnDelivers`, `EvnPeersMarked`,
  the fair part of `Implements`.

## 6. What could come next

1. `SystemTxsEnforced`, by a simulation between the builder's executor and that of the node
   that checks, up to nonces and skipped slashes.
2. `LedgerExact`, with the weights of an interval as a recursive function of its blocks.

## 7. Not modelled

* Signatures and hashes are ideal: a hash is what was hashed.
* The EVM interpreter (revm), the CometBFT, BLS, IAVL and secp256k1 precompiles:
  functions on byte strings without state.
* `system_contracts/abi.rs`, the embedded byte code, `node/evm/patch/mod.rs` (storage values of
  historical blocks), the table of `go_rng.rs`, chain tables and boot nodes: data. What
  the contracts do is reduced to what the client reads back.
* `assemble_block` in `node/evm/assembler.rs:214` and after, which says of itself that it is unused.
* Codecs of messages, of the journal and of snapshots, metrics and logging.
* Which peers a block is forwarded to (`transfer_to_evn_peers` and direct gossip): output.
* The transaction pool, RPC simulation and blob methods: reth's, or read-only.
* Vote production: gates that do not change in one life of the process and the clamped
  warm-up counter beyond its threshold.
* The eviction of the cache of difficulties, and the safe and finalized hashes handed
  to the engine.
* The benchmark tool in the repository's `bin/`.
