-------------------------- MODULE BlockExecution ---------------------------
(***************************************************************************)
(* The execution of one block (src/node/evm): the executor, in the two     *)
(* roles it has, that of the proposer, who generates the system            *)
(* transactions and signs them, and that of every other node, which        *)
(* requires them.                                                          *)
(*                                                                         *)
(* An executor is a record that each step maps to the next one. A step     *)
(* that fails sets `err`, and no step is taken after that. The contracts'  *)
(* and the accounts' state is the record `world`. The EVM is left out: a   *)
(* transaction is described by what it does.                               *)
(***************************************************************************)
EXTENDS Attestation

CONSTANTS
  GenesisValidators,
  FF_REWARD_DISTRIBUTION_INTERVAL,   \* 200
  SYSTEM_REWARD_PERCENT,             \* a shift, 4
  MAX_SYSTEM_REWARD,
  MaxElectedValidators,
  ChainId,
  Blacklist                          \* NANO_BLACKLIST

ASSUME ExecutionConstants ==
  /\ GenesisValidators \in ValidatorSets
  /\ Addresses \subseteq Nat
  /\ Blacklist \subseteq Addresses
  /\ {FF_REWARD_DISTRIBUTION_INTERVAL, K_ANCESTOR_GENERATION_DEPTH} \subseteq Nat \ {0}

Zero == [a \in Addresses |-> 0]

GenesisWorld ==
  [nonce |-> Zero, delegate |-> [a \in Addresses |-> ZeroAddress], system |-> 0, system_reward |-> 0, deposits |-> 0, paid |-> 0,
   validators |-> GenesisValidators, turn |-> 1, power |-> Zero, observed |-> {},
   slashes |-> Zero, weights |-> Zero, initialized |-> <<>>,
   code |-> [c \in Contracts |-> "Genesis"], history_storage |-> FALSE]

GenesisBlock ==
  LET extra == ExtraData(0, ValidatorBytes(GenesisValidators, 0), NoTurn, NoVotes)
  IN WithFields(
       [number |-> 0, beneficiary |-> ZeroAddress, inturn |-> FALSE, day |-> 1,
        extra |-> Append(extra, <<"seal", ZeroAddress, None>>),
        txs |-> <<>>, system_txs |-> <<>>, gas_used |-> 0, receipts_root |-> <<>>],
       ForkFields(0, [number |-> None], <<>>))

TipOf(chain) == IF chain = <<>> THEN GenesisBlock ELSE Last(chain)

\* BscBlockExecutor::new, on the tip of a chain with its snapshots, its state and the
\* caches of the node that executes.
NewExecutor(chain, snaps, world, cache, is_miner, beneficiary, day, env) ==
  [is_miner |-> is_miner, number |-> Len(chain) + 1, beneficiary |-> beneficiary, day |-> day,
   parent |-> TipOf(chain), env |-> env,
   chain |-> chain, snaps |-> snaps, snap |-> snaps[Len(chain)], world |-> world,
   gas_used |-> 0, receipts |-> <<>>,
   txs |-> <<>>, system_txs |-> <<>>, assembled_system_txs |-> <<>>,
   validator_cache |-> cache.validators, turn_length_cache |-> cache.turn,
   current_validators |-> {}, election_info |-> Zero,
   shared_validators |-> {}, shared_turn |-> NoTurn, block |-> GenesisBlock, err |-> ""]

Ok(ex) == ex.err = ""
Fail(ex, why) == [ex EXCEPT !.err = why]

\* The next step of an execution that has not failed.
Then(ex, next) == IF Ok(ex) THEN next ELSE ex

\* A step for every transaction, one after the other.
RunAll(step(_, _), ex, txs) ==
  LET run[i \in 0..Len(txs)] == IF i = 0 THEN ex ELSE step(run[i - 1], txs[i])
  IN run[Len(txs)]

\* is_breathe_block: the first block of a day.
is_breathe_block(parent, day) == parent.day # 0 /\ parent.day # day

\* The block whose system transactions include the election of the validators.
ElectsValidators(n, parent, day) ==
  /\ IsActive("Feynman", n) /\ ~IsTransition("Feynman", n)
  /\ is_breathe_block(parent, day)

----------------------------------------------------------------------------
(* The caches of what the contracts say after a block. *)

\* get_current_validators_with_cache: on a miss the contract is asked in the state the
\* executor has at that moment.
get_current_validators_with_cache(ex, block) ==
  IF block \in DOMAIN ex.validator_cache THEN ex
  ELSE [ex EXCEPT !.validator_cache = Insert(@, block, get_current_validators(ex.world))]

----------------------------------------------------------------------------
(* System transactions. *)

\* MUTANT: a missing transaction is forgiven whatever contract it is for.
MayBeMissing_any(ex, tx) == TRUE

\* A call of the slash contract that the block does not have is taken for one that
\* failed, unless the block's next system transaction is for that contract too.
MayBeMissing(ex, tx) ==
  tx.to = "slash" /\ (ex.system_txs = <<>> \/ Head(ex.system_txs).to # "slash")

\* transact_system_tx: a proposer signs the transaction and keeps it for the block;
\* another node requires it to be the block's next system transaction.
transact_system_tx(ex, transaction) ==
  LET sender == ex.beneficiary
      tx == set_nonce(transaction, ex.world.nonce[sender])
      begun == [ex.world EXCEPT !.nonce[sender] = @ + 1]
      executed == [ex EXCEPT !.world = Effect(begun, tx),
                             !.gas_used = @ + SystemGas[tx.call],
                             !.receipts = Append(@, SystemGas[tx.call])]
  IN IF ~Ok(ex) THEN ex
     ELSE IF ex.is_miner THEN [executed EXCEPT !.assembled_system_txs = Append(@, tx)]
     ELSE IF ex.system_txs # <<>> /\ Head(ex.system_txs) = tx
          THEN [executed EXCEPT !.system_txs = Tail(@)]
     ELSE IF MayBeMissing(ex, tx) THEN ex
     ELSE Fail(ex, "UnexpectedSystemTx")

transact_system_txs(ex, txs) == RunAll(transact_system_tx, ex, txs)

\* The in-turn validator is slashed when another one proposes, unless it is in-turn
\* only because of what it proposed before.
Spoiled(ex) ==
  LET v == InturnValidator(ex.snap)
  IN IF IsActive("Plato", ex.number) THEN ~SignRecently(ex.snap, v)
     ELSE v \notin Range(ex.snap.recent_proposers)

slash_spoiled_validator(ex) == transact_system_tx(ex, slash(InturnValidator(ex.snap)))

\* distribute_incoming: the fees of the block, until Kepler less the part that fills
\* the system reward, are deposited for the proposer.
distribute_incoming(ex) ==
  LET block_reward == ex.world.system
      drained == [ex EXCEPT !.world.system = 0]
      shared == /\ ~IsActive("Kepler", ex.number)
                /\ ex.world.system_reward < MAX_SYSTEM_REWARD
      to_system == IF shared THEN block_reward \div 2 ^ SYSTEM_REWARD_PERCENT ELSE 0
      paid == IF to_system > 0 THEN transact_system_tx(drained, distribute_to_system(to_system))
              ELSE drained
  IN IF ~Ok(ex) \/ block_reward = 0 THEN ex
     ELSE transact_system_tx(paid,
            distribute_to_validator(ex.beneficiary, block_reward - to_system))

\* MUTANT: the parent is left out.
RewardWindow_short(n) == (n - FF_REWARD_DISTRIBUTION_INTERVAL)..(n - 2)

RewardWindow(n) == Max({n - FF_REWARD_DISTRIBUTION_INTERVAL, 1})..(n - 1)

NonZero(weights) == Restrict(weights, {a \in DOMAIN weights : weights[a] # 0})

\* What the attestations in the blocks since the last reward count for.
AttestationWeights(n, snaps, chain) ==
  LET add(weights, block) ==
        IF block.number \in RewardWindow(n) THEN process_attestation(snaps, block, weights)
        ELSE weights
  IN FoldLeft(add, Zero, chain)

do_distribute_finality_reward(ex) ==
  IF IsActive("Plato", ex.number) /\ ex.number % FF_REWARD_DISTRIBUTION_INTERVAL = 0
  THEN transact_system_tx(ex, distribute_finality_reward(
         NonZero(AttestationWeights(ex.number, ex.snaps, ex.chain))))
  ELSE ex

\* The election of the day, with what the contract said before the block.
update_validator_set(ex) ==
  IF ElectsValidators(ex.number, ex.parent, ex.day)
  THEN transact_system_tx(ex, update_validator_set_v2(
         get_top_validators_by_voting_power(ex.election_info, MaxElectedValidators)))
  ELSE ex

\* The system transactions of an ordinary block, in their order.
transact_due(ex, inturn) ==
  update_validator_set(do_distribute_finality_reward(distribute_incoming(
    IF ~inturn /\ Spoiled(ex) THEN slash_spoiled_validator(ex) ELSE ex)))

----------------------------------------------------------------------------
(* Before and after the transactions. *)

\* The other fields of the account stay.
upgrade_system_contract(code, new) ==
  [c \in Contracts |-> IF c \in DOMAIN new THEN new[c] ELSE code[c]]

upgrade_contracts(ex) ==
  [ex EXCEPT !.world.code = upgrade_system_contract(@, get_upgrade_system_contracts(ex.number))]

apply_history_storage_account(ex) == [ex EXCEPT !.world.history_storage = TRUE]

IsPragueTransition(n) == n >= PragueBlock /\ n - 1 < PragueBlock

\* MUTANT: the beginning of a block upgrades if Feynman is not active in the block itself.
try_update_build_in_system_contract_late(ex, at_block_begin) ==
  IF IF at_block_begin THEN ~IsActive("Feynman", ex.number) ELSE IsActive("Feynman", ex.number - 1)
  THEN upgrade_contracts(ex) ELSE ex

\* Until Feynman is active in the parent, contracts are upgraded when a block begins,
\* afterwards when it ends. Prague deploys the history storage at the beginning.
try_update_build_in_system_contract(ex, at_block_begin) ==
  LET upgraded == IF at_block_begin = ~IsActive("Feynman", ex.number - 1)
                  THEN upgrade_contracts(ex) ELSE ex
  IN IF at_block_begin /\ IsPragueTransition(ex.number)
     THEN apply_history_storage_account(upgraded) ELSE upgraded

\* What prepare_new_block and check_new_block read of the contracts for the election.
read_election_info(ex) ==
  IF ElectsValidators(ex.number, ex.parent, ex.day)
  THEN [ex EXCEPT !.election_info = get_validator_election_info(ex.world)] ELSE ex

prepare_new_block(ex) == read_election_info(ex)

\* verify_seal: signed by a validator that has not proposed too often, and its difficulty.
verify_seal(snap, block) ==
  /\ recover_proposer(block) = block.beneficiary
  /\ block.beneficiary \in snap.validators
  /\ ~SignRecently(snap, block.beneficiary)
  /\ block.inturn = (block.beneficiary = InturnValidator(snap))

\* MUTANT: the contract is not asked when the cache has no entry.
check_new_block_cached(ex, block) ==
  IF ~verify_vote_attestation(ex.snaps, block)
  THEN Fail(ex, "attestation")
  ELSE IF ~verify_seal(ex.snap, block) THEN Fail(ex, "seal")
  ELSE read_election_info(
         IF ex.parent \in DOMAIN ex.validator_cache
         THEN [ex EXCEPT !.current_validators = ex.validator_cache[ex.parent]] ELSE ex)

\* check_new_block: the header against the parent's snapshot, then what the contracts
\* say about the validators in the parent's state.
check_new_block(ex, block) ==
  IF ~verify_vote_attestation(ex.snaps, block)
  THEN Fail(ex, "attestation")
  ELSE IF ~verify_seal(ex.snap, block) THEN Fail(ex, "seal")
  ELSE read_election_info(
         IF ex.number % ex.snap.epoch_num = 0
         THEN LET read == get_current_validators_with_cache(ex, ex.parent)
              IN [read EXCEPT !.current_validators = read.validator_cache[ex.parent]]
         ELSE ex)

apply_pre_execution_changes(ex, block) ==
  LET checked == IF ex.is_miner THEN prepare_new_block(ex) ELSE check_new_block(ex, block)
  IN Then(checked, try_update_build_in_system_contract(checked, TRUE))

----------------------------------------------------------------------------
(* The transactions of users. *)

\* reward_beneficiary: what a transaction pays into the system account, for its gas and
\* from Cancun on for its blobs.
TxFee(n, env, tx) ==
  tx.gas * tx.price
  + IF SpecId(revm_spec_by_timestamp_and_block_number(n)) >= CANCUN
    THEN blob_gas_used(<<tx>>) * env.blob_gasprice ELSE 0

\* What the instruction DIFFICULTY, later PREVRANDAO, returns.
OpcodeDifficulty(n, env) ==
  IF SpecId(revm_spec_by_timestamp_and_block_number(n)) >= MERGE THEN env.prevrandao
  ELSE env.difficulty

\* apply_eip7702_auth_list: an account that authorizes with its next nonce, on this chain or
\* on all, gets the code of another, or none for the zero address, and the nonce after it.
\* The accounts of the model have no code of their own.
apply_eip7702_auth_list(accounts, tx) ==
  LET counts(v, auth) ==
        /\ auth.chain_id \in {0, ChainId}
        /\ auth.nonce # U64_MAX
        /\ auth.authority \in Addresses \ Blacklist
        /\ auth.nonce = v.nonce[auth.authority]
      apply(v, auth) ==
        IF counts(v, auth)
        THEN [v EXCEPT !.delegate[auth.authority] = auth.address, !.nonce[auth.authority] = @ + 1]
        ELSE v
  IN FoldLeft(apply, accounts, tx.authorization_list)

\* What a transaction does: it pays its fee, it may change the turn length or the voting
\* power that the contracts hold, and it may store the difficulty it sees. `paid` adds up
\* the fees.
Transact(w, n, env, tx) ==
  LET begun == [a \in Addresses |-> IF a = tx.sender THEN w.nonce[a] + 1 ELSE w.nonce[a]]
      accounts == apply_eip7702_auth_list([nonce |-> begun, delegate |-> w.delegate], tx)
  IN [w EXCEPT
        !.nonce = accounts.nonce, !.delegate = accounts.delegate,
        !.system = @ + TxFee(n, env, tx), !.paid = @ + TxFee(n, env, tx),
        !.turn = IF tx.turn = NoTurn THEN @ ELSE tx.turn,
        !.power = Plus(@, tx.power),
        !.observed = IF tx.reads THEN @ \cup {<<n, OpcodeDifficulty(n, env)>>} ELSE @]

\* Valid by itself and of a type the block's rules have.
IsValid(tx, n) ==
  tx.valid /\ (tx.authorization_list # <<>>
                => SpecId(revm_spec_by_timestamp_and_block_number(n)) >= PRAGUE)

\* execute_transaction_with_commit_condition: the proposer's.
execute_transaction(ex, tx) ==
  IF ~Ok(ex) THEN ex
  ELSE IF tx.gas > GasLimit - ex.gas_used
       THEN Fail(ex, "TransactionGasLimitMoreThanAvailableBlockGas")
  ELSE IF ~IsValid(tx, ex.number) \/ tx.price < ex.env.basefee THEN Fail(ex, "InvalidTx")
  ELSE [ex EXCEPT !.world = Transact(@, ex.number, ex.env, tx), !.gas_used = @ + tx.gas,
                  !.receipts = Append(@, tx.gas), !.txs = Append(@, tx)]

\* A user's transaction that another node takes for a system transaction.
AsSystem(tx) == SystemTx("other", "user", <<>>, tx.gas)

\* execute_transaction_with_result_closure: another node first sets aside what it takes
\* for system transactions, for the end of the block.
execute_checked_transaction(ex, tx) ==
  IF Ok(ex) /\ is_system_transaction(tx, ex.beneficiary)
  THEN [ex EXCEPT !.system_txs = Append(@, AsSystem(tx))]
  ELSE execute_transaction(ex, tx)

\* verify_turn_length: the contract is asked after the block's transactions.
verify_turn_length(ex, block) ==
  ex.number % ex.snap.epoch_num = 0 /\ IsBohr(ex.number) =>
    get_turn_length_from_header(block, ex.snap.epoch_num) = get_turn_length(ex.world)

\* The bytes of the validators that the contract named, and those in the header. The
\* code panics when the header has none.
verify_validators(ex, block) ==
  ex.number % ex.snap.epoch_num = 0 =>
    ValidatorBytes(ex.current_validators, ex.number)
      = get_validator_bytes_from_header(block, ex.snap.epoch_num)

\* The snapshot of a block, whose checkpoint is on the chain or the block itself.
SnapshotOf(ex, block) ==
  LET number == ex.number - MinerHistoryCheckLen(ex.snap)
      at == IF number = 0 THEN GenesisBlock ELSE Append(ex.chain, block)[number]
      validators == parse_validators_from_header(at, ex.snap.epoch_num)
      turn == get_turn_length_from_header(at, ex.snap.epoch_num)
      cp == IF number < 0 \/ validators = {} \/ turn = ErrTurn THEN [number |-> -1]
            ELSE [number |-> number, validators |-> validators, turn |-> turn]
      att == AttestationIn(ex.snaps, block)
  IN IF att = BadVotes THEN NoSnapshot
     ELSE SnapshotAfter(ex.snap, block.beneficiary,
                        [source |-> att.source, target |-> att.target], cp)

CacheTurnLength(ex, block) == [ex EXCEPT !.turn_length_cache = Insert(@, block, get_turn_length(ex.world))]

\* MUTANT: the parent's snapshot is asked whether an epoch follows.
cache_for_next_epoch_parent(ex, block) ==
  LET cached == get_current_validators_with_cache(ex, block)
  IN IF ~Ok(ex) THEN ex
     ELSE IF ex.system_txs # <<>> THEN Fail(ex, "UnexpectedSystemTx")
     ELSE IF SnapshotOf(ex, block) = NoSnapshot THEN Fail(ex, "snapshot")
     ELSE IF (ex.number + 1) % ex.snap.epoch_num # 0 THEN ex
     ELSE IF IsBohr(ex.number) THEN CacheTurnLength(cached, block) ELSE cached

\* The end of post_check_new_block: nothing may be left over, and the caches are filled
\* for the next block if that one starts an epoch.
cache_for_next_epoch(ex, block) ==
  LET snap == SnapshotOf(ex, block)
      cached == get_current_validators_with_cache(ex, block)
  IN IF ~Ok(ex) THEN ex
     ELSE IF ex.system_txs # <<>> THEN Fail(ex, "UnexpectedSystemTx")
     ELSE IF snap = NoSnapshot THEN Fail(ex, "snapshot")
     ELSE IF (ex.number + 1) % snap.epoch_num # 0 THEN ex
     ELSE IF IsBohr(ex.number) THEN CacheTurnLength(cached, block)
     ELSE cached

\* post_check_new_block: what the header claims, the system transactions in their order,
\* then the caches.
post_check_new_block(ex, block) ==
  IF ~verify_validators(ex, block) THEN Fail(ex, "Invalid validators")
  ELSE IF ~verify_turn_length(ex, block) THEN Fail(ex, "MismatchingEpochTurnLengthError")
  ELSE cache_for_next_epoch(transact_due(ex, block.inturn), block)

share_for_next_epoch(ex) ==
  IF (ex.number + 1) % ex.snap.epoch_num # 0 THEN ex
  ELSE [ex EXCEPT !.shared_validators = get_current_validators(ex.world),
                  !.shared_turn = IF IsBohr(ex.number) THEN get_turn_length(ex.world) ELSE NoTurn]

\* finalize_new_block: the same for the proposer, who asks the parent's snapshot whether
\* an epoch follows and hands what it read to the builder.
finalize_new_block(ex) ==
  share_for_next_epoch(transact_due(ex, ex.beneficiary = InturnValidator(ex.snap)))

\* The contracts of Feynman and those of the genesis block.
initialize_contracts(ex) ==
  LET feynman == IF IsTransition("Feynman", ex.number)
                 THEN transact_system_txs(ex, feynman_contracts_txs) ELSE ex
  IN IF ex.number = 1 THEN transact_system_txs(feynman, genesis_contracts_txs) ELSE feynman

EndOfRole(ex, block) ==
  IF ~Ok(ex) THEN ex
  ELSE IF ex.is_miner THEN finalize_new_block(ex) ELSE post_check_new_block(ex, block)

\* finish: upgrades, the transactions that initialise new contracts, then the role's end.
finish(ex, block) ==
  Then(ex, EndOfRole(initialize_contracts(try_update_build_in_system_contract(ex, FALSE)), block))
============================================================================
