-------------------------- MODULE PayloadBuilder ---------------------------
(***************************************************************************)
(* How a node makes a block (src/node/miner/payload.rs,                    *)
(* src/node/evm/builder.rs, src/node/evm/assembler.rs,                     *)
(* src/node/miner/util.rs), and how it executes somebody else's.           *)
(*                                                                         *)
(* The pool is a sequence of transactions, best first. `votes` maps each   *)
(* block to the votes for it in the vote pool.                             *)
(***************************************************************************)
EXTENDS BlockExecution

CONSTANTS
  SYSTEM_TXS_GAS_SOFT_LIMIT,   \* reserved in an ordinary block
  SYSTEM_TXS_GAS_HARD_LIMIT,   \* reserved where contracts are initialised or elect
  MaxBlobCount, MinGasTip

\* MUTANT: the ordinary reserve for every block.
estimate_gas_reserved_for_system_txs_soft(n, parent, day) == SYSTEM_TXS_GAS_SOFT_LIMIT

estimate_gas_reserved_for_system_txs(n, parent, day) ==
  IF /\ IsActive("Feynman", n) /\ ~IsTransition("Feynman", n)
     /\ ~is_breathe_block(parent, day)
  THEN SYSTEM_TXS_GAS_SOFT_LIMIT ELSE SYSTEM_TXS_GAS_HARD_LIMIT

\* Saturating, as the code subtracts.
BlockGasLimit(ex) ==
  LET reserved == estimate_gas_reserved_for_system_txs(ex.number, ex.parent, ex.day)
  IN IF reserved > GasLimit THEN 0 ELSE GasLimit - reserved

BlobCount(txs) == FoldLeft(LAMBDA sum, tx : sum + tx.blobs, 0, txs)

\* The checks a transaction of the pool passes before it is executed.
Packable(ex, tx) ==
  /\ tx.price >= MinGasTip
  /\ ex.gas_used + tx.gas <= BlockGasLimit(ex)
  /\ tx.blobs > 0 =>
       /\ BlobCount(ex.txs) + tx.blobs <= IF IsCancun(ex.number) THEN MaxBlobCount ELSE 0
       /\ tx.sidecar

\* One turn of the loop over the pool: an invalid transaction is passed over, any other
\* failure ends the attempt.
Pack(ex, tx) ==
  LET executed == execute_transaction(ex, tx)
  IN IF ~Ok(ex) \/ ~Packable(ex, tx) \/ executed.err = "InvalidTx" THEN ex ELSE executed

----------------------------------------------------------------------------
(* The header. *)

StartsEpoch(ex) == ex.number % ex.snap.epoch_num = 0

\* prepare_validators: nothing is written if the cache has no entry for the parent.
prepare_validators(ex) ==
  IF StartsEpoch(ex) /\ ex.parent \in DOMAIN ex.validator_cache
  THEN ValidatorBytes(ex.validator_cache[ex.parent], ex.number) ELSE <<>>

\* prepare_turn_length: from Bohr on it is an error if the cache has no entry.
prepare_turn_length(ex) ==
  IF ~(StartsEpoch(ex) /\ IsBohr(ex.number)) THEN NoTurn
  ELSE IF ex.parent \notin DOMAIN ex.turn_length_cache THEN ErrTurn
  ELSE ex.turn_length_cache[ex.parent]

\* finalize_new_header: the difficulty, the extra data and the seal.
finalize_new_header(ex, votes, header) ==
  LET turn == prepare_turn_length(ex)
      extra == ExtraData(ex.number, prepare_validators(ex), turn,
                         assemble_vote_attestation(ex.snaps, votes, ex.number))
      zeroed == [header EXCEPT !.inturn = (ex.beneficiary = InturnValidator(ex.snap)),
                               !.extra = Append(extra, <<"seal", ZeroAddress, None>>)]
  IN IF turn = ErrTurn THEN Fail(ex, "TurnLengthNotFound")
     ELSE [ex EXCEPT !.block = Sealed(zeroed, ex.beneficiary)]

\* assemble_block_bsc: the block of what was executed.
assemble_block_bsc(ex, votes) ==
  LET txs == ex.txs
      header == [number |-> ex.number, beneficiary |-> ex.beneficiary, inturn |-> FALSE,
                 day |-> ex.day, extra |-> <<>>, txs |-> txs,
                 system_txs |-> ex.assembled_system_txs, gas_used |-> ex.gas_used,
                 receipts_root |-> ex.receipts]
  IN finalize_new_header(ex, votes, WithFields(header, ForkFields(ex.number, ex.parent, txs)))

----------------------------------------------------------------------------
(* Blocks. *)

\* What the executor read for the next epoch is cached under the block.
cache_shared(ex) ==
  IF ~Ok(ex) THEN ex
  ELSE [ex EXCEPT
          !.validator_cache = IF ex.shared_validators = {} THEN @
                              ELSE Insert(@, ex.block, ex.shared_validators),
          !.turn_length_cache = IF ex.shared_turn = NoTurn THEN @
                                ELSE Insert(@, ex.block, ex.shared_turn)]

assemble(ex, votes) == IF Ok(ex) THEN cache_shared(assemble_block_bsc(ex, votes)) ELSE ex

\* BscBlockBuilder::finish.
builder_finish(ex, votes) == assemble(finish(ex, GenesisBlock), votes)

\* build_payload. The caller cuts the pool where the build is cancelled.
build_payload(ex, pool, votes) ==
  LET begun == apply_pre_execution_changes(ex, GenesisBlock)
  IN Then(begun, LET packed == RunAll(Pack, begun, pool)
                 IN Then(packed, builder_finish(packed, votes)))

build_empty_payload(ex, votes) ==
  LET begun == apply_pre_execution_changes(ex, GenesisBlock)
  IN Then(begun, builder_finish(begun, votes))

\* The execution of a block on a node that did not build it.
execute_block(ex, block) ==
  LET begun == apply_pre_execution_changes(ex, block)
      executed == RunAll(execute_checked_transaction, begun, block.txs)
      gathered == [executed EXCEPT !.system_txs = @ \o block.system_txs]
  IN Then(begun, Then(executed, finish(gathered, block)))

\* What a node says of a block: the checks of its header, its execution, the checks of
\* what came out. "" is the verdict of one that is accepted.
validate_block(ex, executed, block) ==
  IF ~(validate_header(block) /\ validate_header_against_parent(block, ex.parent)
       /\ validate_block_pre_execution(block)) THEN "header"
  ELSE IF ~Ok(executed) THEN executed.err
  ELSE IF ~validate_block_post_execution(block, executed.receipts) THEN "post-execution"
  ELSE ""
============================================================================
