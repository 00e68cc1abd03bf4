---------------------------- MODULE ParliaHeader ----------------------------
(***************************************************************************)
(* The header of a block: what Parlia writes into its extra data and reads *)
(* back (consensus.rs), its seal (util.rs, signer.rs), the fields that     *)
(* forks add (assembler.rs) and the checks made of them before and after   *)
(* the execution (validation.rs, node/consensus.rs).                       *)
(*                                                                         *)
(* Extra data is a sequence of cells, each the bytes of one item: the      *)
(* vanity, a byte, an address, a vote key, an encoded attestation or the   *)
(* seal. Where the code reads a byte of another kind of cell it reads      *)
(* something arbitrary; NotAByte stands for it, and the block is refused   *)
(* whatever it is. A field that a header does not have is None, and a root *)
(* is what it is the root of. The block's time is checked in BlockTime.    *)
(***************************************************************************)
EXTENDS SystemContracts

CONSTANTS
  GasLimit,
  LondonBlock,
  DATA_GAS_PER_BLOB, MAX_DATA_GAS_PER_BLOCK_DENCUN,
  BlobTarget                      \* blob gas above which a block raises the blob fee

EXTRA_VANITY_LEN == 1
EXTRA_SEAL_LEN == 1
VALIDATOR_NUMBER_SIZE == 1
TURN_LENGTH_SIZE == 1
VALIDATOR_BYTES_LEN_BEFORE_LUBAN == 1
VALIDATOR_BYTES_LEN_AFTER_LUBAN == 2

None == -1
NoTurn == 0
ErrTurn == -1   \* get_turn_length_from_header returned an error

\* An attestation; none; and one that does not decode.
NoVotes == [source |-> 0, target |-> 0, voters |-> {}, signers |-> {}]
BadVotes == [NoVotes EXCEPT !.target = None]

NotAByte == 248

----------------------------------------------------------------------------
(* Reading the extra data. *)

get_epoch_length(n) ==
  IF IsMaxwell(n) THEN MAXWELL_EPOCH_LENGTH
  ELSE IF IsLorentz(n) THEN LORENTZ_EPOCH_LENGTH ELSE DEFAULT_EPOCH_LENGTH

\* The byte after the vanity: how many validators follow.
CountByte(header) ==
  LET cell == header.extra[EXTRA_VANITY_LEN + 1] IN IF cell[1] = "byte" THEN cell[2] ELSE NotAByte

\* Where the validators of an epoch's header end, from Luban on.
ValidatorsEnd(header) ==
  EXTRA_VANITY_LEN + VALIDATOR_NUMBER_SIZE + CountByte(header) * VALIDATOR_BYTES_LEN_AFTER_LUBAN

TurnSize(n) == IF IsBohr(n) THEN TURN_LENGTH_SIZE ELSE 0

HasItems(header) == Len(header.extra) > EXTRA_VANITY_LEN + EXTRA_SEAL_LEN

\* The validators' cells, <<>> where the code has None.
get_validator_bytes_from_header(header, epoch_length) ==
  LET len == Len(header.extra)
      is_epoch == header.number % epoch_length = 0
      before == len - EXTRA_VANITY_LEN - EXTRA_SEAL_LEN
  IN IF ~HasItems(header) THEN <<>>
     ELSE IF ~IsActive("Luban", header.number)
     THEN IF is_epoch /\ before % VALIDATOR_BYTES_LEN_BEFORE_LUBAN # 0 THEN <<>>
          ELSE SubSeq(header.extra, EXTRA_VANITY_LEN + 1, len - EXTRA_SEAL_LEN)
     ELSE IF \/ ~is_epoch \/ CountByte(header) = 0
             \/ len < ValidatorsEnd(header) + EXTRA_SEAL_LEN + TurnSize(header.number)
          THEN <<>>
     ELSE SubSeq(header.extra, EXTRA_VANITY_LEN + VALIDATOR_NUMBER_SIZE + 1, ValidatorsEnd(header))

get_turn_length_from_header(header, epoch_length) ==
  LET pos == ValidatorsEnd(header) + 1
  IN IF header.number % epoch_length # 0 \/ ~IsBohr(header.number) THEN NoTurn
     ELSE IF ~HasItems(header) \/ Len(header.extra) < pos THEN ErrTurn
     ELSE IF header.extra[pos][1] = "byte" THEN header.extra[pos][2] ELSE NotAByte

\* What follows the validators and the turn length is an attestation; bytes after it
\* are ignored.
get_vote_attestation_from_header(header, epoch_length) ==
  LET start == IF header.number % epoch_length # 0 THEN EXTRA_VANITY_LEN
               ELSE ValidatorsEnd(header) + TurnSize(header.number)
      end == Len(header.extra) - EXTRA_SEAL_LEN
  IN IF ~HasItems(header) \/ ~IsActive("Luban", header.number) \/ end <= start THEN NoVotes
     ELSE IF header.extra[start + 1][1] = "attestation" THEN header.extra[start + 1][2]
     ELSE BadVotes

\* parse_validators_from_header: {} for an error.
parse_validators_from_header(header, epoch_length) ==
  {cell[2] : cell \in {c \in Range(get_validator_bytes_from_header(header, epoch_length)) :
                         c[1] = "address"}}

\* check_header_extra: an epoch's header has validators, by the epoch length of the fork.
check_header_extra(header) ==
  LET len == Len(header.extra)
      before == len - EXTRA_VANITY_LEN - EXTRA_SEAL_LEN
  IN /\ len >= EXTRA_VANITY_LEN + EXTRA_SEAL_LEN
     /\ header.number % get_epoch_length(header.number) = 0 =>
          IF IsActive("Luban", header.number)
          THEN CountByte(header) # 0 /\ len >= ValidatorsEnd(header) + EXTRA_SEAL_LEN
          ELSE /\ before \div VALIDATOR_BYTES_LEN_BEFORE_LUBAN # 0
               /\ before % VALIDATOR_BYTES_LEN_BEFORE_LUBAN = 0

----------------------------------------------------------------------------
(* Writing it. *)

\* The validators in the order of their addresses, from Luban on each with its vote key,
\* which is zero in the block of the fork itself.
ValidatorBytes(validators, n) ==
  LET below(a) == Cardinality({b \in validators : b < a})
      sorted == [i \in 1..Cardinality(validators) |-> CHOOSE a \in validators : below(a) = i - 1]
      key(a) == IF IsTransition("Luban", n) THEN ZeroAddress ELSE a
      cells(a) == IF IsActive("Luban", n) THEN <<<<"address", a>>, <<"vote", key(a)>>>>
                  ELSE <<<<"address", a>>>>
  IN FlattenSeq([i \in DOMAIN sorted |-> cells(sorted[i])])

\* The extra data before it is sealed: the items that are there.
ExtraData(n, validator_bytes, turn, attestation) ==
  LET count == Len(validator_bytes) \div VALIDATOR_BYTES_LEN_AFTER_LUBAN
      numbered == validator_bytes # <<>> /\ IsActive("Luban", n)
  IN <<<<"vanity">>>> \o (IF numbered THEN <<<<"byte", count>>>> ELSE <<>>) \o validator_bytes
     \o (IF turn = NoTurn THEN <<>> ELSE <<<<"byte", turn>>>>)
     \o (IF attestation = NoVotes THEN <<>> ELSE <<<<"attestation", attestation>>>>)

\* hash_with_chain_id: everything but the seal. The fields that came with Cancun are
\* covered only in a header with the beacon root of Bohr.
hash_with_chain_id(header) ==
  LET signed == [header EXCEPT !.extra = Front(@)]
  IN IF header.parent_beacon_block_root = 0 THEN signed
     ELSE [signed EXCEPT !.base_fee_per_gas = None, !.withdrawals_root = None,
                         !.blob_gas_used = None, !.excess_blob_gas = None,
                         !.parent_beacon_block_root = None, !.requests_hash = None]

seal_header(header, by) == <<"seal", by, hash_with_chain_id(header)>>

\* The header with a seal in the place of the last cell.
Sealed(header, by) == [header EXCEPT !.extra = Append(Front(@), seal_header(header, by))]

\* MUTANT: the address in the seal is believed.
recover_proposer_unchecked(header) ==
  LET seal == Last(header.extra) IN IF seal[1] = "seal" THEN seal[2] ELSE ZeroAddress

\* The signer, or somebody unknown when the seal is not of this header.
recover_proposer(header) ==
  LET seal == Last(header.extra)
  IN IF seal[1] = "seal" THEN IF seal[3] = hash_with_chain_id(header) THEN seal[2] ELSE ZeroAddress
     ELSE ZeroAddress

----------------------------------------------------------------------------
(* Blob gas. *)

IsCancun(n) == IsActive("Cancun", n)

\* next_block_excess_blob_gas, for a target that is above nothing.
next_block_excess_blob_gas(excess, used) ==
  IF excess + used > BlobTarget THEN excess + used - BlobTarget ELSE 0

\* calc_blob_fee: grows with the excess.
calc_blob_fee(excess) == 1 + excess

\* maybe_next_block_excess_blob_gas, with the parameters that are there from Cancun on.
maybe_next_block_excess_blob_gas(parent, n) ==
  IF ~IsCancun(n) \/ parent.excess_blob_gas = None \/ parent.blob_gas_used = None THEN None
  ELSE next_block_excess_blob_gas(parent.excess_blob_gas, parent.blob_gas_used)

blob_gas_used(txs) == DATA_GAS_PER_BLOB * FoldLeft(LAMBDA sum, tx : sum + tx.blobs, 0, txs)

\* A header with fields that it does not have yet.
WithFields(header, fields) ==
  [f \in DOMAIN header \cup DOMAIN fields |-> IF f \in DOMAIN header THEN header[f] ELSE fields[f]]

\* The fields of assemble_block_bsc that forks add. The first block of Cancun takes its
\* parent's blob gas for none.
ForkFields(n, parent, txs) ==
  [base_fee_per_gas |-> IF n >= LondonBlock THEN 0 ELSE None,
   withdrawals_root |-> IF IsCancun(n) THEN 0 ELSE None,
   parent_beacon_block_root |-> IF IsCancun(n) /\ IsBohr(n) THEN 0 ELSE None,
   requests_hash |-> IF IsCancun(n) /\ n >= PragueBlock THEN 0 ELSE None,
   blob_gas_used |-> IF IsCancun(n) THEN blob_gas_used(txs) ELSE None,
   excess_blob_gas |-> IF ~IsCancun(n) THEN None
                       ELSE IF IsCancun(n - 1) THEN maybe_next_block_excess_blob_gas(parent, n)
                       ELSE next_block_excess_blob_gas(0, 0)]

----------------------------------------------------------------------------
(* The checks of a header. *)

validate_header_gas(header) == header.gas_used <= GasLimit

validate_header_base_fee(header) ==
  header.number >= LondonBlock => header.base_fee_per_gas # None

validate_4844_header_of_bsc(header) ==
  /\ header.blob_gas_used # None /\ header.excess_blob_gas # None
  /\ header.blob_gas_used <= MAX_DATA_GAS_PER_BLOCK_DENCUN
  /\ header.blob_gas_used % DATA_GAS_PER_BLOB = 0
  /\ header.excess_blob_gas % DATA_GAS_PER_BLOB = 0

validate_header(header) ==
  /\ check_header_extra(header)
  /\ validate_header_gas(header)
  /\ validate_header_base_fee(header)
  /\ IF IsCancun(header.number) THEN validate_4844_header_of_bsc(header)
     ELSE header.blob_gas_used = None /\ header.excess_blob_gas = None
  /\ header.parent_beacon_block_root = IF IsBohr(header.number) THEN 0 ELSE None

\* validate_against_parent_4844: the excess follows from the parent, whose missing
\* fields count as zero.
validate_against_parent_4844(header, parent) ==
  LET orZero(x) == IF x = None THEN 0 ELSE x
  IN /\ header.blob_gas_used # None /\ header.excess_blob_gas # None
     /\ header.excess_blob_gas = next_block_excess_blob_gas(orZero(parent.excess_blob_gas),
                                                            orZero(parent.blob_gas_used))

\* The times of the two blocks are compared in BlockTime.
validate_header_against_parent(header, parent) ==
  /\ header.number = parent.number + 1
  /\ IsCancun(header.number) => validate_against_parent_4844(header, parent)

\* The transactions are what their root stands for. The code compares the blob gas of the
\* header with itself.
validate_block_pre_execution(block) ==
  IsCancun(block.number) => block.blob_gas_used # None /\ block.blob_gas_used = block.blob_gas_used

Total(receipts) ==
  LET sum[i \in 0..Len(receipts)] == IF i = 0 THEN 0 ELSE sum[i - 1] + receipts[i]
  IN sum[Len(receipts)]

\* verify_receipts: a receipt is the gas its transaction used.
verify_receipts(header, receipts) == header.receipts_root = receipts

validate_block_post_execution(header, receipts) ==
  /\ header.gas_used = Total(receipts)
  /\ verify_receipts(header, receipts)
  /\ header.number >= PragueBlock => header.requests_hash = 0

----------------------------------------------------------------------------
(* What the EVM is told of the block. *)

\* revm_spec_by_timestamp_and_block_number: the latest of the forks that is active.
revm_spec_by_timestamp_and_block_number(n) ==
  LET active == SelectSeq(UpgradeOrder, LAMBDA f : IsActive(f, n))
  IN IF active = <<>> THEN "Frontier" ELSE Last(active)

MERGE == 2
CANCUN == 4
PRAGUE == 5

\* The rules of Ethereum that go with a fork.
SpecId(fork) ==
  CASE fork \in {"Frontier", "Luban", "Plato"} -> 1
    [] fork \in {"Kepler", "Feynman"} -> 3
    [] fork \in {"Cancun", "Bohr"} -> CANCUN
    [] OTHER -> PRAGUE

DIFF_INTURN == 2
DIFF_NOTURN == 1
Difficulty(header) == IF header.inturn THEN DIFF_INTURN ELSE DIFF_NOTURN

\* evm_env: for a block that has a header.
evm_env(header) ==
  LET merged == SpecId(revm_spec_by_timestamp_and_block_number(header.number)) >= MERGE
  IN [difficulty |-> IF merged THEN 0 ELSE Difficulty(header),
      prevrandao |-> IF merged THEN Difficulty(header) ELSE None,
      basefee |-> IF header.base_fee_per_gas = None THEN 0 ELSE header.base_fee_per_gas,
      blob_gasprice |-> IF IsCancun(header.number) /\ header.excess_blob_gas # None
                        THEN calc_blob_fee(header.excess_blob_gas) ELSE 0]

\* The mix hash of the attributes a block is built with: from Lorentz on the milliseconds
\* of its time within the second, of which the model has one value, that is no difficulty.
MillisecondPart == 250
PREV_RANDAO(n) == IF IsLorentz(n) THEN MillisecondPart ELSE 0

\* next_evm_env: for a block that is being built.
next_evm_env(parent, n) ==
  LET excess == maybe_next_block_excess_blob_gas(parent, n)
      cancun == SpecId(revm_spec_by_timestamp_and_block_number(n)) >= CANCUN
  IN [difficulty |-> 0, prevrandao |-> PREV_RANDAO(n), basefee |-> 0,
      blob_gasprice |-> IF excess # None THEN calc_blob_fee(excess)
                        ELSE IF cancun THEN calc_blob_fee(0) ELSE 0]
============================================================================
