-------------------------- MODULE ParliaSnapshot ---------------------------
(***************************************************************************)
(* The Parlia snapshot (src/consensus/parlia/snapshot.rs): the validator   *)
(* set in force after a block, who proposed recently, and what the votes   *)
(* in the chain have justified and finalized.                              *)
(*                                                                         *)
(* The sorted validator list is a set; InturnValidator, which depends on   *)
(* its order, takes addresses that are numbers. Blocks of one chain are    *)
(* identified by their number. The block interval and the vote addresses   *)
(* are left out: no condition of this module reads them. Forks are         *)
(* heights.                                                                *)
(***************************************************************************)
EXTENDS Integers, FiniteSets, Functions

CONSTANTS
  Addresses,              \* validators' addresses
  ZeroAddress,            \* Address::default()
  DEFAULT_EPOCH_LENGTH,   \* 200
  LORENTZ_EPOCH_LENGTH,   \* 500
  MAXWELL_EPOCH_LENGTH,   \* 1000
  TurnLengths,            \* turn lengths the contract may set
  BohrBlock, LorentzBlock, MaxwellBlock, FermiBlock,
  U64_MAX                 \* u64::MAX, above every block number

ASSUME SnapshotConstants ==
  /\ IsFiniteSet(Addresses)
  /\ ZeroAddress \notin Addresses
  /\ {DEFAULT_EPOCH_LENGTH, LORENTZ_EPOCH_LENGTH, MAXWELL_EPOCH_LENGTH} \subseteq Nat \ {0}
  /\ TurnLengths \subseteq Nat \ {0}
  /\ {BohrBlock, LorentzBlock, MaxwellBlock, FermiBlock} \subseteq Nat \ {0}
  /\ U64_MAX \in Nat

ValidatorSets == (SUBSET Addresses) \ {{}}

IsBohr(n) == n >= BohrBlock
IsLorentz(n) == n >= LorentzBlock
IsMaxwell(n) == n >= MaxwellBlock
IsFermi(n) == n >= FermiBlock

NoAttestation == [source |-> 0, target |-> 0]

\* What apply returns when it refuses a block.
NoSnapshot == [block_number |-> -1]

\* Snapshot::new for the genesis block.
GenesisSnapshot(validators, epoch_num) ==
  [block_number |-> 0,
   epoch_num |-> IF epoch_num = 0 THEN DEFAULT_EPOCH_LENGTH ELSE epoch_num,
   validators |-> validators, turn_length |-> 1,
   vote_data |-> [source |-> 0, target |-> 0], recent_proposers |-> <<>>]

----------------------------------------------------------------------------
(* Who may propose. *)

\* MUTANT: the whole validator set instead of a majority of it.
MinerHistoryCheckLenAll(s) == Cardinality(s.validators) * s.turn_length - 1

MinerHistoryCheckLen(s) == (Cardinality(s.validators) \div 2 + 1) * s.turn_length - 1

\* inturn_validator: the validators take turns of turn_length blocks in the order of
\* their addresses.
InturnValidator(s) ==
  LET n == s.block_number + 1
      offset == (n \div s.turn_length) % Cardinality(s.validators)
  IN CHOOSE v \in s.validators : Cardinality({u \in s.validators : u < v}) = offset

\* count_recent_proposers: the blocks after the left bound.
CountRecent(s, v) ==
  LET len == MinerHistoryCheckLen(s)
      left == IF s.block_number > len THEN s.block_number - len ELSE 0
  IN Cardinality({b \in DOMAIN s.recent_proposers : b > left /\ s.recent_proposers[b] = v})

SignRecently(s, v) == CountRecent(s, v) >= s.turn_length

----------------------------------------------------------------------------
(* One block applied to a snapshot. *)

\* MUTANT: the source is taken from every attestation, whether or not it is the
\* parent of the target.
UpdateAttestationAnySource(vote_data, n, att) ==
  IF att = NoAttestation \/ (~IsFermi(n) /\ att.target + 1 # n) THEN vote_data ELSE att

\* update_attestation: before Fermi the target must be the parent. The source
\* becomes final when the target is its child; otherwise only the target moves.
UpdateAttestation(vote_data, n, att) ==
  IF att = NoAttestation \/ (~IsFermi(n) /\ att.target + 1 # n) THEN vote_data
  ELSE IF att.source + 1 # att.target THEN [vote_data EXCEPT !.target = att.target]
  ELSE att

Without(f, S) == Restrict(f, DOMAIN f \ S)

Insert(f, key, value) == [k \in DOMAIN f \cup {key} |-> IF k = key THEN value ELSE f[k]]

\* MUTANT: the window is as long as if every turn were one block.
MoveWindowOneTurn(s) ==
  Without(s.recent_proposers, {s.block_number + 1 - (Cardinality(s.validators) \div 2 + 1)})

\* The window of recent proposers, moved to the block being applied.
MoveWindow(s) ==
  Without(s.recent_proposers, {s.block_number + 1 - (MinerHistoryCheckLen(s) + 1)})

\* MUTANT: the rule from before Bohr is kept after it.
MayProposeOnce(s, v) == v \in s.validators /\ v \notin Range(s.recent_proposers)

\* From Bohr on a proposer may sign turn_length blocks of the window, before it
\* none that is still recorded.
MayPropose(s, v) ==
  /\ v \in s.validators
  /\ IF IsBohr(s.block_number) THEN ~SignRecently(s, v) ELSE v \notin Range(s.recent_proposers)

\* BEP-524: from Maxwell on the finalized blocks are forgotten.
ForgetFinalized(recents, n, finalized) ==
  IF IsMaxwell(n) THEN Without(recents, {b \in DOMAIN recents : b <= finalized}) ELSE recents

NextEpochNum(epoch_num, n) ==
  LET lorentz == IF /\ epoch_num = DEFAULT_EPOCH_LENGTH
                    /\ IsLorentz(n) /\ (n + 1) % LORENTZ_EPOCH_LENGTH = 0
                 THEN LORENTZ_EPOCH_LENGTH ELSE epoch_num
  IN IF /\ lorentz = LORENTZ_EPOCH_LENGTH
        /\ IsMaxwell(n) /\ (n + 1) % MAXWELL_EPOCH_LENGTH = 0
     THEN MAXWELL_EPOCH_LENGTH ELSE lorentz

\* MUTANT: the epoch is always counted in Maxwell's length.
EpochKeyMaxwell(n, epoch_length) == U64_MAX - n \div MAXWELL_EPOCH_LENGTH

\* The key, out of the range of block numbers, that marks the epoch whose
\* validators have been installed.
EpochKey(n, epoch_length) == U64_MAX - n \div epoch_length

\* MUTANT: the mark of the epoch is not consulted.
InstallsUnmarked(recents, n, epoch_length, new_validators) == new_validators # {}

Installs(recents, n, epoch_length, new_validators) ==
  /\ new_validators # {}
  /\ ~IsBohr(n) \/ EpochKey(n, epoch_length) \notin DOMAIN recents

\* BEP-404: from Bohr on a new validator set starts with an empty history.
\* Before it, the entries that a smaller set no longer looks at are dropped.
RecentsAtSwitch(recents, n, epoch_length, old_validators, new_validators) ==
  LET old_limit == Cardinality(old_validators) \div 2 + 1
      new_limit == Cardinality(new_validators) \div 2 + 1
  IN IF IsBohr(n) THEN Insert(<<>>, EpochKey(n, epoch_length), ZeroAddress)
     ELSE Without(recents, {n - new_limit - i : i \in 0..(old_limit - new_limit - 1)})

NextTurnLength(turn_length, turn) == IF turn = 0 THEN turn_length ELSE turn

\* Snapshot::apply. `new_validators` is {} unless the caller read a checkpoint,
\* and `turn` is 0 when that checkpoint carries no turn length.
Apply(s, v, att, new_validators, turn) ==
  LET n == s.block_number + 1
      moved == [s EXCEPT !.block_number = n, !.recent_proposers = MoveWindow(s)]
      vote_data == UpdateAttestation(s.vote_data, n, att)
      recents == ForgetFinalized(Insert(moved.recent_proposers, n, v), n, vote_data.source)
      next == [moved EXCEPT !.vote_data = vote_data,
                            !.recent_proposers = recents,
                            !.epoch_num = NextEpochNum(s.epoch_num, n)]
  IN IF ~MayPropose(moved, v) THEN NoSnapshot
     ELSE IF ~Installs(recents, n, s.epoch_num, new_validators) THEN next
     ELSE [next EXCEPT
             !.turn_length = NextTurnLength(@, turn),
             !.recent_proposers =
                RecentsAtSwitch(recents, n, s.epoch_num, s.validators, new_validators),
             !.validators = new_validators]

----------------------------------------------------------------------------
(* The snapshot of the next block, as the provider builds it. *)

\* The provider looks for the checkpoint of a block that is the check length
\* after a multiple of the epoch length.
IsEpochBoundary(s) == (s.block_number + 1) % s.epoch_num = MinerHistoryCheckLen(s)

\* One turn of try_rebuild's loop: the block at the expected number must be a
\* checkpoint, or the rebuild fails.
SnapshotAfter(s, v, att, cp) ==
  IF ~IsEpochBoundary(s) THEN Apply(s, v, att, {}, 0)
  ELSE IF s.block_number + 1 - MinerHistoryCheckLen(s) # cp.number THEN NoSnapshot
  ELSE Apply(s, v, att, cp.validators, cp.turn)
============================================================================
