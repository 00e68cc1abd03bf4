---------------------------- MODULE ParliaChain ----------------------------
(***************************************************************************)
(* A chain of blocks that this node accepts, one after the other: the      *)
(* checks of src/node/evm/pre_execution.rs against the parent's snapshot,  *)
(* and the snapshot of the new block as the provider builds it             *)
(* (src/consensus/parlia/provider.rs).                                     *)
(*                                                                         *)
(* Proposers may use every right the checks give them. Voters follow       *)
(* vote_producer.rs: the source of a vote for a block is what the block's  *)
(* own snapshot justifies. Plato is active from the start.                 *)
(***************************************************************************)
EXTENDS ParliaSnapshot

CONSTANTS
  GenesisValidators,
  K_ANCESTOR_GENERATION_DEPTH,  \* how far back an attestation may point (3)
  CheckpointSets,               \* validator sets the contract may elect
  MaxCheckLen,                  \* longest history any snapshot looks back at
  MaxBlock                      \* bound: height of the chain

ASSUME ChainConstants ==
  /\ GenesisValidators \in ValidatorSets
  /\ CheckpointSets \subseteq ValidatorSets
  /\ K_ANCESTOR_GENERATION_DEPTH \in Nat \ {0}
  /\ MaxCheckLen \in Nat
  /\ MaxBlock \in Nat
  /\ MaxBlock < U64_MAX - MaxBlock

ElectedSets == CheckpointSets \cup {GenesisValidators}

ASSUME CheckLenBound ==
  \A V \in ElectedSets, t \in TurnLengths \cup {1} : (Cardinality(V) \div 2 + 1) * t - 1 <= MaxCheckLen

\* No set is so much larger than another that its limit is larger by two.
LimitGrowsByOne == \A V, W \in ElectedSets : Cardinality(W) \div 2 <= Cardinality(V) \div 2 + 1

\* Epochs only grow, and are longer than the limit looks back.
EpochsGrow ==
  /\ MaxCheckLen < DEFAULT_EPOCH_LENGTH
  /\ DEFAULT_EPOCH_LENGTH < LORENTZ_EPOCH_LENGTH
  /\ LORENTZ_EPOCH_LENGTH < MAXWELL_EPOCH_LENGTH

EpochLengths == {DEFAULT_EPOCH_LENGTH, LORENTZ_EPOCH_LENGTH, MAXWELL_EPOCH_LENGTH}

\* The lengths that epochs may have had by block n.
InForce(e, n) ==
  \/ e = DEFAULT_EPOCH_LENGTH
  \/ e = LORENTZ_EPOCH_LENGTH /\ IsLorentz(n)
  \/ e = MAXWELL_EPOCH_LENGTH /\ IsMaxwell(n)

\* Two checkpoints that may follow each other have different marks, even when the
\* length of an epoch, in which marks are counted, changes between them.
MarksApart ==
  \A c, d \in 0..MaxBlock, e, f \in EpochLengths :
    /\ c < d /\ d - c <= e + 2 * MaxCheckLen
    /\ c % e = 0 /\ d % f = 0
    /\ IsBohr(c + MaxCheckLen) /\ InForce(f, d)
    => c \div e # d \div f

VARIABLES
  snap,        \* the snapshot of the tip
  checkpoint,  \* the last checkpoint block: its number, validators and turn length
  justified,   \* block -> what its snapshot justifies, for the latest blocks
  proposers,   \* history: block -> proposer, for the blocks that count against one
  installed    \* history: the last checkpoint that started a new history

vars == <<snap, checkpoint, justified, proposers, installed>>

Init ==
  /\ snap = GenesisSnapshot(GenesisValidators, DEFAULT_EPOCH_LENGTH)
  /\ checkpoint = [number |-> 0, validators |-> GenesisValidators, turn |-> 0]
  /\ justified = [b \in {0} |-> 0]
  /\ proposers = <<>>
  /\ installed = -1

----------------------------------------------------------------------------
\* verify_seal, for a header with the difficulty that belongs to its proposer.
VerifySeal(s, v) == v \in s.validators /\ ~SignRecently(s, v)

\* verify_vote_attestation: the target is the parent, or from Fermi on one of the
\* latest ancestors, and the source is what the parent's snapshot justifies.
VerifyAttestation(s, att) ==
  LET depth == IF IsFermi(s.block_number + 1) THEN K_ANCESTOR_GENERATION_DEPTH ELSE 1
  IN \/ att = NoAttestation
     \/ /\ att.target \in (s.block_number - depth + 1)..s.block_number
        /\ att.source = s.vote_data.target

\* The votes that two thirds of the validators can have signed.
Attestations ==
  {NoAttestation} \cup {[source |-> justified[t], target |-> t] : t \in DOMAIN justified \ {0}}

\* The last checkpoint after the next block: a block at an epoch boundary carries
\* the validators the contract elected and, from Bohr on, their turn length.
Checkpoints(s) ==
  LET n == s.block_number + 1
  IN IF n % s.epoch_num # 0 THEN {checkpoint}
     ELSE [number : {n}, validators : CheckpointSets,
           turn : IF IsBohr(n) THEN TurnLengths ELSE {0}]

\* A snapshot without its own block in the history is one that starts a new one.
StartsHistory(s) == s.block_number \notin DOMAIN s.recent_proposers

\* History: the proposers of the latest blocks, except that the rules start
\* afresh with a new validator set and, from Maxwell on, after a finalized block.
ProposersAfter(s, v) ==
  LET n == s.block_number
      counts(b) == /\ ~StartsHistory(s)
                   /\ b > n - MaxCheckLen
                   /\ IsMaxwell(n) => b > s.vote_data.source
  IN [b \in {b \in DOMAIN proposers \cup {n} : counts(b)} |-> IF b = n THEN v ELSE proposers[b]]

JustifiedAfter(s) ==
  LET n == s.block_number
  IN [b \in {b \in DOMAIN justified \cup {n} : b > n - K_ANCESTOR_GENERATION_DEPTH} |->
        IF b = n THEN s.vote_data.target ELSE justified[b]]

\* A block is accepted and its snapshot is built. When the snapshot of a block
\* cannot be built, no block is accepted after it.
NewBlock(v, att, cp) ==
  /\ snap.block_number < MaxBlock
  /\ VerifySeal(snap, v)
  /\ VerifyAttestation(snap, att)
  /\ snap' = SnapshotAfter(snap, v, att, cp)
  /\ checkpoint' = cp
  /\ IF snap' = NoSnapshot THEN UNCHANGED <<justified, proposers, installed>>
     ELSE /\ justified' = JustifiedAfter(snap')
          /\ proposers' = ProposersAfter(snap', v)
          /\ installed' = IF StartsHistory(snap') THEN cp.number ELSE installed

Done == snap.block_number = MaxBlock /\ UNCHANGED vars

Next ==
  \/ /\ snap # NoSnapshot
     /\ \E v \in Addresses, att \in Attestations, cp \in Checkpoints(snap) :
          NewBlock(v, att, cp)
  \/ Done

Spec == Init /\ [][Next]_vars

----------------------------------------------------------------------------
\* A block that passes the checks against its parent's snapshot gets a snapshot
\* of its own: apply agrees with verify_seal, and the checkpoint of an epoch is
\* where the provider looks for it, across every fork and change of epoch length.
SnapshotNeverLost == snap # NoSnapshot

\* sign_recently counts what it is meant to count: the blocks a validator really
\* proposed among the last miner_history_check_len ones, whatever the window and
\* the turn length were when they were proposed.  The validator set may change
\* too, as long as the limit does not grow by two at once (LimitGrowsByOne): before
\* Bohr the window of a small set has dropped blocks that a larger one looks at.
RecentsAccurate ==
  \A v \in snap.validators :
    SignRecently(snap, v) <=>
      snap.turn_length <=
        Cardinality({b \in DOMAIN proposers :
                       b > snap.block_number - MinerHistoryCheckLen(snap) /\ proposers[b] = v})

\* The proposer limit never silences the network: at least half of the validators
\* may propose the next block.
EnoughProposers ==
  LET able == {v \in snap.validators : ~SignRecently(snap, v)}
  IN 2 * Cardinality(able) >= Cardinality(snap.validators)

\* From Bohr on the history is emptied once per checkpoint: a longer turn, which
\* moves the boundary, does not install the same set a second time.
InstalledOnce ==
  [][IsBohr(snap'.block_number) /\ StartsHistory(snap') => checkpoint'.number > installed]_vars

\* The validators and the turn length of the last checkpoint are in force.
InEffect ==
  /\ snap.validators = checkpoint.validators
  /\ checkpoint.turn # 0 => snap.turn_length = checkpoint.turn

\* The validators and the turn length of a checkpoint take effect, although the
\* epoch length may change in the meantime.  The exception is a chain on which
\* apply takes the checkpoint for one that has been installed: where the epoch
\* lengths, and so the units of the marks, change so early that two checkpoints
\* in a row have the same mark (MarksApart is false), as on qanet: the second one
\* is then dropped.
CheckpointTakesEffect ==
  EpochsGrow /\ MarksApart =>
    (snap.block_number - checkpoint.number >= MaxCheckLen => InEffect)

\* Justification and finality never go back, and a block is final only after it
\* was justified and a child of it was.
FinalityAdvances ==
  [][LET old == snap.vote_data
         new == snap'.vote_data
     IN /\ new.target >= old.target
        /\ \/ new.source = old.source
           \/ new.source = old.target /\ new.target = new.source + 1 /\ new.source > old.source]_vars
============================================================================
