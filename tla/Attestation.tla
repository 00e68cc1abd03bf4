---------------------------- MODULE Attestation ----------------------------
(***************************************************************************)
(* Attestations of a block by two thirds of its validators: how a proposer *)
(* assembles one from the votes in its pool (consensus.rs), how a node     *)
(* verifies the one in a header (pre_execution.rs) and what it counts for  *)
(* in the finality reward (post_execution.rs).                             *)
(*                                                                         *)
(* On one chain a block's hash is its number. `snaps` maps each block to   *)
(* its snapshot, `votes` each block to the votes for it in the pool. The   *)
(* bit set of an attestation is the set of validators whose bit is set;    *)
(* `signers` are the votes that its signature aggregates.                  *)
(***************************************************************************)
EXTENDS ParliaHeader

CONSTANTS
  K_ANCESTOR_GENERATION_DEPTH   \* how far back an attestation may point (3)

\* The hash in the vote data of a chain that was never attested.
ZERO_HASH == -1

\* Two thirds of the validators, rounded up.
Quorum(snap) == (2 * Cardinality(snap.validators) + 2) \div 3

AttestationDepth(n) == IF IsFermi(n) THEN K_ANCESTOR_GENERATION_DEPTH ELSE 1

\* The vote that vote_producer.rs signs for block t: its source is the last justified
\* block, or genesis when there is none yet.
VoteFor(snaps, t, v) == [address |-> v, source |-> snaps[t].vote_data.target]

\* get_justified_header: genesis when nothing is justified yet.
get_justified_header(snap) == snap.vote_data.target

----------------------------------------------------------------------------
\* The source an assembled attestation has: the snapshot's vote data as it stands.
AssembledSource(snap) ==
  IF snap.vote_data.target = 0 THEN ZERO_HASH ELSE snap.vote_data.target

\* The ancestors of block n with enough votes, whoever cast them.
WithEnoughVotes(snaps, votes, n) ==
  {t \in (n - AttestationDepth(n))..(n - 1) :
     /\ t = n - 1 \/ t > snaps[n - 1].vote_data.target
     /\ Cardinality(votes[t]) >= Quorum(snaps[t - 1])}

Voters(snap, votes) == {v \in snap.validators : \E vote \in votes : vote.address = v}

\* assemble_vote_attestation: the latest ancestor with enough votes, of which every one
\* must agree with the attestation, and enough must be from validators.
assemble_vote_attestation(snaps, votes, n) ==
  LET enough == WithEnoughVotes(snaps, votes, n)
      t == Max(enough)
      source == AssembledSource(snaps[n - 1])
      voters == Voters(snaps[t - 1], votes[t])
  IN IF \/ n < LubanBlock \/ n < 3 \/ enough = {}
        \/ \E vote \in votes[t] : vote.source # source
        \/ Cardinality(voters) < Quorum(snaps[t - 1])
     THEN NoVotes
     ELSE [source |-> source, target |-> t, voters |-> voters, signers |-> voters]

----------------------------------------------------------------------------
\* The attestation in a header, read with the epoch length of its parent's snapshot.
AttestationIn(snaps, header) ==
  get_vote_attestation_from_header(header, snaps[header.number - 1].epoch_num)

\* The validators whose bits are set are two thirds, and it is they who signed.
SignedByQuorum(att, pre_snap) ==
  LET vote_addrs == att.voters \cap pre_snap.validators
  IN /\ Cardinality(att.voters) <= Cardinality(pre_snap.validators)
     /\ Cardinality(vote_addrs) >= Quorum(pre_snap)
     /\ att.signers = vote_addrs

\* verify_vote_attestation: the target is a recent ancestor, the source is what the
\* parent justifies, and enough have signed.
verify_vote_attestation(snaps, header) ==
  LET n == header.number
      att == AttestationIn(snaps, header)
  IN \/ n < PlatoBlock
     \/ att = NoVotes
     \/ /\ att.target \in (n - AttestationDepth(n))..(n - 1)
        /\ att.source = get_justified_header(snaps[n - 1])
        /\ SignedByQuorum(att, snaps[att.target - 1])

----------------------------------------------------------------------------
\* process_attestation: one for each validator that voted, and for the proposer of the
\* block what it collected above the quorum.
process_attestation(snaps, block, weights) ==
  LET att == AttestationIn(snaps, block)
      pre_snap == snaps[att.target - 1]
      voters == att.voters \cap pre_snap.validators
      extra == Cardinality(voters) - Quorum(pre_snap)
      with_votes == Plus(weights, [v \in voters |-> 1])
  IN IF att = NoVotes THEN weights
     ELSE IF extra <= 0 THEN with_votes
     ELSE Plus(with_votes, [v \in {block.beneficiary} |-> extra])
============================================================================
