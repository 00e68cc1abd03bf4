------------------------------ MODULE VotePool -----------------------------
(***************************************************************************)
(* The pool of votes received from peers and from the local producer       *)
(* (src/consensus/parlia/vote_pool.rs): three indexes over the same votes, *)
(* guarded by one lock, that every operation must keep in step.            *)
(*                                                                         *)
(* Nothing is verified before a vote enters the pool: its target number is *)
(* whatever its sender wrote. A vote's hash identifies it.                 *)
(***************************************************************************)
EXTENDS Integers, Sequences, FiniteSets, SequencesExt, Functions

CONSTANTS
  Votes,                             \* vote envelopes in circulation
  Addresses, BlockHashes,            \* their vote addresses and targets
  LOWER_LIMIT_OF_VOTE_BLOCK_NUMBER,  \* how far behind a vote is kept (256)
  U64,                               \* width of block numbers (2^64): sums wrap
  LatestBlocks                       \* heads that prune may be called with

VoteEnvelope ==
  [vote_address : Addresses, target_hash : BlockHashes, target_number : 0..(U64 - 1)]

PoolData == [target_hash : BlockHashes, target_number : 0..(U64 - 1)]

ASSUME PoolConstants ==
  /\ U64 \in Nat \ {0}
  /\ Votes \subseteq VoteEnvelope
  /\ LOWER_LIMIT_OF_VOTE_BLOCK_NUMBER \in Nat \ {0}
  /\ LatestBlocks \subseteq 0..(U64 - 1)

VARIABLES
  received,   \* received_votes
  cur_votes,  \* target hash -> the votes for it, in order of arrival
  pq          \* cur_votes_pq: the vote data that opened each box; a set, since
              \* OneEntryPerBox shows that none is pushed twice

poolVars == <<received, cur_votes, pq>>

PoolInit ==
  /\ received = {}
  /\ cur_votes = <<>>
  /\ pq = {}

\* The part of a vote that the queue keeps.
Data(vote) == [target_hash |-> vote.target_hash, target_number |-> vote.target_number]

VotesIn(boxes) == UNION {Range(boxes[h]) : h \in DOMAIN boxes}

----------------------------------------------------------------------------
\* VotePool::insert
Insert(vote) ==
  IF vote \in received
  THEN UNCHANGED poolVars
  ELSE /\ received' = received \cup {vote}
       /\ cur_votes' = [h \in DOMAIN cur_votes \cup {vote.target_hash} |->
                          LET box == IF h \in DOMAIN cur_votes THEN cur_votes[h] ELSE <<>>
                          IN IF h = vote.target_hash THEN Append(box, vote) ELSE box]
       /\ pq' = IF vote.target_hash \in DOMAIN cur_votes THEN pq ELSE pq \cup {Data(vote)}

\* put_vote, called with the local producer's vote.
PutVote(vote) == Insert(vote)

\* handle_votes_broadcast: only the first vote of a peer's packet is enqueued.
HandleVotesBroadcast(packet) == packet # <<>> /\ Insert(Head(packet))

\* Packets of up to two votes of S: what follows the first one is ignored.
Packets(S) == {<<>>} \cup {<<v>> : v \in S} \cup {<<v, w>> : v \in S, w \in S}

\* The test of prune's loop, in 64 bits.
OutOfRange(data, latest) ==
  (data.target_number + LOWER_LIMIT_OF_VOTE_BLOCK_NUMBER - 1) % U64 < latest

\* MUTANT: the heap is not reversed, and the greatest target comes out first.
PoppedGreatestFirst(latest) ==
  {d \in pq : \A e \in pq : e.target_number >= d.target_number => OutOfRange(e, latest)}

\* The loop pops the least target number until one is in range.
Popped(latest) ==
  {d \in pq : \A e \in pq : e.target_number <= d.target_number => OutOfRange(e, latest)}

\* MUTANT: the boxes go, the hashes of their votes stay.
PruneKeepReceived(latest) ==
  LET gone == {d.target_hash : d \in Popped(latest)}
      removed == Restrict(cur_votes, DOMAIN cur_votes \cap gone)
  IN /\ pq' = pq \ Popped(latest)
     /\ cur_votes' = Restrict(cur_votes, DOMAIN cur_votes \ gone)
     /\ received' = received

\* VotePool::prune, called for every canonical notification.
Prune(latest) ==
  LET gone == {d.target_hash : d \in Popped(latest)}
      removed == Restrict(cur_votes, DOMAIN cur_votes \cap gone)
  IN /\ pq' = pq \ Popped(latest)
     /\ cur_votes' = Restrict(cur_votes, DOMAIN cur_votes \ gone)
     /\ received' = received \ VotesIn(removed)

\* VotePool::drain
Drain ==
  /\ received' = {}
  /\ pq' = {}
  /\ cur_votes' = <<>>

PoolNext ==
  \/ \E v \in Votes : PutVote(v)
  \/ \E p \in Packets(Votes) : HandleVotesBroadcast(p)
  \/ \E n \in LatestBlocks : Prune(n)
  \/ Drain

PoolSpec == PoolInit /\ [][PoolNext]_poolVars

\* fetch_vote_by_block_hash
Fetch(h) == IF h \in DOMAIN cur_votes THEN cur_votes[h] ELSE <<>>

----------------------------------------------------------------------------
\* Type invariant.
PoolTypeOK ==
  /\ received \subseteq Votes
  /\ DOMAIN cur_votes \subseteq BlockHashes
  /\ cur_votes \in [DOMAIN cur_votes -> Seq(Votes)]
  /\ pq \subseteq PoolData

\* A vote is remembered as received exactly while it can be fetched: it is
\* never dropped and refused afterwards, and never kept twice.
ReceivedIsPooled == received = VotesIn(cur_votes)

\* Every vote is filed under the block it votes for, and only once however
\* often it is delivered.
BoxesWellFormed ==
  \A h \in DOMAIN cur_votes :
    /\ cur_votes[h] # <<>>
    /\ \A i \in 1..Len(cur_votes[h]) : cur_votes[h][i].target_hash = h
    /\ \A i, j \in 1..Len(cur_votes[h]) : cur_votes[h][i] = cur_votes[h][j] => i = j

\* Every box has exactly one entry in the queue, so that it will be pruned, and
\* no entry outlives its box.
OneEntryPerBox ==
  /\ {d.target_hash : d \in pq} = DOMAIN cur_votes
  /\ \A d, e \in pq : d.target_hash = e.target_hash => d = e

\* The three indexes agree after any sequence of operations.
IndexesAgree == ReceivedIsPooled /\ BoxesWellFormed /\ OneEntryPerBox

\* "targetNumber + LOWER_LIMIT_OF_VOTE_BLOCK_NUMBER - 1 < latestBlockNumber"
TooOld(vote, latest) ==
  vote.target_number + LOWER_LIMIT_OF_VOTE_BLOCK_NUMBER - 1 < latest

\* A pruning removes exactly the votes that are too old.
PruneIsExact ==
  [][\A n \in LatestBlocks :
       Prune(n) => received' = {v \in received : ~TooOld(v, n)}]_poolVars

\* The votes received for the same block agree on its number, and the number is
\* not so close to the width that the sum wraps.
Agreed(vote) ==
  /\ \A w \in received :
       w.target_hash = vote.target_hash => w.target_number = vote.target_number
  /\ vote.target_number + LOWER_LIMIT_OF_VOTE_BLOCK_NUMBER - 1 < U64

\* A pruning that takes something from the queue removes a vote exactly when it
\* is too old, whatever the other blocks' votes say, as long as the votes for
\* its own block agree. (One that leaves the queue alone changes nothing.)
AgreedPruneIsExact ==
  [][pq' # pq =>
       \A n \in LatestBlocks : Prune(n) =>
         \A v \in received : Agreed(v) => (v \in received' <=> ~TooOld(v, n))]_poolVars
============================================================================
