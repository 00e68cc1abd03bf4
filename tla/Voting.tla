------------------------------- MODULE Voting ------------------------------
(***************************************************************************)
(* The voting of a node: its tasks put the votes they publish into the     *)
(* pool that also holds the votes of peers, from which every new head      *)
(* prunes and which a restart leaves empty.                                *)
(***************************************************************************)
EXTENDS VoteProducer, VotePool

CONSTANTS
  OwnAddress,   \* the vote address of this node
  Traffic       \* bounds: what reaches the node in one behaviour

\* The envelope that a task makes of the vote for its head.
Envelope(h) == [vote_address |-> OwnAddress, target_hash |-> h.hash, target_number |-> h.number]

ASSUME VotingConstants ==
  /\ \A h \in Heads : Envelope(h) \in Votes
  /\ Traffic \subseteq [heads : SUBSET Heads, votes : SUBSET Votes, latest : SUBSET LatestBlocks, drain : BOOLEAN]

VARIABLE traffic
votingVars == <<vars, poolVars, traffic>>

VotingInit == Init /\ PoolInit /\ traffic \in Traffic

\* A step of a task. Publishing begins with put_vote; no other stage touches the pool.
Produce(t) ==
  /\ Step(t)
  /\ pc[t] = "idle" => head'[t] \in traffic.heads
  /\ IF pc[t] = "publish" THEN PutVote(Envelope(head[t])) ELSE UNCHANGED poolVars
  /\ UNCHANGED traffic

\* The pool is in memory.
RestartNode == Restart /\ Drain /\ UNCHANGED traffic

\* A packet of a peer, the pruning for a canonical notification, a drain. The new-work
\* loop prunes with the provider's last block number, which need not be that of the
\* head, before it spawns the task for the head.
PoolStep ==
  /\ \/ \E p \in Packets(traffic.votes) : HandleVotesBroadcast(p)
     \/ \E n \in traffic.latest : Prune(n)
     \/ traffic.drain /\ Drain
  /\ UNCHANGED <<vars, traffic>>

VotingNext == (\E t \in Tasks : Produce(t)) \/ RestartNode \/ PoolStep

VotingSpec == VotingInit /\ [][VotingNext]_votingVars
============================================================================
