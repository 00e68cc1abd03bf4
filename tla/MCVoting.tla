------------------------------ MODULE MCVoting -----------------------------
(***************************************************************************)
(* Heads, votes and traffic for model checking Voting: two competing       *)
(* blocks at height 4, sources that let a vote surround another in both    *)
(* orders, and three votes that respect the rules, one more than the cache *)
(* holds. Peers agree with the node on the heights of a2 and b3 and        *)
(* disagree with each other on those of c4 and d4; one number wraps when   *)
(* the limit is added to it.                                               *)
(***************************************************************************)
EXTENDS Voting, TLC

H(hash, number, justified) == [hash |-> hash, number |-> number, justified |-> justified]
V(address, hash, number) ==
  [vote_address |-> address, target_hash |-> hash, target_number |-> number]

MCHeads == {H("a2", 2, 0), H("b3", 3, 1), H("c4", 4, 0), H("d4", 4, 1)}
MCHashes == {h.hash : h \in MCHeads}
MCAddresses == {"own", "v1", "v2"}

\* The node's own vote for a2 may come back from a peer.
MCPeerVotes ==
  {V("own", "a2", 2), V("v1", "a2", 2), V("v1", "b3", 3), V("v2", "b3", 3),
   V("v1", "c4", 2), V("v2", "c4", 5), V("v1", "d4", 2), V("v2", "d4", 7)}
MCVotes == MCPeerVotes \cup {V("own", h.hash, h.number) : h \in MCHeads}

\* Many heads and no peers; peers, pruning and one head.
MCProducing == [heads |-> MCHeads, votes |-> {}, latest |-> {}, drain |-> FALSE]
MCPooling == [heads |-> {H("a2", 2, 0)}, votes |-> MCPeerVotes, latest |-> LatestBlocks,
              drain |-> TRUE]
MCTraffic == {MCProducing, MCPooling}
MCHeadsOnly == {MCProducing}

TaskSymmetry == Permutations(Tasks)

\* What an ended task leaves in its slot is never read again.
MCView ==
  <<lru, disk, produced, count, pc, signed, published, raced, failed, restarts,
    {t \in stale : pc[t] = "sign"},
    [t \in Tasks |-> IF pc[t] = "idle" THEN "" ELSE head[t].hash],
    [t \in Tasks |-> IF pc[t] = "publish" THEN vote[t] ELSE 0],
    poolVars, traffic>>
============================================================================
