----------------------------- MODULE BscNetwork ----------------------------
(***************************************************************************)
(* The network side of the node: the sub-protocol and the EVN state, the   *)
(* downloads of announced blocks (ImportService of                         *)
(* src/node/network/block_import/service.rs) and the body cache that range *)
(* requests of peers are served from (src/shared.rs, blocks_by_range.rs).  *)
(*                                                                         *)
(* The import of a block itself is BlockImport's; here it ends well or     *)
(* not.  Blocks gossiped in full are left out.                             *)
(***************************************************************************)
EXTENDS BscProtocol, SequencesExt

CONSTANTS
  Mined,                \* blocks this node may build
  BODY_CACHE_CAPACITY,  \* 512
  Budgets               \* bounds: connections, requests, ... of one behaviour

ASSUME NetworkConstants ==
  /\ Mined \subseteq Blocks /\ BODY_CACHE_CAPACITY \in Nat \ {0}
  /\ \A u \in Budgets : u \in [conns : Nat, requests : Nat, broadcasts : Nat, epochs : Nat,
                               serves : Nat, losses : Nat, imports : Nat, evn : BOOLEAN]

VARIABLES
  processed, queued,   \* processed_blocks and queued_blocks
  downloading,         \* downloading_blocks whose cool-down is not over
  to_import,           \* the channel of the import service
  by_hash, by_number,  \* the body cache, the latest used last
  reporting,           \* the valid block the import service is about to report, or NoBlock
  offered, announced,  \* blocks sent to the network as ValidHeader and as ValidBlock
  evicted,             \* history: blocks that fell out of the body cache
  budget, spent        \* the bounds of this behaviour and their use

importVars == <<processed, queued, downloading, to_import, reporting, offered, announced>>
cacheVars == <<by_hash, by_number, evicted>>
bounds == <<budget, spent>>
vars == <<evnVars, protoVars, importVars, cacheVars, bounds>>

Init ==
  /\ EvnInit /\ ProtoInit
  /\ processed = {} /\ queued = {} /\ downloading = {} /\ to_import = <<>>
  /\ reporting = NoBlock /\ offered = {} /\ announced = {}
  /\ by_hash = <<>> /\ by_number = <<>> /\ evicted = {}
  /\ budget \in Budgets
  /\ spent = [epochs |-> 0, serves |-> 0, losses |-> 0, imports |-> 0]

\* A bounded kind of step is taken.
Spend(kind) == spent[kind] < budget[kind] /\ spent' = [spent EXCEPT ![kind] = @ + 1] /\ UNCHANGED budget

----------------------------------------------------------------------------
(* The body cache. *)

\* External: LruMap::insert and a LruMap::get that finds its key.
LruTouch(cache, e) ==
  LET c == Append(RemoveFirst(cache, e), e)
  IN IF Len(c) > BODY_CACHE_CAPACITY THEN Tail(c) ELSE c

\* The entry of a number is replaced by the latest block of that number.
WithNumber(b) == SelectSeq(by_number, LAMBDA x : Number[x] # Number[b])

cache_full_block(b) ==
  /\ by_number' = LruTouch(WithNumber(b), b)
  /\ by_hash' = LruTouch(by_hash, b)
  /\ evicted' = (evicted \cup ToSet(by_hash)) \ ToSet(by_hash')

\* get_cached_block_by_number: the body may have left the other index.
CachedByNumber(n) == {b \in ToSet(by_number) : Number[b] = n}

\* build_blocks_by_range_response: from the first block back by parents, while
\* the bodies are cached, up to count.
RangeFrom(first, count) ==
  LET walk[i \in 0 .. count] ==
        IF i = 0 THEN <<>>
        ELSE LET b == IF i = 1 THEN first ELSE ParentOf[walk[i - 1][i - 1]]
             IN IF Len(walk[i - 1]) < i - 1 \/ b \notin ToSet(by_hash) THEN walk[i - 1]
                ELSE Append(walk[i - 1], b)
  IN walk[count]

\* build_blocks_by_range_response: a request names its first block by hash or,
\* with the zero hash, by number.
StartBlock(hash, number) ==
  CASE hash # NoBlock -> hash
    [] hash = NoBlock /\ CachedByNumber(number) # {} -> CHOOSE b \in CachedByNumber(number) : TRUE
    [] OTHER -> NoBlock

RangeResponse(hash, number, count) == RangeFrom(StartBlock(hash, number), count)

\* get_cached_block_by_hash for a path of cached blocks: each counts as used.
Used(cache, range) ==
  LET use[i \in 0 .. Len(range)] == IF i = 0 THEN cache ELSE LruTouch(use[i - 1], range[i])
  IN use[Len(range)]

\* A peer's GetBlocksByRange: a count out of range is ignored.  Every entry that
\* is found counts as used, and so does the parent of the last block served,
\* which is looked up before the count is.
serve_range(c, hash, number, count, due) ==
  /\ other_message(c, due) /\ Spend("serves")
  /\ IF count \notin 1 .. MAX_REQUEST_RANGE_BLOCKS_COUNT THEN UNCHANGED <<by_hash, by_number>>
     ELSE LET first == StartBlock(hash, number)
          IN /\ by_hash' = Used(by_hash, RangeFrom(first, count + 1))
             /\ by_number' = IF hash = NoBlock /\ first # NoBlock THEN LruTouch(by_number, first) ELSE by_number
  /\ UNCHANGED <<evnVars, importVars, evicted>>

----------------------------------------------------------------------------
(* The import service, one task: it takes up nothing else between keeping a *)
(* valid block and reporting it.                                            *)

Idle == reporting = NoBlock

\* on_new_block_hashes: a block that is neither known nor being downloaded is
\* asked of the announcing peer, or of any peer with the bsc extension.
on_new_block_hashes(p, b) ==
  /\ Idle /\ Len(requests) < budget.requests
  /\ b \notin processed \cup queued \cup downloading
  /\ \E q \in IF registry[p] # 0 THEN {p} ELSE list_registered_peers \cup {NoBlock} :
       /\ q = NoBlock => list_registered_peers = {}
       /\ requests' = IF q = NoBlock THEN requests
                      ELSE Append(requests, [peer |-> q, start |-> b, at |-> "spawned",
                                             id |-> 0, on |-> 0, blocks |-> <<>>])
  /\ downloading' = downloading \cup {b}
  /\ UNCHANGED <<evnVars, conns, registry, req_counter, broadcasts, processed, queued,
                 to_import, reporting, offered, announced, cacheVars, bounds>>

\* DOWNLOAD_COOLDOWN_DURATION_MS after a request the block may be asked again.
cooldown_over(b) ==
  /\ b \in downloading /\ downloading' = downloading \ {b}
  /\ UNCHANGED <<evnVars, protoVars, processed, queued, to_import, reporting, offered, announced,
                 cacheVars, bounds>>

\* batch_request_range_and_await_import: the answer is forwarded oldest first.
forward_range(r) ==
  /\ requests[r].at = "answered"
  /\ to_import' = to_import \o Reverse(requests[r].blocks)
  /\ requests' = [requests EXCEPT ![r].at = "done"]
  /\ UNCHANGED <<evnVars, conns, registry, req_counter, broadcasts, processed, queued,
                 downloading, reporting, offered, announced, cacheVars, bounds>>

\* on_new_block: a new block is offered to the network before it is executed.
\* The transfer to EVN peers is output.
on_new_block ==
  LET b == Head(to_import)
      new == {b} \ (processed \cup queued)
  IN /\ Idle /\ to_import # <<>> /\ to_import' = Tail(to_import)
     /\ queued' = queued \cup new /\ offered' = offered \cup new
     /\ UNCHANGED <<evnVars, protoVars, processed, downloading, reporting, announced, cacheVars, bounds>>

\* MUTANT: the block is announced before its body is kept.
keep_valid_early(b) == announced' = announced \cup {b} /\ UNCHANGED cacheVars

\* The body of a valid block is kept before the block is announced.
keep_valid(b) == cache_full_block(b) /\ UNCHANGED announced

\* on_new_mined_block, up to its announcements.
on_new_mined_block(b) ==
  /\ Idle /\ b \in Mined \ processed /\ Spend("imports")
  /\ keep_valid(b) /\ reporting' = b
  /\ UNCHANGED <<evnVars, protoVars, processed, queued, downloading, to_import, offered>>

\* poll: the import of a queued block ends well.
import_outcome(b) ==
  /\ Idle /\ b \in queued \ processed /\ Spend("imports")
  /\ processed' = processed \cup {b} /\ keep_valid(b) /\ reporting' = b
  /\ UNCHANGED <<evnVars, protoVars, queued, downloading, to_import, offered>>

\* The announcements of a block built here, after which it counts as processed,
\* or the outcome of a block imported.
report_valid ==
  /\ ~Idle /\ reporting' = NoBlock
  /\ offered' = offered \cup {reporting} /\ announced' = announced \cup {reporting}
  /\ processed' = processed \cup {reporting}
  /\ UNCHANGED <<evnVars, protoVars, queued, downloading, to_import, cacheVars, bounds>>

----------------------------------------------------------------------------
Quiet == UNCHANGED <<importVars, cacheVars>>

Connect ==
  /\ Len(conns) < budget.conns
  /\ \E p \in Peers : into_connection(p)
  /\ Quiet /\ UNCHANGED bounds

Close == \E c \in DOMAIN conns : connection_closed(c) /\ Spend("losses") /\ Quiet /\ UNCHANGED evnVars

\* What a peer may send during the handshake.
HandshakeFrames == [type : {"capability"}, version : {1, 2}] \cup {[type |-> "other", version |-> 0]}

Poll ==
  /\ \E c \in DOMAIN conns, due \in BOOLEAN :
       \/ send_capability(c)
       \/ poll_outgoing_commands(c, due)
       \/ \E f \in HandshakeFrames, inTime \in BOOLEAN : handle_handshake_frame(c, f, inTime, due)
       \/ \E r \in DOMAIN requests : \E blocks \in Answers(r) :
            requests[r].on = c /\ BlocksByRange(c, requests[r].id, blocks, due)
       \/ other_message(c, due)
  /\ Quiet /\ UNCHANGED <<evnVars, bounds>>

Serve ==
  \E c \in DOMAIN conns, hash \in Blocks \cup {NoBlock}, n \in {Number[b] : b \in Blocks} :
    \E count \in {0, 1, 2, MAX_REQUEST_RANGE_BLOCKS_COUNT + 1}, due \in BOOLEAN :
      serve_range(c, hash, n, count, due)

Requests ==
  /\ \E r \in DOMAIN requests : request_blocks_by_range(r) \/ request_ends(r)
  /\ Quiet /\ UNCHANGED <<evnVars, bounds>>

Broadcast ==
  /\ \/ Len(broadcasts) < budget.broadcasts /\ broadcast_votes
     \/ \E k \in DOMAIN broadcasts :
          \/ \E info \in [Peers -> PeerInfos] : send_votes(k, info)
          \/ cleanup_registry(k)
  /\ Quiet /\ UNCHANGED <<evnVars, bounds>>

Refresh == evn_refresh(list_registered_peers) /\ Quiet /\ UNCHANGED <<protoVars, bounds>>

EvnStep ==
  /\ budget.evn
  /\ \/ set_network_handle
     \/ \E signer \in BOOLEAN : arm_evn(signer)
     \/ \E step \in {"ok", "read", "ipc"} : register_nodeids_actions(step)
  /\ Quiet /\ UNCHANGED <<protoVars, bounds>>

\* An epoch block is executed: the identities of its validators are read.
EpochBlock ==
  /\ \E ids \in SUBSET NodeIds : update_onchain_nodeids(ids)
  /\ Spend("epochs") /\ Quiet /\ UNCHANGED protoVars

Download ==
  \/ \E p \in Peers, b \in Blocks \ Mined : on_new_block_hashes(p, b)
  \/ \E b \in Blocks : cooldown_over(b) \/ import_outcome(b) \/ on_new_mined_block(b)
  \/ \E r \in DOMAIN requests : forward_range(r)
  \/ on_new_block
  \/ report_valid

Next == Connect \/ Close \/ Poll \/ Serve \/ Requests \/ Broadcast \/ Refresh \/ EvnStep \/ EpochBlock \/ Download

\* The listener's task runs and its ticker fires.
Spec == Init /\ [][Next]_vars /\ WF_vars(Refresh)
-----------------------------------------------------------------------------
\* pending_range_reqs: an answer ends up with the request it answers, asked of
\* that peer on that connection, however late it comes and whatever was asked
\* in between.
AnswerBelongs ==
  \A r \in DOMAIN requests :
    requests[r].at \in {"answered", "done"} =>
      requests[r].blocks \in Answers(r) /\ conns[requests[r].on].peer = requests[r].peer

\* REGISTRY: a sender is given up for a newer one or after its connection has
\* ended, whatever connections come, end and overlap while votes are sent.  The
\* sender registered for a peer is that of its newest connection, or none is
\* after one of its connections has ended; and one that a broadcast found closed
\* and removed never comes back.
LatestSenderKept ==
  /\ \A c \in DOMAIN conns :
       LET p == conns[c].peer
       IN Newest(c) => \/ registry[p] = c
                       \/ registry[p] = 0 /\ \E d \in DOMAIN conns : conns[d].peer = p /\ ~conns[d].open
  /\ \A k \in DOMAIN broadcasts : \A p \in broadcasts[k].to_remove :
       broadcasts[k].at = "done" => registry[p] # broadcasts[k].snapshot[p]

\* Violated (run stale_cleanup).  into_connection saves the sender so that others
\* can reach the peer: the newest connection of a peer is registered for as long
\* as it is open.  The cleanup of a broadcast whose copy of the registry held the
\* connection before removes it.
LiveSenderRegistered ==
  \A c \in DOMAIN conns : Newest(c) /\ Open(c) => registry[conns[c].peer] = c

\* spawn_evn_refresh_listener: if the listener was there when the node armed
\* EVN, every connected peer whose identity is on chain is marked in the end,
\* whether it connected or its identity appeared before or after.
EvnPeersMarked ==
  \A p \in Peers :
    ((armed \/ listener = "periodic") /\ registry[p] # 0 /\ NodeIdOf[p] \in onchain_nodeids)
      ~> (is_evn_peer(p) \/ registry[p] = 0)

\* build_blocks_by_range_response: asked by hash or by number, the node answers
\* with blocks it built or executed, never with one that it has only offered:
\* the block of that hash or one of that number, then its ancestors in order.  An
\* answer ends early only at a block that was not reported as valid or that newer
\* ones pushed out, so a peer that follows an announcement finds the block.  (The
\* empty bodies of which the function's doc speaks are never made.)
ServedRanges ==
  \A hash \in Blocks \cup {NoBlock}, number \in {Number[b] : b \in Blocks},
     count \in 1 .. MAX_REQUEST_RANGE_BLOCKS_COUNT :
    LET range == RangeResponse(hash, number, count)
        missing == IF range = <<>> THEN StartBlock(hash, number) ELSE ParentOf[range[Len(range)]]
    IN /\ ToSet(range) \subseteq processed \cup Mined
       /\ range # <<>> => IF hash # NoBlock THEN range[1] = hash ELSE Number[range[1]] = number
       /\ \A i \in 2 .. Len(range) : range[i] = ParentOf[range[i - 1]]
       /\ Len(range) < count => missing \notin announced \ evicted
============================================================================
