---------------------------- MODULE BscProtocol ----------------------------
(***************************************************************************)
(* The bsc sub-protocol: its connections                                   *)
(* (src/node/network/bsc_protocol/stream.rs), the registry of their        *)
(* senders, range requests and the broadcast of votes (registry.rs).       *)
(*                                                                         *)
(* A connection is a stream the session polls: one poll sends the          *)
(* capability, one command, or handles one frame of the peer.  Requests    *)
(* and broadcasts are tasks that run between polls.  A frame is chosen     *)
(* when it is handled, so it may have been under way for any time, and a   *)
(* timer may fire at any moment.  A waiter of a request gives up long      *)
(* before its entry reaches PENDING_REQ_TTL, so age prunes nothing that a  *)
(* closed waiter does not.                                                 *)
(***************************************************************************)
EXTENDS Evn

CONSTANTS
  Blocks, ParentOf, Number,  \* a tree of blocks; the parent of its root is the zero hash
  NoBlock,                   \* the zero hash
  VersionOf,                 \* external: the highest version shared with a peer
  MAX_REQUEST_RANGE_BLOCKS_COUNT,  \* 64
  DeltaThreshold,            \* delta_td_threshold (20)
  LocalBest,                 \* this node's best block number and difficulty
  PeerInfos,                 \* what the session of a peer may know of its head
  Unknown                    \* a number or difficulty that is not known

ASSUME ProtocolConstants ==
  /\ ParentOf \in [Blocks -> Blocks \cup {NoBlock}] /\ Number \in [Blocks -> Nat] /\ NoBlock \notin Blocks
  /\ VersionOf \in [Peers -> {1, 2}]
  /\ MAX_REQUEST_RANGE_BLOCKS_COUNT \in Nat \ {0}
  /\ DeltaThreshold \in Nat
  /\ \A i \in PeerInfos \cup {LocalBest} :
       \A f \in {"number", "td"} : i[f] \in Nat \/ i[f] = Unknown
  /\ LocalBest.number # Unknown

VARIABLES
  conns,      \* the connections made so far, dropped ones included
  registry,   \* REGISTRY: peer -> the connection whose sender it holds, or 0
  req_counter,\* REQ_COUNTER
  requests,   \* the range-request tasks
  broadcasts  \* the vote-broadcast tasks

protoVars == <<conns, registry, req_counter, requests, broadcasts>>

ProtoInit ==
  /\ conns = <<>> /\ registry = [p \in Peers |-> 0] /\ req_counter = 1
  /\ requests = <<>> /\ broadcasts = <<>>

Open(c) == c # 0 /\ conns[c].open
Newest(c) == \A d \in DOMAIN conns : conns[d].peer = conns[c].peer => d <= c
list_registered_peers == {p \in Peers : registry[p] # 0}

----------------------------------------------------------------------------
(* Making and losing a connection. *)

\* MUTANT: a peer that is registered keeps its old sender.
register_peer_kept(p, c) == [registry EXCEPT ![p] = IF @ = 0 THEN c ELSE @]

register_peer(p, c) == [registry EXCEPT ![p] = c]

NewConnection(p) ==
  [peer |-> p, version |-> VersionOf[p], open |-> TRUE, capability_sent |-> FALSE,
   handshake_completed |-> FALSE, commands |-> <<>>, pending_range_reqs |-> {},
   asked_no_txs |-> disable_peer_tx_broadcast]

\* External: the session is still pending when its handler is installed.  The
\* exchange of upgrade statuses and the check for a second session of the peer
\* come after it, and a session that fails one of them ends its connection.
into_connection(p) ==
  /\ conns' = Append(conns, NewConnection(p))
  /\ registry' = register_peer(p, Len(conns'))
  /\ ConnectEvn(p)
  /\ UNCHANGED <<req_counter, requests, broadcasts>>

\* The stream ends: the commands and the waiters it held are dropped with it,
\* the registry is not told.
Dropped(c) == [conns EXCEPT ![c].open = FALSE, ![c].commands = <<>>, ![c].pending_range_reqs = {}]

connection_closed(c) ==
  /\ Open(c) /\ conns' = Dropped(c)
  /\ UNCHANGED <<registry, req_counter, requests, broadcasts>>

----------------------------------------------------------------------------
(* poll_next. *)

Waiting(r) == requests[r].at = "waiting"

\* prune_pending_requests, if the last pruning is long enough ago: entries
\* whose waiter is gone.
Pruned(c, due) ==
  IF due THEN {e \in conns[c].pending_range_reqs : Waiting(e.task)}
  ELSE conns[c].pending_range_reqs

send_capability(c) ==
  /\ Open(c) /\ ~conns[c].capability_sent
  /\ conns' = [conns EXCEPT ![c].capability_sent = TRUE]
  /\ UNCHANGED <<registry, req_counter, requests, broadcasts>>

\* poll_outgoing_commands: the next command is encoded and sent.  A range
\* request is remembered under its id, in place of one with the same id.
poll_outgoing_commands(c, due) ==
  /\ Open(c) /\ conns[c].capability_sent /\ conns[c].commands # <<>>
  /\ LET cmd == Head(conns[c].commands)
         kept == Pruned(c, due)
     IN conns' = [conns EXCEPT
          ![c].commands = Tail(@),
          ![c].pending_range_reqs =
            IF cmd.type = "range"
              THEN {e \in kept : e.id # cmd.id} \cup {[id |-> cmd.id, task |-> cmd.task]}
              ELSE kept]
  /\ UNCHANGED <<registry, req_counter, requests, broadcasts>>

\* A frame is read when no command is left.
Reads(c) == Open(c) /\ conns[c].capability_sent /\ conns[c].commands = <<>>

\* handle_handshake_frame: only the capability of the same version, in time,
\* completes the handshake; anything else ends the connection.
handle_handshake_frame(c, frame, inTime, due) ==
  /\ Reads(c) /\ ~conns[c].handshake_completed
  /\ conns' = IF inTime /\ frame = [type |-> "capability", version |-> conns[c].version]
                THEN [conns EXCEPT ![c].handshake_completed = TRUE, ![c].pending_range_reqs = Pruned(c, due)]
                ELSE Dropped(c)
  /\ UNCHANGED <<registry, req_counter, requests, broadcasts>>

\* A waiter found under the id of an answer takes it, if it still waits.
BlocksByRange(c, id, blocks, due) ==
  LET kept == Pruned(c, due)
      waiters == {e \in kept : e.id = id}
  IN /\ Reads(c) /\ conns[c].handshake_completed
     /\ conns' = [conns EXCEPT ![c].pending_range_reqs = kept \ waiters]
     /\ requests' = [r \in DOMAIN requests |->
          IF Waiting(r) /\ \E e \in waiters : e.task = r
            THEN [requests[r] EXCEPT !.at = "answered", !.blocks = blocks]
            ELSE requests[r]]
     /\ UNCHANGED <<registry, req_counter, broadcasts>>

\* Votes go to the pool, unknown messages nowhere: the connection only prunes.
other_message(c, due) ==
  /\ Reads(c) /\ conns[c].handshake_completed
  /\ conns' = [conns EXCEPT ![c].pending_range_reqs = Pruned(c, due)]
  /\ UNCHANGED <<registry, req_counter, requests, broadcasts>>

----------------------------------------------------------------------------
(* request_blocks_by_range and batch_request_range_and_await_import. *)

\* External: the answer of an honest peer to a request, on the request's
\* connection.  Nothing says when it comes, and the request may be over by then.
\* The node compares the id only: it forwards whatever blocks come under it.
Answers(r) == IF requests[r].on = 0 THEN {} ELSE {<<>>, <<requests[r].start>>}

\* MUTANT: the id is the task's parameter, not a fresh number.
NextRequestId_reused == 1

NextRequestId == req_counter

\* The spawned task looks the peer up and sends the command to the sender it
\* finds, which fails if the connection is gone.
request_blocks_by_range(r) ==
  LET c == registry[requests[r].peer]
      id == NextRequestId
  IN /\ requests[r].at = "spawned"
     /\ \/ /\ c = 0
           /\ requests' = [requests EXCEPT ![r].at = "failed"]
           /\ UNCHANGED <<conns, req_counter>>
        \/ /\ c # 0
           /\ req_counter' = req_counter + 1
           /\ IF Open(c)
                THEN /\ conns' = [conns EXCEPT ![c].commands =
                          Append(@, [type |-> "range", id |-> id, task |-> r])]
                     /\ requests' = [requests EXCEPT ![r].at = "waiting", ![r].id = id, ![r].on = c]
                ELSE requests' = [requests EXCEPT ![r].at = "failed"] /\ UNCHANGED conns
     /\ UNCHANGED <<registry, broadcasts>>

\* The other half of a waiter: queued with its command or kept as pending.
SenderAlive(r) ==
  \E c \in DOMAIN conns : \/ \E e \in conns[c].pending_range_reqs : e.task = r
                          \/ \E i \in DOMAIN conns[c].commands :
                               conns[c].commands[i].type = "range" /\ conns[c].commands[i].task = r

\* The task gives up: the time is over, or nobody can answer any more.
request_ends(r) ==
  /\ Waiting(r)
  /\ \/ requests' = [requests EXCEPT ![r].at = "timed_out"]
     \/ ~SenderAlive(r) /\ requests' = [requests EXCEPT ![r].at = "canceled"]
  /\ UNCHANGED <<conns, registry, req_counter, broadcasts>>

----------------------------------------------------------------------------
(* broadcast_votes. *)

AbsDiff(m, n) == IF m > n THEN m - n ELSE n - m
Near(m, n) == AbsDiff(m, n) <= DeltaThreshold

\* Who gets the votes: EVN and proxyed peers, peers near this node's head by
\* number, else by difficulty, and peers of which neither is known.
AllowBroadcast(p, info) ==
  \/ is_evn_peer(p) \/ is_proxyed_peer(p)
  \/ info.number # Unknown /\ Near(LocalBest.number, info.number)
  \/ /\ info.number = Unknown
     /\ \/ LocalBest.td = Unknown \/ info.td = Unknown
        \/ Near(LocalBest.td, info.td)

\* The registry is copied before the peers' infos are awaited.
broadcast_votes ==
  /\ broadcasts' = Append(broadcasts, [at |-> "send", snapshot |-> registry, to_remove |-> {}])
  /\ UNCHANGED <<conns, registry, req_counter, requests>>

\* The sends: to_remove are the peers whose sender turned out to be closed.
send_votes(k, info) ==
  LET b == broadcasts[k]
      chosen == {p \in Peers : b.snapshot[p] # 0 /\ AllowBroadcast(p, info[p])}
      sent == {b.snapshot[p] : p \in {q \in chosen : Open(b.snapshot[q])}}
  IN /\ b.at = "send"
     /\ conns' = [c \in DOMAIN conns |->
          IF c \in sent THEN [conns[c] EXCEPT !.commands = Append(@, [type |-> "votes"])] ELSE conns[c]]
     /\ broadcasts' = [broadcasts EXCEPT ![k].at = "cleanup",
                         ![k].to_remove = {p \in chosen : ~Open(b.snapshot[p])}]
     /\ UNCHANGED <<registry, req_counter, requests>>

\* The cleanup takes the lock again and removes by peer, whatever it holds now.
cleanup_registry(k) ==
  LET b == broadcasts[k]
  IN /\ b.at = "cleanup"
     /\ registry' = [p \in Peers |-> IF p \in b.to_remove THEN 0 ELSE registry[p]]
     /\ broadcasts' = [broadcasts EXCEPT ![k].at = "done"]
     /\ UNCHANGED <<conns, req_counter, requests>>
============================================================================
