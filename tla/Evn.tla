-------------------------------- MODULE Evn --------------------------------
(***************************************************************************)
(* The enhanced validator network: when the node counts as synced, which   *)
(* peers are validators' peers, and the registration of the node's own     *)
(* identities (src/node/network/evn.rs, evn_peers.rs, handshake.rs and the *)
(* sync watcher of mod.rs).                                                *)
(*                                                                         *)
(* EVN_SYNCED is an atomic flag and the sets stand under locks of their    *)
(* own, so every access is a step.  The channel of armed notifications     *)
(* exists from the first subscription on.                                  *)
(***************************************************************************)
EXTENDS Naturals, FiniteSets, Sequences

CONSTANTS
  Peers,
  NodeIds,                 \* identities as StakeHub keeps them
  NodeIdOf,                \* peer_id_to_node_id: the hash of a peer's identity
  Config,                  \* the node's EVN configuration
  MaxRegistrations         \* attempts to register NodeIDs (10)

ASSUME EvnConstants ==
  /\ NodeIdOf \in [Peers -> NodeIds]
  /\ \A p, q \in Peers : NodeIdOf[p] = NodeIdOf[q] => p = q
  /\ Config \in [enabled : BOOLEAN, tx_broadcast_forbidden : BOOLEAN, mining : BOOLEAN,
                 whitelist : SUBSET NodeIds, proxyed : SUBSET Peers,
                 to_add : SUBSET NodeIds, to_remove : SUBSET NodeIds]
  /\ MaxRegistrations \in Nat \ {0}

VARIABLES
  evn_synced,      \* EVN_SYNCED
  listener,        \* EVN_REFRESH_TASK: not spawned, waiting for the event, refreshing
  armed,           \* an armed notification waits in the listener's channel
  evn_peers,       \* EVN_PEERS: peer -> why it is an EVN peer
  onchain_nodeids, \* ONCHAIN_NODEIDS
  trusted,         \* external: peers the network manager was told to trust
  net_handle,      \* NETWORK_HANDLE is set
  watcher,         \* the sync watcher: polling, registering or ended
  tries,           \* failed attempts to register
  batches          \* NodeIDs transactions broadcast, in order

evnVars == <<evn_synced, listener, armed, evn_peers, onchain_nodeids, trusted, net_handle,
             watcher, tries, batches>>

NotMarked == "none"
Reasons == {NotMarked, "whitelist", "onchain"}

EvnInit ==
  /\ evn_synced = FALSE /\ listener = "off" /\ armed = FALSE
  /\ evn_peers = [p \in Peers |-> NotMarked]
  /\ onchain_nodeids = {} /\ trusted = {} /\ net_handle = FALSE
  /\ watcher = "start" /\ tries = 0 /\ batches = <<>>

is_evn_peer(p) == evn_peers[p] # NotMarked
is_proxyed_peer(p) == p \in Config.proxyed
is_evn_ready == Config.enabled /\ evn_synced

\* upgrade_status: what the node asks of a peer during the handshake.
disable_peer_tx_broadcast == is_evn_ready /\ ~Config.tx_broadcast_forbidden

Whitelisted(p) == Config.enabled /\ NodeIdOf[p] \in Config.whitelist

\* into_connection, its EVN part: mark_evn_if_whitelisted, add_trusted_peer_id
\* for a peer that is marked for whatever reason, spawn_evn_refresh_listener.
ConnectEvn(p) ==
  /\ evn_peers' = IF Whitelisted(p) THEN [evn_peers EXCEPT ![p] = "whitelist"] ELSE evn_peers
  /\ trusted' = IF evn_peers'[p] # NotMarked /\ net_handle THEN trusted \cup {p} ELSE trusted
  /\ listener' = IF listener = "off" THEN "waiting" ELSE listener
  /\ UNCHANGED <<evn_synced, armed, onchain_nodeids, net_handle, watcher, tries, batches>>

\* update_onchain_nodeids: identities are only ever added.
update_onchain_nodeids(ids) ==
  /\ onchain_nodeids' = onchain_nodeids \cup ids
  /\ UNCHANGED <<evn_synced, listener, armed, evn_peers, trusted, net_handle, watcher, tries, batches>>

----------------------------------------------------------------------------
(* The refresh listener. *)

\* MUTANT: the refresh goes over the peers that are marked already.
apply_onchain_nodeids_known(connected) ==
  LET marked == {p \in Peers : is_evn_peer(p) /\ NodeIdOf[p] \in onchain_nodeids}
  IN /\ evn_peers' = [p \in Peers |-> IF p \in marked THEN "onchain" ELSE evn_peers[p]]
     /\ trusted' = IF net_handle THEN trusted \cup marked ELSE trusted

\* Every registered peer whose identity is on chain is marked and trusted.
apply_onchain_nodeids(connected) ==
  LET marked == {p \in connected : NodeIdOf[p] \in onchain_nodeids}
  IN /\ evn_peers' = [p \in Peers |-> IF p \in marked THEN "onchain" ELSE evn_peers[p]]
     /\ trusted' = IF net_handle THEN trusted \cup marked ELSE trusted

\* The first refresh follows the armed event, the next ones the ticker.
evn_refresh(connected) ==
  /\ \/ listener = "waiting" /\ armed /\ listener' = "periodic" /\ armed' = FALSE
     \/ listener = "periodic" /\ UNCHANGED <<listener, armed>>
  /\ apply_onchain_nodeids(connected)
  /\ UNCHANGED <<evn_synced, onchain_nodeids, net_handle, watcher, tries, batches>>

----------------------------------------------------------------------------
(* build_network and the sync watcher. *)

\* The network runs before its handle is set; the watcher follows if enabled.
set_network_handle ==
  /\ ~net_handle /\ net_handle' = TRUE
  /\ watcher' = IF Config.enabled THEN "polling" ELSE "ended"
  /\ UNCHANGED <<evn_synced, listener, armed, evn_peers, onchain_nodeids, trusted, tries, batches>>

HasActions == Config.to_add # {} \/ Config.to_remove # {}

\* One turn of the watcher whose head is fresh enough: set_evn_synced, which
\* notifies only an existing channel, and take_nodeids_actions_once.  The
\* signer may fail to come up while the watcher waits for it.
arm_evn(signer) ==
  /\ watcher = "polling"
  /\ evn_synced' = TRUE
  /\ armed' = (listener # "off")
  /\ watcher' = IF HasActions /\ Config.mining /\ signer THEN "registering" ELSE "ended"
  /\ UNCHANGED <<listener, evn_peers, onchain_nodeids, trusted, net_handle, tries, batches>>

\* The batch: what is still to add and what is still there to remove.
NodeIdsBatch ==
  LET add == Config.to_add \ onchain_nodeids
      remove == Config.to_remove \cap onchain_nodeids
  IN SelectSeq(<<[kind |-> "add", ids |-> add], [kind |-> "remove", ids |-> remove]>>,
               LAMBDA tx : tx.ids # {})

\* register_nodeids_actions.  Reading the state or estimating the gas fails
\* before anything is sent, handing a transaction to the IPC client fails after
\* the batch was broadcast; either way the attempt counts as failed.
register_nodeids_actions(step) ==
  /\ watcher = "registering"
  /\ step = "ipc" => NodeIdsBatch # <<>>
  /\ batches' = IF step = "read" \/ NodeIdsBatch = <<>> THEN batches ELSE Append(batches, NodeIdsBatch)
  /\ tries' = IF step = "ok" THEN tries ELSE tries + 1
  /\ watcher' = IF step = "ok" \/ tries' = MaxRegistrations THEN "ended" ELSE watcher
  /\ UNCHANGED <<evn_synced, listener, armed, evn_peers, onchain_nodeids, trusted, net_handle>>
============================================================================
