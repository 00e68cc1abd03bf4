-------------------------- MODULE SnapshotService --------------------------
(***************************************************************************)
(* What the snapshot provider promises its callers: a question about a     *)
(* block is answered, either with nothing or with the snapshot that the    *)
(* block's own ancestors determine. How the answer is found, what is       *)
(* cached and what survives a restart does not show.                       *)
(*                                                                         *)
(* The promise has a limit, because the code has it: where a block at the  *)
(* height of an ancestor elects another set, that block may be taken for   *)
(* the checkpoint, and the answer is one computed with it.                 *)
(***************************************************************************)
EXTENDS ParliaSnapshot

CONSTANTS
  Genesis,     \* the genesis block
  Callers      \* the threads that ask

VARIABLES
  tree,        \* block -> parent, number, proposer and, at a checkpoint, the elected set
  client       \* caller -> what it asked and what it was told

Idle == [state |-> "idle"]
Waiting(h) == [state |-> "waiting", block |-> h]
Answered(h, s) == [state |-> "answered", block |-> h, snapshot |-> s]

Ancestors(h) ==
  LET up[b \in DOMAIN tree] == IF b = Genesis THEN {b} ELSE {b} \cup up[tree[b].parent]
  IN up[h]

\* The blocks of C that may serve as the checkpoint of the epoch that starts to
\* count with a child of the block of s.
CheckpointsFor(s, C) ==
  {c \in C : tree[c].number = s.block_number + 1 - MinerHistoryCheckLen(s) /\ tree[c].validators # {}}

\* The snapshots of a block h, given one of its parent.
Successors(s, h, C) ==
  IF (s.block_number + 1) % s.epoch_num # MinerHistoryCheckLen(s)
  THEN {Apply(s, tree[h].proposer, NoAttestation, {}, 0)}
  ELSE {Apply(s, tree[h].proposer, NoAttestation, tree[c].validators, tree[c].turn) :
          c \in CheckpointsFor(s, C)}

\* The snapshots a block can have if every checkpoint is a block of C.
Snapshots(h, C) ==
  LET of[b \in DOMAIN tree] ==
        IF b = Genesis THEN {GenesisSnapshot(tree[b].validators, DEFAULT_EPOCH_LENGTH)}
        ELSE (UNION {Successors(s, b, C) : s \in of[tree[b].parent]}) \ {NoSnapshot}
  IN of[h]

\* The snapshot the block's own ancestors determine, if they are valid.
Own(h) == Snapshots(h, Ancestors(h))

\* Those that take any block of the right height for a checkpoint.
Possible(h) == Snapshots(h, DOMAIN tree)

\* No block elects another set than the ancestor of h at its height.
Undisputed(h) ==
  \A a \in Ancestors(h), b \in DOMAIN tree :
    tree[b].number = tree[a].number
    => tree[b].validators = tree[a].validators /\ tree[b].turn = tree[a].turn

Right(h) == IF Undisputed(h) THEN Own(h) ELSE Possible(h)

ServiceInit == client = [t \in Callers |-> Idle]

Ask(t, h) ==
  /\ client[t].state # "waiting"
  /\ client' = [client EXCEPT ![t] = Waiting(h)]

Reply(t) ==
  /\ client[t].state = "waiting"
  /\ \E s \in Right(client[t].block) \cup {NoSnapshot} :
       client' = [client EXCEPT ![t] = Answered(client[t].block, s)]

Restart == client' = [t \in Callers |-> Idle]

ServiceNext ==
  /\ \/ \E t \in Callers, h \in DOMAIN tree : Ask(t, h)
     \/ \E t \in Callers : Reply(t)
     \/ Restart
  /\ UNCHANGED tree

ServiceSafety == ServiceInit /\ [][ServiceNext]_<<tree, client>>

ServiceSpec ==
  /\ ServiceSafety
  /\ \A t \in Callers : WF_<<tree, client>>(Reply(t) /\ UNCHANGED tree)
============================================================================
