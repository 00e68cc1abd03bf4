------------------------- MODULE SnapshotProvider --------------------------
(***************************************************************************)
(* The snapshot provider (src/consensus/parlia/provider.rs) over the       *)
(* header cache (src/node/evm/util.rs): several threads ask for snapshots  *)
(* and rebuild missing ones block by block, while headers arrive, the      *)
(* canonical chain moves, caches forget and the node restarts.             *)
(*                                                                         *)
(* Both caches are least-recently-used maps of fixed size shared with      *)
(* blocks outside the model, so any entry may be the next one forgotten.   *)
(* Plato's attestations do not take part in where a snapshot comes from.   *)
(***************************************************************************)
EXTENDS ParliaSnapshot, Sequences

CONSTANTS
  Genesis, Callers,
  Trees,                  \* block trees to look at
  Starts,                 \* canonical heads the node may start with
  Targets,                \* bound: the blocks that are asked about
  CHECKPOINT_INTERVAL,    \* snapshots of these heights are persisted (1024)
  Budgets                 \* bound: how often callers, the network and faults act

\* A tree of blocks: every block but the first is one above its parent, and its header
\* carries an elected set with its turn length (0 before Bohr), or neither.
IsTree(t) ==
  /\ Genesis \in DOMAIN t /\ t[Genesis].number = 0
  /\ \A h \in DOMAIN t :
       /\ t[h].number \in 0..U64_MAX
       /\ t[h].validators \in SUBSET Addresses
       /\ t[h].turn \in TurnLengths \cup {0}
  /\ \A h \in DOMAIN t \ {Genesis} :
       t[h].parent \in DOMAIN t /\ t[h].number = t[t[h].parent].number + 1

ASSUME ProviderConstants ==
  /\ CHECKPOINT_INTERVAL \in Nat \ {0}
  /\ \A t \in Trees : IsTree(t) /\ Starts \subseteq DOMAIN t
  /\ Budgets \subseteq [{"header", "canon", "ask", "evict", "dbError", "restart"} -> Nat]

VARIABLES
  tree,       \* the block tree, fixed
  canon,      \* external: the canonical head
  disk,       \* external: the canonical head as it was last written to disk
  headers,    \* blockhash_to_header of the header cache, as a set of blocks
  numbers,    \* blocknumber_to_header of the header cache
  cache,      \* cache_by_hash: block -> snapshot
  db,         \* ParliaSnapshotsByHash: block -> snapshot
  threads,    \* caller -> progress of its snapshot_by_hash
  budget      \* what is left of Budgets

vars == <<tree, canon, disk, headers, numbers, cache, db, threads, budget>>
chain == <<tree, canon, disk>>

Spend(what) == budget[what] > 0 /\ budget' = [budget EXCEPT ![what] = @ - 1]

\* A block that would pass validation. A header is cached when its block is
\* announced, before anything about it is checked.
Valid(h) == tree[h].valid

Ancestors(h) ==
  LET up[b \in DOMAIN tree] == IF b = Genesis THEN {b} ELSE {b} \cup up[tree[b].parent]
  IN up[h]

Ask(h, stage, at, todo, work, steady) ==
  [stage |-> stage, block |-> h, at |-> at, todo |-> todo, work |-> work, steady |-> steady]
Rest == [stage |-> "idle"]
Told(q, s) == [stage |-> "done", block |-> q.block, work |-> s, steady |-> q.steady]
Busy(t) == threads[t].stage \notin {"idle", "done"}

\* What a caller sees of its thread.
Client(t) ==
  CASE threads[t].stage = "idle" -> [state |-> "idle"]
    [] threads[t].stage = "done" ->
         [state |-> "answered", block |-> threads[t].block, snapshot |-> threads[t].work]
    [] OTHER -> [state |-> "waiting", block |-> threads[t].block]

Service == INSTANCE SnapshotService WITH client <- [t \in Callers |-> Client(t)]

\* What a valid block is, for the provider: one that the snapshots of its own
\* ancestors accept.
ValidTree == \A h \in DOMAIN tree : Valid(h) => Service!Own(h) # {}

Init ==
  /\ tree \in Trees /\ ValidTree
  /\ canon \in Starts /\ Valid(canon) /\ disk = canon
  /\ headers = {} /\ numbers = <<>>
  /\ cache = <<>> /\ db = <<>>
  /\ threads = [t \in Callers |-> Rest]
  /\ budget \in Budgets

----------------------------------------------------------------------------
(* The header cache. *)

\* MUTANT: a header that is not cached is not looked for in the database.
get_header_by_hash_cacheOnly(h) == h \in headers

get_header_by_hash(h) == h \in headers \cup Ancestors(canon)

\* The header cached last at this height; the canonical one only when there is none.
get_header_by_number(n) ==
  IF n \in DOMAIN numbers THEN {numbers[n]}
  ELSE {h \in Ancestors(canon) : tree[h].number = n}

\* A block is announced, or its execution begins.
insert_header_to_cache(h) ==
  /\ h \notin headers \/ get_header_by_number(tree[h].number) # {h}
  /\ Spend("header")
  /\ headers' = headers \cup {h}
  /\ numbers' = Insert(numbers, tree[h].number, h)
  /\ UNCHANGED <<chain, cache, db, threads>>

\* Threads whose question is about a block that left the canonical chain.
Unsettle(tip) ==
  [t \in Callers |->
     IF Busy(t) /\ threads[t].block \notin Ancestors(tip)
     THEN [threads[t] EXCEPT !.steady = FALSE] ELSE threads[t]]

\* External: the engine makes an executed block the canonical head.
SetCanonical(h) ==
  /\ Spend("canon")
  /\ h \in headers /\ Valid(h) /\ tree[h].parent \in headers \cup Ancestors(canon)
  /\ canon' = h
  /\ threads' = Unsettle(h)
  /\ UNCHANGED <<tree, disk, headers, numbers, cache, db>>

\* External: reth writes the canonical chain to disk.
Flush ==
  /\ disk # canon
  /\ disk' = canon
  /\ UNCHANGED <<tree, canon, headers, numbers, cache, db, threads, budget>>

----------------------------------------------------------------------------
(* The base provider: cache first, then the database. *)

Known(h) == h \in DOMAIN cache \cup DOMAIN db
Lookup(h) == IF h \in DOMAIN cache THEN cache[h] ELSE db[h]

\* The answer, with the cache filled from the database.
CacheHit(h) == cache' = Insert(cache, h, Lookup(h))

\* A database write succeeds or, within the bound, fails.
Persisted(h, s) ==
  /\ s.block_number % CHECKPOINT_INTERVAL = 0
  /\ db' = Insert(db, h, s) /\ UNCHANGED budget
NotPersisted(s) ==
  /\ UNCHANGED db
  /\ IF s.block_number % CHECKPOINT_INTERVAL = 0 THEN Spend("dbError") ELSE UNCHANGED budget

\* insert: a failed write is logged, and the snapshot stays in memory.
insert(h, s) ==
  /\ cache' = Insert(cache, h, s)
  /\ Persisted(h, s) \/ NotPersisted(s)

Step(t, q) == threads' = [threads EXCEPT ![t] = q] /\ UNCHANGED <<chain, headers, numbers>>

----------------------------------------------------------------------------
(* snapshot_by_hash of the enhanced provider. *)

ask(t, h) ==
  /\ ~Busy(t)
  /\ Spend("ask")
  /\ Step(t, Ask(h, "lookup", h, <<>>, NoSnapshot, h \in Ancestors(canon)))
  /\ UNCHANGED <<cache, db>>

\* parse_block_number: the tags of a safe and of a finalized block mean the latest one, and
\* the hash of a canonical block its height.
parse_block_number(tag, h) ==
  IF tag = "earliest" THEN 0
  ELSE IF tag \in {"latest", "safe", "finalized"} THEN tree[canon].number
  ELSE tree[h].number

\* get_snapshot and the other queries by number: the provider is asked about the
\* canonical block of that height, and not at all if there is none.
get_snapshot(t, n) ==
  /\ ~Busy(t)
  /\ \/ \E h \in Ancestors(canon) : tree[h].number = n /\ ask(t, h)
     \/ tree[canon].number < n /\ UNCHANGED vars

init_genesis_snapshot(h) ==
  LET s == GenesisSnapshot(tree[h].validators, DEFAULT_EPOCH_LENGTH) IN insert(h, s)

snapshot_by_hash(t) ==
  LET q == threads[t]
      h == q.block
  IN /\ q.stage = "lookup"
     /\ \/ Known(h) /\ CacheHit(h) /\ Step(t, Told(q, Lookup(h))) /\ UNCHANGED <<db, budget>>
        \/ /\ ~Known(h) /\ ~get_header_by_hash(h)
           /\ Step(t, Told(q, NoSnapshot)) /\ UNCHANGED <<cache, db, budget>>
        \/ /\ ~Known(h) /\ get_header_by_hash(h) /\ h = Genesis
           /\ init_genesis_snapshot(h)
           /\ Step(t, Told(q, cache'[h]))
        \/ /\ ~Known(h) /\ get_header_by_hash(h) /\ h # Genesis
           /\ Step(t, [q EXCEPT !.stage = "walk", !.at = tree[h].parent, !.todo = <<h>>])
           /\ UNCHANGED <<cache, db, budget>>

\* One turn of the loop that looks for an ancestor with a snapshot.
walk(t) ==
  LET q == threads[t]
      h == q.at
  IN /\ q.stage = "walk"
     /\ \/ /\ ~get_header_by_hash(h)
           /\ Step(t, Told(q, NoSnapshot)) /\ UNCHANGED <<cache, db, budget>>
        \/ /\ get_header_by_hash(h) /\ h = Genesis
           /\ init_genesis_snapshot(h)
           /\ Step(t, [q EXCEPT !.stage = "apply", !.work = cache'[h]])
        \/ /\ get_header_by_hash(h) /\ h # Genesis /\ Known(h)
           /\ CacheHit(h)
           /\ Step(t, [q EXCEPT !.stage = "apply", !.work = Lookup(h)])
           /\ UNCHANGED <<db, budget>>
        \/ /\ get_header_by_hash(h) /\ h # Genesis /\ ~Known(h)
           /\ Step(t, [q EXCEPT !.at = tree[h].parent, !.todo = <<h>> \o @])
           /\ UNCHANGED <<cache, db, budget>>

is_epoch_boundary(s) == (s.block_number + 1) % s.epoch_num = MinerHistoryCheckLen(s)

CheckpointNumber(s) == s.block_number + 1 - MinerHistoryCheckLen(s)

\* The snapshot after the next block of the rebuild: none if a header is missing,
\* if the checkpoint carries no validators or if apply refuses the proposer.
Rebuilt(q) ==
  LET h == Head(q.todo)
      cps == {c \in get_header_by_number(CheckpointNumber(q.work)) : tree[c].validators # {}}
  IN IF ~get_header_by_hash(h) THEN {NoSnapshot}
     ELSE IF ~is_epoch_boundary(q.work)
     THEN {Apply(q.work, tree[h].proposer, NoAttestation, {}, 0)}
     ELSE IF cps = {} THEN {NoSnapshot}
     ELSE {Apply(q.work, tree[h].proposer, NoAttestation, tree[c].validators, tree[c].turn) : c \in cps}

\* MUTANT: the snapshot is filed under the block it was computed from.
insert_cache_only_parent(h, s) == cache' = Insert(cache, tree[h].parent, s)

insert_cache_only(h, s) == cache' = Insert(cache, h, s)

\* One turn of the loop that applies the blocks again. The last snapshot goes
\* through insert, which writes it once more.
try_rebuild(t) ==
  LET q == threads[t]
      h == Head(q.todo)
      last == Len(q.todo) = 1
      on(s) == IF last THEN Told(q, s) ELSE [q EXCEPT !.work = s, !.todo = Tail(@)]
  IN /\ q.stage = "apply"
     /\ \E s \in Rebuilt(q) :
          \/ s = NoSnapshot /\ Step(t, Told(q, NoSnapshot)) /\ UNCHANGED <<cache, db, budget>>
          \/ /\ s # NoSnapshot
             /\ insert_cache_only(h, s)
             /\ \/ Persisted(h, s) /\ Step(t, on(s))
                \/ /\ s.block_number % CHECKPOINT_INTERVAL # 0
                   /\ Step(t, on(s)) /\ UNCHANGED <<db, budget>>
                \/ s.block_number % CHECKPOINT_INTERVAL = 0 /\ NotPersisted(s) /\ Step(t, Told(q, NoSnapshot))

----------------------------------------------------------------------------
(* Caches forget, the node restarts. *)

evict_snapshot(h) ==
  /\ Spend("evict")
  /\ cache' = Without(cache, {h})
  /\ UNCHANGED <<chain, headers, numbers, db, threads>>

evict_header(h) ==
  /\ Spend("evict")
  /\ headers' = headers \ {h}
  /\ UNCHANGED <<chain, numbers, cache, db, threads>>

evict_number(n) ==
  /\ Spend("evict")
  /\ numbers' = Without(numbers, {n})
  /\ UNCHANGED <<chain, headers, cache, db, threads>>

restart ==
  /\ Spend("restart")
  /\ canon' = disk
  /\ headers' = {} /\ numbers' = <<>> /\ cache' = <<>>
  /\ threads' = [t \in Callers |-> Rest]
  /\ UNCHANGED <<tree, disk, db>>

\* The heights an RPC caller can name.
Asked ==
  {parse_block_number(tag, h) : tag \in {"earliest", "latest", "safe", "finalized", "number"},
                                h \in DOMAIN tree \cap Targets}

ThreadStep(t) == snapshot_by_hash(t) \/ walk(t) \/ try_rebuild(t)

Next ==
  \/ \E h \in DOMAIN tree \ {Genesis} : insert_header_to_cache(h) \/ SetCanonical(h)
  \/ \E h \in DOMAIN cache : evict_snapshot(h)
  \/ \E h \in headers : evict_header(h)
  \/ \E n \in DOMAIN numbers : evict_number(n)
  \/ \E t \in Callers, h \in DOMAIN tree \cap Targets : ask(t, h)
  \/ \E t \in Callers : \E n \in Asked : get_snapshot(t, n)
  \/ \E t \in Callers : ThreadStep(t)
  \/ Flush
  \/ restart

Spec == Init /\ [][Next]_vars /\ \A t \in Callers : WF_vars(ThreadStep(t))

----------------------------------------------------------------------------
\* snapshot_by_hash implements SnapshotService: whatever other threads, evictions,
\* failed writes, reorganisations and restarts do in between, a question about a
\* block is answered in the end, with nothing or with the snapshot its own
\* ancestors determine.  Where another block at the height of an ancestor elects
\* another set, that block may stand in for the ancestor at an epoch boundary.
Implements == Service!ServiceSpec

\* Violated (run snapshot_branch).  The checkpoint of an epoch is documented to be
\* the canonical header of its height: a question about a block that is canonical
\* all the time is answered with nothing or with the snapshot of its own
\* ancestors.  get_header_by_number gives the header cached last at that height,
\* of whatever branch, and an announced one is cached before it is checked.
CanonicalCheckpoint ==
  \A t \in Callers :
    threads[t].stage = "done" /\ threads[t].steady
    => threads[t].work \in Service!Own(threads[t].block) \cup {NoSnapshot}

\* No height has two blocks that elect different sets.
Uncontested ==
  \A b, c \in DOMAIN tree :
    tree[b].number = tree[c].number
    => tree[b].validators = tree[c].validators /\ tree[b].turn = tree[c].turn

\* A canonical block always gets its snapshot, from however little the caches and
\* the last restart left: only a failed write, or a checkpoint of another branch
\* at the same height, leaves the caller without one.
CanonicalAnswered ==
  [][\A t \in Callers :
       /\ Uncontested
       /\ Busy(t) /\ threads'[t].stage = "done"
       /\ threads'[t].steady
       /\ budget' = budget
       => threads'[t].work # NoSnapshot]_vars
============================================================================
