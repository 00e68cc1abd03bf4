--------------------------- MODULE VoteProducer ----------------------------
(***************************************************************************)
(* Vote production (src/node/vote_producer.rs) as it is driven by the      *)
(* miner's new-work loop (src/node/miner/bsc_miner.rs): every canonical    *)
(* head notification spawns a task, the tasks run in parallel, and each    *)
(* one takes the locks of the shared state one after the other.            *)
(*                                                                         *)
(* The node is a validator: mining is enabled, the BLS signer is           *)
(* initialised and Luban is active, none of which changes in one process   *)
(* life. The downloader gate START_VOTE is left out: set_downloader_active *)
(* has no caller.                                                          *)
(***************************************************************************)
EXTENDS VoteJournal, SequencesExt

CONSTANTS
  Tasks,              \* slots for voting tasks that run at the same time
  Heads,              \* canonical heads the node may be notified of
  PRODUCED_CAPACITY,  \* capacity of PRODUCED_TARGETS (2048)
  WARMUP_BLOCKS,      \* BSC_VOTE_WARMUP_BLOCKS (40)
  MemOnly,            \* BSC_VOTE_JOURNAL_MEMORY_ONLY
  MaxFaults,          \* bound: writes of the journal that fail or are cut short
  MaxSigned,          \* bound: votes signed; past it signing always fails
  MaxRestarts         \* bound: restarts of the process

\* A head's snapshot names the last justified block: the source of the vote.
HeadHeader == [hash : Hashes, number : Nat, justified : Nat]

ASSUME ProducerConstants ==
  /\ Heads \subseteq HeadHeader
  /\ \A h \in Heads : h.justified < h.number
  /\ PRODUCED_CAPACITY \in Nat \ {0}
  /\ WARMUP_BLOCKS \in Nat
  /\ MemOnly \in BOOLEAN
  /\ MaxFaults \in Nat
  /\ MaxSigned \in Nat
  /\ MaxRestarts \in Nat

VARIABLES
  lru,        \* VoteJournal::lru
  disk,       \* votes.jsonl
  produced,   \* PRODUCED_TARGETS, most recently used last
  count,      \* BLOCKS_SINCE_MINING
  pc, head,   \* each task: where it is, and its argument
  vote,       \* each task: the index in `signed` of the vote it carries
  signed,     \* history: every vote signed by this validator, in order
  published,  \* history: the indices in `signed` of the votes that left the task
  stale,      \* history: the tasks overtaken by a vote since they checked the rules
  raced,      \* history: whether a vote was persisted by such a task
  failed,     \* history: number of writes that failed or were cut short
  restarts    \* number of restarts so far

shared == <<lru, disk, produced, count>>
history == <<signed, published, stale, raced, failed>>
vars == <<lru, disk, produced, count, pc, head, vote,
          signed, published, stale, raced, failed, restarts>>

Stages == {"idle", "warmup", "snapshot", "rules", "sign", "publish"}

Init ==
  /\ lru = EmptyLru
  /\ disk = EmptyDisk
  /\ produced = <<>>
  /\ count = 0
  /\ pc = [t \in Tasks |-> "idle"]
  /\ head \in [Tasks -> Heads]
  /\ vote = [t \in Tasks |-> 0]
  /\ signed = <<>>
  /\ published = {}
  /\ stale = {}
  /\ raced = FALSE
  /\ failed = 0
  /\ restarts = 0

Goto(t, stage) == pc' = [pc EXCEPT ![t] = stage]

----------------------------------------------------------------------------
\* PRODUCED_TARGETS after a lookup or an insertion of a target: it becomes the
\* most recent, and the least recent one makes room.
TouchProduced(hash) ==
  LET p == Append(RemoveFirst(produced, hash), hash)
  IN IF Len(p) > PRODUCED_CAPACITY THEN Tail(p) ELSE p

\* NewWorkWorker::run spawns a voting task for the tip of a notification, and
\* the task's first access to shared state is the lock of PRODUCED_TARGETS: a
\* target seen before ends the task, a new one is recorded.
Start(t, h) ==
  /\ pc[t] = "idle"
  /\ produced' = TouchProduced(h.hash)
  /\ head' = [head EXCEPT ![t] = h]
  /\ Goto(t, IF h.hash \in ToSet(produced) THEN "idle" ELSE "warmup")
  /\ UNCHANGED <<lru, disk, count, vote, history, restarts>>

\* The atomic fetch_add of the warm-up counter.
Warmup(t) ==
  /\ pc[t] = "warmup"
  /\ count' = count + 1
  /\ Goto(t, IF count + 1 <= WARMUP_BLOCKS THEN "idle" ELSE "snapshot")
  /\ UNCHANGED <<lru, disk, produced, head, vote, history, restarts>>

\* The counter is clamped by a separate store. Then the task ends when the
\* head's snapshot is missing, when the local key is not in its validator set
\* or when it is too late to broadcast, and goes on otherwise.
Snapshot(t) ==
  /\ pc[t] = "snapshot"
  /\ count' = WARMUP_BLOCKS
  /\ \E stage \in {"idle", "rules"} : Goto(t, stage)
  /\ UNCHANGED <<lru, disk, produced, head, vote, history, restarts>>

\* vote_journal::under_rules takes the journal's lock and releases it.
CheckRules(t) ==
  /\ pc[t] = "rules"
  /\ Goto(t, IF UnderRules(lru, head[t].justified, head[t].number) THEN "sign" ELSE "idle")
  /\ stale' = stale \ {t}
  /\ UNCHANGED <<shared, head, vote, signed, published, raced, failed, restarts>>

SignFails(t) ==
  /\ pc[t] = "sign"
  /\ Goto(t, "idle")
  /\ UNCHANGED <<shared, head, vote, history, restarts>>

VoteFor(h) ==
  [source_number |-> h.justified, target_number |-> h.number, target_hash |-> h.hash]

\* VoteJournal::write_vote: the file first, and the cache only when the whole
\* line was written.
WriteVote(vd, how) ==
  /\ disk' = IF MemOnly THEN disk ELSE AppendLine(disk, vd, how)
  /\ lru' = IF how = "ok" THEN LruAdd(lru, vd) ELSE lru

WriteOutcomes == IF failed < MaxFaults /\ ~MemOnly THEN Writes ELSE {"ok"}

\* The vote is signed and persisted under the journal's lock, taken again. An
\* error of the write is logged and the task goes on.
SignAndPersist(t) ==
  /\ pc[t] = "sign"
  /\ Len(signed) < MaxSigned
  /\ \E how \in WriteOutcomes :
       /\ WriteVote(VoteFor(head[t]), how)
       /\ failed' = IF how = "ok" THEN failed ELSE failed + 1
  /\ signed' = Append(signed, VoteFor(head[t]))
  /\ raced' = (raced \/ t \in stale)
  /\ stale' = stale \cup {u \in Tasks : pc[u] = "sign"}
  /\ vote' = [vote EXCEPT ![t] = Len(signed) + 1]
  /\ Goto(t, "publish")
  /\ UNCHANGED <<produced, count, head, published, restarts>>

\* put_vote into the local pool and broadcast_votes to the peers.
Publish(t) ==
  /\ pc[t] = "publish"
  /\ published' = published \cup {vote[t]}
  /\ Goto(t, "idle")
  /\ UNCHANGED <<shared, head, vote, signed, stale, raced, failed, restarts>>

\* The process dies and starts again: the statics are fresh and the journal is
\* reloaded. A task that was writing may have left a part of its line.
Restart ==
  /\ restarts < MaxRestarts
  /\ restarts' = restarts + 1
  /\ \/ disk' = disk /\ failed' = failed
     \/ \E t \in Tasks, how \in WriteOutcomes \ {"ok"} :
          /\ pc[t] = "sign"
          /\ disk' = AppendLine(disk, VoteFor(head[t]), how)
          /\ failed' = failed + 1
  /\ lru' = LoadFromDisk(disk'.lines)
  /\ produced' = <<>>
  /\ count' = 0
  /\ pc' = [t \in Tasks |-> "idle"]
  /\ UNCHANGED <<head, vote, signed, published, stale, raced>>

Step(t) ==
  \/ \E h \in Heads : Start(t, h)
  \/ Warmup(t)
  \/ Snapshot(t)
  \/ CheckRules(t)
  \/ SignFails(t)
  \/ SignAndPersist(t)
  \/ Publish(t)

Next == Restart \/ \E t \in Tasks : Step(t)

Spec == Init /\ [][Next]_vars

----------------------------------------------------------------------------
\* Type invariant.
TypeOK ==
  /\ IsLru(lru)
  /\ disk \in Disk
  /\ produced \in Seq(Hashes)
  /\ count \in Nat
  /\ pc \in [Tasks -> Stages]
  /\ head \in [Tasks -> Heads]
  /\ vote \in [Tasks -> Nat]
  /\ signed \in Seq(VoteData)
  /\ published \subseteq Nat
  /\ stale \subseteq Tasks
  /\ raced \in BOOLEAN
  /\ failed \in Nat
  /\ restarts \in Nat

\* Two signed votes with fewer than MAX_RECENT_ENTRIES signatures between
\* them: what the journal can still remember.
Remembered(i, j) == i < j /\ j - i <= MAX_RECENT_ENTRIES

\* Rule 1 of under_rules, over what really left the node: no two distinct
\* votes for the same height are published, restarts included.
NoDoubleVote ==
  \A i, j \in published :
    Remembered(i, j) /\ signed[i].target_number = signed[j].target_number
      => signed[i] = signed[j]

\* Rule 2 of under_rules: no published vote spans another one, in the windows
\* the rule looks at: a later vote never surrounds an earlier one whose target
\* is at most MALICIOUS_VOTE_SLASH_SCOPE below, nor is it surrounded by one
\* whose target is at most UPPER_LIMIT_OF_VOTE_BLOCK_NUMBER above.
NoSurroundVote ==
  \A i, j \in published : Remembered(i, j) =>
    LET old == signed[i]
        new == signed[j]
    IN /\ ~ /\ new.source_number < old.source_number
            /\ old.target_number < new.target_number
            /\ new.target_number - old.target_number <= MALICIOUS_VOTE_SLASH_SCOPE
       /\ ~ /\ old.source_number < new.source_number
            /\ new.target_number < old.target_number
            /\ old.target_number - new.target_number <= UPPER_LIMIT_OF_VOTE_BLOCK_NUMBER

\* What the two rules really rest on: every vote was persisted while its rule
\* check still held, no write of the journal failed, and a restart had a file
\* to read.
Clean == ~raced /\ failed = 0 /\ (MemOnly => restarts = 0)

\* A double vote takes a rule check overtaken by another task, a failed write,
\* or a restart of a memory-only journal: check-then-persist is otherwise safe,
\* for any number of parallel tasks and wherever the process is restarted.
CleanNoDoubleVote == Clean => NoDoubleVote

\* The same for a vote that spans another one.
CleanNoSurroundVote == Clean => NoSurroundVote

\* Persisting before publishing: whatever the moment of a crash, the reloaded
\* cache is the one the process had, order of eviction included.
RestartIsLossless == Clean /\ ~MemOnly => LoadFromDisk(disk.lines) = lru

\* A failed write of the journal costs the file at most two votes: its own,
\* and the one whose line is appended to what the failed write left behind.
LossIsBounded ==
  ~MemOnly => Len(signed) - Cardinality(Parsed(disk.lines)) <= 2 * failed
============================================================================
