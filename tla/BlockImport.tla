---------------------------- MODULE BlockImport ----------------------------
(***************************************************************************)
(* Importing blocks: the import service                                    *)
(* (src/node/network/block_import/service.rs) and the fork-choice engine   *)
(* it calls (src/node/consensus.rs), over reth's engine tree.              *)
(*                                                                         *)
(* Every import is a future, and every await lets the others go on. The    *)
(* engine handles one request at a time: a request and what the engine     *)
(* does with it are one step. Hash announcements and downloads are left    *)
(* out: peers may deliver any block at any time.                           *)
(***************************************************************************)
EXTENDS ForkChoice, Sequences, SequencesExt

CONSTANTS
  Imports,                    \* slots for imports that run at the same time
  Bad,                        \* blocks that fail to execute
  Mined,                      \* blocks this node may build
  LRU_PROCESSED_BLOCKS_SIZE,  \* capacity of the service's caches (100)
  NoBlock,                    \* no sync target
  Bounds                      \* bounds of a behaviour: the blocks that arrive, how many
                              \* are taken, engine errors and snapshots not found

ASSUME ImportConstants ==
  /\ Bad \subseteq Blocks \ {Genesis}
  /\ Mined \subseteq Blocks \ ({Genesis} \cup Bad)
  /\ NoBlock \notin Blocks
  /\ LRU_PROCESSED_BLOCKS_SIZE \in Nat \ {0}
  /\ \A u \in Bounds : u \in [blocks : SUBSET Blocks, delivered : Nat, faults : Nat]

VARIABLES
  known, head, target,  \* the engine: blocks in the tree, canonical head, sync target
  processed, queued,    \* the service's caches of hashes, the latest last
  td_cache,             \* header_td_cache
  import,               \* each slot: its block and how far it is
  mined,                \* blocks built here, handed to the service
  stale,                \* history: imports overtaken by a change of head
  unsound,              \* history: a head was set by such an import, or by no rule
  settled,              \* history: blocks whose fork choice the engine has carried out
  submitted,            \* history: block -> how often it was sent to the engine
  faults,               \* number of faults so far
  bound                 \* the bounds of this behaviour

engine == <<known, head, target>>
caches == <<processed, queued>>
history == <<stale, unsound, settled, submitted>>
vars == <<known, head, target, processed, queued, td_cache, import, mined,
          stale, unsound, settled, submitted, faults, bound>>

Idle == [at |-> "idle", block |-> Genesis, own |-> FALSE, number |-> 0, current |-> Genesis,
         current_td |-> Unknown, incoming_td |-> Unknown]

Init ==
  /\ known = {Genesis}
  /\ head = Genesis
  /\ target = NoBlock
  /\ processed = <<>>
  /\ queued = <<>>
  /\ td_cache = <<>>
  /\ import = [i \in Imports |-> Idle]
  /\ mined = {}
  /\ stale = {}
  /\ unsound = FALSE
  /\ settled = {}
  /\ submitted = [b \in Blocks |-> 0]
  /\ faults = 0
  /\ bound \in Bounds

Running(i, stage) == import[i].at = stage
Goto(i, stage) == import' = [import EXCEPT ![i].at = stage]
Finish(i) == import' = [import EXCEPT ![i] = Idle]

\* LruCache::insert
Touch(cache, b) ==
  LET c == Append(RemoveFirst(cache, b), b)
  IN IF Len(c) > LRU_PROCESSED_BLOCKS_SIZE THEN Tail(c) ELSE c

Delivered == FoldFunction(+, 0, submitted) + Cardinality(mined)

----------------------------------------------------------------------------
(* The service takes a block from a channel. *)

\* MUTANT: a block that is being imported is imported again.
NotSeenProcessedOnly(b) == b \notin ToSet(processed)

NotSeen(b) == b \notin ToSet(processed) /\ b \notin ToSet(queued)

\* on_new_block: a block seen before is dropped, a new one becomes an import.
OnNewBlock(i, b) ==
  /\ Running(i, "idle") /\ Delivered < bound.delivered /\ b \in bound.blocks
  /\ b \in Mined => b \in mined
  /\ NotSeen(b)
  /\ queued' = Touch(queued, b)
  /\ import' = [import EXCEPT ![i] = [Idle EXCEPT !.at = "payload", !.block = b]]
  /\ submitted' = [submitted EXCEPT ![b] = @ + 1]
  /\ UNCHANGED <<engine, processed, td_cache, mined, stale, unsound, settled, faults>>

\* on_new_mined_block: the block is announced and counts as processed; a spawned
\* task updates the fork choice, while the engine gets the block by an event.
OnNewMinedBlock(i, b) ==
  /\ Running(i, "idle") /\ Delivered < bound.delivered /\ b \in bound.blocks
  /\ b \in Mined \ mined /\ Header[b].parent \in known
  /\ mined' = mined \cup {b}
  /\ processed' = Touch(processed, b)
  /\ import' = [import EXCEPT ![i] = [Idle EXCEPT !.at = "number", !.block = b, !.own = TRUE]]
  /\ UNCHANGED <<engine, queued, td_cache, history, faults>>

\* External: the engine takes a built payload into its tree.
EngineInsertsBuilt(b) ==
  /\ b \in mined \ known
  /\ known' = known \cup {b}
  /\ UNCHANGED <<head, target, caches, td_cache, import, mined, history, faults>>

----------------------------------------------------------------------------
(* External: what the engine does with a fork-choice update. *)

Read == {"header", "td_current", "td_incoming", "choose"}

\* The head changes: imports that have read the old one are overtaken.
SetHead(b) ==
  /\ head' = b
  /\ stale' = IF b = head THEN stale
              ELSE stale \cup {i \in Imports : import[i].at \in Read}

\* A known block becomes the head, unless it is already in the head's chain; an
\* unknown one becomes the target of a download.
ForkChoiceUpdated(b) ==
  /\ target' = IF b \in known THEN NoBlock ELSE b
  /\ SetHead(IF b \in known /\ b \notin Chain(head) THEN b ELSE head)

\* External: the download of the target is complete.
EngineSync ==
  /\ target # NoBlock
  /\ Chain(target) \cap Bad = {}
  /\ known' = known \cup Chain(target)
  /\ target' = NoBlock
  /\ SetHead(target)
  /\ unsound' = TRUE
  /\ UNCHANGED <<caches, td_cache, import, mined, settled, submitted, faults>>

----------------------------------------------------------------------------
(* One import. *)

Fault == faults < bound.faults /\ faults' = faults + 1

\* new_payload: the engine's answer.
NewPayload(i) ==
  LET b == import[i].block
      connected == Header[b].parent \in known
  IN /\ Running(i, "payload")
     /\ \/ /\ connected /\ b \notin Bad
           /\ known' = known \cup {b}
           /\ Goto(i, "number") /\ UNCHANGED faults
        \/ connected /\ b \in Bad /\ Finish(i) /\ UNCHANGED <<known, faults>>
        \/ ~connected /\ Goto(i, "sync") /\ UNCHANGED <<known, faults>>
        \/ Fault /\ Finish(i) /\ UNCHANGED known
     /\ UNCHANGED <<head, target, caches, td_cache, mined, history>>

\* The answer was Syncing: the block becomes the head without the rule.
SyncTo(i) ==
  /\ Running(i, "sync")
  /\ \/ /\ ForkChoiceUpdated(import[i].block)
        /\ unsound' = (unsound \/ head' # head)
        /\ UNCHANGED faults
     \/ Fault /\ UNCHANGED <<head, target, stale, unsound>>
  /\ Finish(i)
  /\ UNCHANGED <<known, caches, td_cache, mined, settled, submitted>>

\* update_forkchoice reads the number of the best block ...
ReadNumber(i) ==
  /\ Running(i, "number")
  /\ import' = [import EXCEPT ![i].at = "header", ![i].number = Header[head].number]
  /\ stale' = stale \ {i}
  /\ UNCHANGED <<engine, caches, td_cache, mined, unsound, settled, submitted, faults>>

\* ... then the canonical header of that number, if there still is one.
ReadHeader(i) ==
  LET at == {b \in Chain(head) : Header[b].number = import[i].number}
  IN /\ Running(i, "header")
     /\ \/ \E b \in at : import' = [import EXCEPT ![i].at = "td_current", ![i].current = b]
        \/ at = {} /\ Goto(i, "outcome")
     /\ UNCHANGED <<engine, caches, td_cache, mined, history, faults>>

\* header_td: the cache, or the engine's answer, which is cached whatever it is.
HeaderTd(b, td) ==
  /\ td = IF b \in DOMAIN td_cache THEN td_cache[b]
          ELSE IF b \in known THEN Header[b].td ELSE Unknown
  /\ td_cache' = [c \in DOMAIN td_cache \cup {b} |-> IF c = b THEN td ELSE td_cache[c]]

\* The engine is asked and reports an error: nothing is cached.
HeaderTdFails(b) == b \notin DOMAIN td_cache /\ UNCHANGED td_cache

Tds == {Unknown} \cup {Header[b].td : b \in Blocks}

TdCurrent(i) ==
  /\ Running(i, "td_current")
  /\ \/ /\ \E td \in Tds :
             /\ HeaderTd(import[i].current, td)
             /\ import' = [import EXCEPT ![i].at = "td_incoming", ![i].current_td = td]
        /\ UNCHANGED faults
     \/ Fault /\ HeaderTdFails(import[i].current) /\ Goto(i, "outcome")
  /\ UNCHANGED <<engine, caches, mined, history>>

\* MUTANT: the incoming block's own difficulty is forgotten.
FromParentAlone(b, td) == td

FromParent(b, td) == IF td = Unknown THEN td ELSE td + Header[b].difficulty

\* When the query for the incoming header fails, its parent's difficulty is used;
\* when that fails too, the fork choice is given up.
TdIncoming(i) ==
  LET b == import[i].block
      parent == Header[b].parent
  IN /\ Running(i, "td_incoming")
     /\ \/ /\ \E td \in Tds :
                /\ HeaderTd(b, td)
                /\ import' = [import EXCEPT ![i].at = "choose", ![i].incoming_td = td]
           /\ UNCHANGED faults
        \/ /\ Fault /\ b \notin DOMAIN td_cache
           /\ \/ \E td \in Tds :
                  /\ HeaderTd(parent, td)
                  /\ import' = [import EXCEPT ![i].at = "choose",
                                              ![i].incoming_td = FromParent(b, td)]
              \/ HeaderTdFails(parent) /\ Goto(i, "outcome")
     /\ UNCHANGED <<engine, caches, mined, history>>

\* is_need_reorg: what the rule may answer for the headers read, when the snapshots of
\* `missing` are not found.
NeedReorg(m, missing) ==
  IsNeedReorg(
    ForForkchoice(m.block, m.incoming_td, JustifiedNum(m.block, m.block \notin missing)),
    ForForkchoice(m.current, m.current_td, JustifiedNum(m.current, m.current \notin missing)))

\* The rule is applied to the headers read, with 0 for a snapshot that is not
\* found, and the engine is told the winner; without an answer it is told nothing.
\* The engine may also refuse the update.
Choose(i) ==
  LET m == import[i]
      decide(missing) ==
        \/ \E reorg \in NeedReorg(m, missing) :
             /\ ForkChoiceUpdated(IF reorg THEN m.block ELSE m.current)
             /\ unsound' = (unsound \/ (head' # head /\ i \in stale) \/ missing # {})
             /\ settled' = IF target' = NoBlock THEN settled \cup {m.block} ELSE settled
        \/ NeedReorg(m, missing) = {} /\ UNCHANGED <<head, target, stale, unsound, settled>>
  IN /\ Running(i, "choose")
     /\ \/ decide({}) /\ UNCHANGED faults
        \/ Fault /\ \E b \in {m.block, m.current} : decide({b})
        \/ Fault /\ UNCHANGED <<head, target, stale, unsound, settled>>
     /\ Goto(i, "outcome")
     /\ UNCHANGED <<known, caches, td_cache, mined, submitted>>

\* The service takes the outcome of a valid block, whatever became of its fork
\* choice. The task of a built block has no outcome to report.
Outcome(i) ==
  /\ Running(i, "outcome")
  /\ processed' = IF import[i].own THEN processed ELSE Touch(processed, import[i].block)
  /\ Finish(i)
  /\ UNCHANGED <<engine, queued, td_cache, mined, history, faults>>

Step(i) ==
  \/ NewPayload(i) \/ SyncTo(i) \/ ReadNumber(i) \/ ReadHeader(i)
  \/ TdCurrent(i) \/ TdIncoming(i) \/ Choose(i) \/ Outcome(i)

\* Nothing is under way and no block arrives.
Wait ==
  /\ \A i \in Imports : Running(i, "idle")
  /\ UNCHANGED vars

Next ==
  /\ \/ \E i \in Imports, b \in Blocks \ {Genesis} : OnNewBlock(i, b) \/ OnNewMinedBlock(i, b)
     \/ \E b \in Mined : EngineInsertsBuilt(b)
     \/ EngineSync
     \/ \E i \in Imports : Step(i)
     \/ Wait
  /\ UNCHANGED bound

Spec == Init /\ [][Next]_vars

----------------------------------------------------------------------------
\* header_td: whatever fails in between, a difficulty that was cached, or read for an
\* import, is the block's own or unknown.
DifficultiesRight ==
  /\ \A b \in DOMAIN td_cache : td_cache[b] \in {Unknown, Header[b].td}
  /\ \A i \in Imports : /\ import[i].current_td \in {Unknown, Header[import[i].current].td}
                         /\ import[i].incoming_td \in {Unknown, Header[import[i].block].td}

\* update_forkchoice never replaces the head by a block that the rule likes less.
UpdateNeverWorse == [][(\E i \in Imports : Choose(i)) => ~Prefers(head, head')]_vars

\* Imports that run at the same time make the head worse only when one of them
\* acts on a head it read before another one changed it, when a snapshot was not
\* found, or when the engine follows a block whose ancestors it did not know.
CleanHeadNeverWorse == [][~unsound' => ~Prefers(head, head')]_vars

\* Blocks arrive in any order and imports interleave: as long as the history is not
\* unsound, no block that went through update_forkchoice is better than the head.
BestBlockWins == ~unsound => \A b \in settled : ~Prefers(b, head)

\* A block that the head's snapshot finalizes stays canonical when update_forkchoice
\* changes the head, as long as the history is not unsound.
FinalizedStays == [][~unsound' => Header[head].finalized \in Chain(head')]_vars

\* A block is sent to the engine once, however often it is delivered and even if
\* it was built here, as long as the caches of hashes hold every block.
ImportedOnce ==
  Cardinality(Blocks) <= LRU_PROCESSED_BLOCKS_SIZE =>
    \A b \in Blocks : submitted[b] + Cardinality({b} \cap mined) <= 1
============================================================================
