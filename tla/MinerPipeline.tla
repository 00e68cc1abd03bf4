--------------------------- MODULE MinerPipeline ---------------------------
(***************************************************************************)
(* The miner's workers (node/miner/bsc_miner.rs) and its payload jobs      *)
(* (node/miner/payload.rs).  The new-work worker turns chain events into   *)
(* mining contexts; the main worker aborts the running job and starts one  *)
(* for the newest context; a job builds payloads until its time is up and  *)
(* sends the best one, the best bid included; the result worker delays it  *)
(* if need be and submits it unless the double-sign guard refuses.  An     *)
(* aborted job and its successor run side by side for a while.             *)
(***************************************************************************)
EXTENDS BidSimulator

CONSTANTS
  Eligible,    \* Eligible[b]: validator on top of b, and not signed recently
  Fees,        \* what a built payload may earn
  CacheSize    \* RECENT_MINED_BLOCKS_CACHE_SIZE

\* The guard remembers more heights than a reorg can undo and redo: with fewer, signing a
\* lower height and then a higher one would push out one in between.
ASSUME MinerAssumption ==
  /\ Eligible \in [Blocks -> BOOLEAN]
  /\ Fees \subseteq Nat
  /\ CacheSize \in Nat /\ CacheSize > 2 * ReorgDepth

VARIABLES
  nww,          \* new-work worker: "startup", "subscribe" or "run"
  events,       \* canonical-state notifications: [tip, reorg]
  mining_queue, \* parents of the mining contexts
  jobs,         \* the payload jobs, oldest first
  payloads,     \* payload channel: [job, fees]
  delayed,      \* payloads in delay tasks
  recent,       \* recent_mined_blocks: [number, parents], least recent first
  submitted     \* the jobs whose block went to the import service

minerVars == <<nww, events, mining_queue, jobs, payloads, delayed, recent, submitted>>

Outcomes == {"running", "sent", "aborted", "empty_handed", "failed",
             "submitted", "stale", "double_sign", "lost"}

MinerInit ==
  /\ nww = "startup"
  /\ events = <<>> /\ mining_queue = <<>> /\ jobs = <<>> /\ payloads = <<>>
  /\ delayed = {} /\ recent = <<>> /\ submitted = {}
-----------------------------------------------------------------------------
(* The new-work worker. *)

\* fresh: the tip is at most 3 seconds old, its header and snapshot are found.
try_new_work(t, fresh) ==
  mining_queue' = IF fresh /\ Eligible[t] THEN Append(mining_queue, t) ELSE mining_queue

startup(fresh) ==
  /\ nww = "startup"
  /\ nww' = "subscribe"
  /\ try_new_work(tip, fresh)
  /\ UNCHANGED <<events, jobs, payloads, delayed, recent, submitted>>

\* Only from here on are chain events queued for the worker.
subscribe ==
  /\ nww = "subscribe"
  /\ nww' = "run"
  /\ UNCHANGED <<events, mining_queue, jobs, payloads, delayed, recent, submitted>>

\* The fork-choice rule says yes or no, or cannot tell (no engine, a header
\* that is gone): only a no keeps the miner off the new tip.
validate_reorg(answer) == answer \in {"yes", "error"}

on_event(fresh, answer) ==
  /\ nww = "run"
  /\ events # <<>>
  /\ events' = Tail(events)
  /\ IF Head(events).reorg /\ ~validate_reorg(answer)
       THEN UNCHANGED mining_queue
       ELSE try_new_work(Head(events).tip, fresh)
  /\ UNCHANGED <<nww, jobs, payloads, delayed, recent, submitted>>

\* The engine's notification of a new tip.
announce(b) ==
  /\ events' = IF nww = "run" THEN Append(events, [tip |-> b, reorg |-> IsReorg(b)]) ELSE events
  /\ UNCHANGED <<nww, mining_queue, jobs, payloads, delayed, recent, submitted>>
-----------------------------------------------------------------------------
(* The main worker. *)

Running(j) == jobs[j].outcome = "running"

NewJob(p) ==
  [parent |-> p, phase |-> "queued", built |-> {}, builds |-> 0,
   abort |-> FALSE, outcome |-> "running"]

\* A provider error counts as a yes.
recheck_mining_ctx(p, readable) == readable => p = tip

\* MUTANT: the running job is not told to stop.
try_mine_block_noAbort(p) == jobs' = Append(jobs, NewJob(p))

\* The handle of the newest job is taken and its abort message sent.
try_mine_block(p) ==
  jobs' = Append([j \in DOMAIN jobs |->
                    IF j = Len(jobs) THEN [jobs[j] EXCEPT !.abort = TRUE] ELSE jobs[j]],
                 NewJob(p))

take_context(readable) ==
  /\ mining_queue # <<>>
  /\ mining_queue' = Tail(mining_queue)
  /\ IF recheck_mining_ctx(Head(mining_queue), readable)
       THEN Len(jobs) < budget.jobs /\ try_mine_block(Head(mining_queue))
       ELSE UNCHANGED jobs
  /\ UNCHANGED <<nww, events, payloads, delayed, recent, submitted>>
-----------------------------------------------------------------------------
(* A payload job. *)

start_build(j) ==
  /\ Running(j) /\ jobs[j].phase = "queued"
  /\ jobs' = [jobs EXCEPT ![j].phase = "building", ![j].builds = @ + 1]
  /\ UNCHANGED <<nww, events, mining_queue, payloads, delayed, recent, submitted>>

build_done(j, fees) ==
  /\ Running(j) /\ jobs[j].phase = "building" /\ fees \in budget.fees
  /\ jobs' = [jobs EXCEPT ![j].phase = "waiting", ![j].built = @ \cup {fees}]
  /\ UNCHANGED <<nww, events, mining_queue, payloads, delayed, recent, submitted>>

\* New pool transactions, and time for another build.
rebuild(j) ==
  /\ Running(j) /\ jobs[j].phase = "waiting"
  /\ jobs[j].builds < budget.builds
  /\ jobs' = [jobs EXCEPT ![j].phase = "queued"]
  /\ UNCHANGED <<nww, events, mining_queue, payloads, delayed, recent, submitted>>

abort_job(j) ==
  /\ Running(j) /\ jobs[j].abort
  /\ jobs' = [jobs EXCEPT ![j].outcome = "aborted"]
  /\ UNCHANGED <<nww, events, mining_queue, payloads, delayed, recent, submitted>>

Candidates(j) ==
  jobs[j].built \cup
    (IF get_best_bid(jobs[j].parent) = NoBid THEN {} ELSE {get_best_bid(jobs[j].parent).fees})

Send(j, fees) ==
  /\ payloads' = Append(payloads, [job |-> j, fees |-> fees])
  /\ jobs' = [jobs EXCEPT ![j].outcome = "sent"]

GiveUp(j, why) ==
  /\ jobs' = [jobs EXCEPT ![j].outcome = why]
  /\ UNCHANGED payloads

\* MUTANT: where there is a bid, its payload is sent.
pick_best_payload_bid(j) ==
  IF get_best_bid(jobs[j].parent) # NoBid THEN get_best_bid(jobs[j].parent).fees
  ELSE CHOOSE f \in Candidates(j) : \A g \in Candidates(j) : f >= g

pick_best_payload(j) == CHOOSE f \in Candidates(j) : \A g \in Candidates(j) : f >= g

\* MUTANT: without a payload the job ends, in turn or not.
try_return_best_payload_noFallback(j) ==
  IF Candidates(j) # {} THEN Send(j, pick_best_payload(j)) ELSE GiveUp(j, "empty_handed")

\* In turn, an empty block is built when there is nothing else.
try_return_best_payload(j) ==
  \/ Candidates(j) # {} /\ Send(j, pick_best_payload(j))
  \/ Candidates(j) = {} /\ InTurn[jobs[j].parent] /\ (Send(j, 0) \/ GiveUp(j, "failed"))
  \/ Candidates(j) = {} /\ ~InTurn[jobs[j].parent] /\ GiveUp(j, "empty_handed")

\* The timer, a failed build, or a new transaction with too little time left
\* for another build: at any moment of the job.
job_returns(j) ==
  /\ Running(j)
  /\ try_return_best_payload(j)
  /\ UNCHANGED <<nww, events, mining_queue, delayed, recent, submitted>>
-----------------------------------------------------------------------------
(* The result worker. *)

NumberOf(p) == Number[jobs[p.job].parent] + 1

Remembered(n) == {i \in DOMAIN recent : recent[i].number = n}

Signed(n, parent) == \E i \in Remembered(n) : parent \in recent[i].parents

\* The cache without the entry of height n.
Others(n) ==
  IF Remembered(n) = {} THEN recent ELSE RemoveAt(recent, CHOOSE i \in Remembered(n) : TRUE)

\* MUTANT: only the last parent of a height is remembered.
Remember_replace(n, parent) ==
  LET all == Append(Others(n), [number |-> n, parents |-> {parent}])
  IN IF Len(all) > CacheSize THEN Tail(all) ELSE all

\* The entry of height n moves to the recent end of the cache with one more
\* parent; when a new entry exceeds the cache the least recent one goes.
Remember(n, parent) ==
  LET known == UNION {recent[i].parents : i \in Remembered(n)}
      all == Append(Others(n), [number |-> n, parents |-> known \cup {parent}])
  IN IF Len(all) > CacheSize THEN Tail(all) ELSE all

\* A get refreshes the entry even when the block is refused.
Refresh(n) == Append(Others(n), recent[CHOOSE i \in Remembered(n) : TRUE])

Finish(p, outcome) == jobs' = [jobs EXCEPT ![p.job].outcome = outcome]

\* works: the provider answers and the import channel is open.  It may fail
\* before the guard sees the block, or after the guard has recorded it.
submit_payload(p, works) ==
  LET n == NumberOf(p)
      parent == jobs[p.job].parent
  IN \/ /\ ~works
        /\ Finish(p, "lost")
        /\ UNCHANGED <<recent, submitted>>
     \/ /\ n <= Number[tip]
        /\ Finish(p, "stale")
        /\ UNCHANGED <<recent, submitted>>
     \/ /\ n > Number[tip] /\ Signed(n, parent)
        /\ Finish(p, "double_sign")
        /\ recent' = Refresh(n)
        /\ UNCHANGED submitted
     \/ /\ n > Number[tip] /\ ~Signed(n, parent)
        /\ recent' = Remember(n, parent)
        /\ IF works THEN Finish(p, "submitted") /\ submitted' = submitted \cup {p.job}
                    ELSE Finish(p, "lost") /\ UNCHANGED submitted

take_payload(now, works) ==
  /\ payloads # <<>>
  /\ payloads' = Tail(payloads)
  /\ IF now THEN submit_payload(Head(payloads), works) /\ UNCHANGED delayed
            ELSE delayed' = delayed \cup {Head(payloads)} /\ UNCHANGED <<jobs, recent, submitted>>
  /\ UNCHANGED <<nww, events, mining_queue>>

delay_over(p, works) ==
  /\ p \in delayed
  /\ delayed' = delayed \ {p}
  /\ submit_payload(p, works)
  /\ UNCHANGED <<nww, events, mining_queue, payloads>>
=============================================================================
