----------------------------- MODULE Proposals -----------------------------
(***************************************************************************)
(* Validators that race for the next block in real time: each prepares a   *)
(* header when it sees a new head, collects transactions, holds the block  *)
(* back until its time and offers it to the others.                        *)
(*                                                                         *)
(* Validators are prompt: a step that is due is taken within Lag, which    *)
(* stands for scheduling, execution and the network.  Clocks agree.        *)
(* Validators stop and come back.  Forks are heights, but the header that  *)
(* prepare_timestamp asks the back-off for carries the present time        *)
(* (prepare_new_header), so for the first block after Bohr it may lie      *)
(* before Bohr.                                                            *)
(***************************************************************************)
EXTENDS BlockTime

CONSTANTS
  DELAY_LEFT_OVER,  \* 50
  Lag,              \* how late a due step is taken
  Step,             \* bound: time passes in steps of this length
  Starts,           \* height and turn length a behaviour starts with
  MaxBlocks,        \* bound: blocks made in a behaviour
  MaxStops,         \* bound: validators that stop in a behaviour
  MaxTime           \* bound on time, never reached

ASSUME ProposalConstants ==
  /\ {DELAY_LEFT_OVER, Lag, Step, MaxBlocks, MaxStops, MaxTime} \subseteq Nat
  /\ \A s \in Starts : /\ s \in [block_number : Nat, turn_length : Nat \ {0}]
                       /\ IsBohr(s.block_number) \/ s.turn_length = 1
  /\ Addresses \subseteq Nat /\ Addresses # {}
  /\ LorentzBlock <= MaxwellBlock /\ LorentzBlock <= FermiBlock

\* Before Lorentz every time is a number of seconds.
ASSUME WholeSeconds ==
  \A t \in {BlockIntervals["default"], BACKOFF_TIME_OF_INITIAL, BACKOFF_TIME_OF_WIGGLE} : t % 1000 = 0

\* A block is made, held back and announced before the next slot opens.
ASSUME Promptness ==
  \A t \in {BACKOFF_TIME_OF_INITIAL, LORENTZ_BACKOFF_TIME_OF_INITIAL, BACKOFF_TIME_OF_WIGGLE} : 3 * Lag < t

\* The generator draws below the bound it is given.
ASSUME DrawsBelow ==
  \A s \in Starts : \A seed \in 0 .. (s.block_number + MaxBlocks) :
    \A n \in 1 .. Cardinality(Addresses), k \in 1 .. Cardinality(Addresses) : int31n(seed, k, n) \in 0 .. (n - 1)

VARIABLES
  now,
  tip,       \* the snapshot of the head
  head,      \* the head's header
  work,      \* validator -> what it does on the head
  offered,   \* blocks offered on the head: validator -> header
  seen,      \* validator -> when it saw the head
  up,        \* the validators that run
  offeredAt, \* when the first block was offered
  refused,   \* history: why a block was refused for its time
  start, stops

raceVars == <<now, tip, head, work, offered, seen, up, offeredAt, refused, start, stops>>

Idle == [at |-> "idle"]
Sent == [at |-> "sent"]
Validators == Addresses

RaceInit ==
  /\ start \in Starts
  /\ tip = [GenesisSnapshot(Validators, DEFAULT_EPOCH_LENGTH) EXCEPT
               !.block_number = start.block_number, !.turn_length = start.turn_length]
  /\ now = 0 /\ head = [timestamp |-> 0, ms |-> 0]
  /\ work = [v \in Validators |-> Idle]
  /\ offered = <<>> /\ offeredAt = 0
  /\ seen = [v \in Validators |-> 0] /\ up = Validators
  /\ refused = {} /\ stops = 0

RaceOver == tip.block_number = start.block_number + MaxBlocks

\* try_new_work: a validator that may sign starts on the head.
MaySign(v) == v \in tip.validators /\ ~SignRecently(tip, v)

\* prepare_new_attributes and BscPayloadJob::new.
Prepare(v, bohr) ==
  LET n == tip.block_number + 1
      t == calculate_millisecond_timestamp(head)
      h == prepare_timestamp(n, block_time(tip, t, v, bohr, now))
  IN /\ v \in up /\ work[v] = Idle /\ MaySign(v) /\ ~RaceOver
     /\ work' = [work EXCEPT ![v] =
          [at |-> "building", header |-> h, due |-> now + delay_for_mining(tip, h, now, DELAY_LEFT_OVER),
           late |-> Slot(tip, t, v, bohr) < now, provisional |-> bohr # IsBohr(n)]]
     /\ UNCHANGED <<now, tip, head, offered, seen, up, offeredAt, refused, start, stops>>

\* The header of prepare_new_header lies after Bohr, or not yet.
Provisional == LET n == tip.block_number + 1 IN IF n = BohrBlock THEN BOOLEAN ELSE {IsBohr(n)}

\* The job returns its payload, at the latest when its time is over; the result
\* worker asks again how long to hold the block back.
Built(v, random) ==
  /\ work[v].at = "building" /\ now >= work[v].due
  /\ work' = [work EXCEPT ![v].at = "held",
       ![v].due = now + delay_for_ramanujan(tip, work[v].header, calculate_difficulty(tip, v), now, random)]
  /\ UNCHANGED <<now, tip, head, offered, seen, up, offeredAt, refused, start, stops>>

\* start_delay_task is over and submit_payload announces the block.
Offer(v) ==
  /\ work[v].at = "held" /\ now >= work[v].due
  /\ IF TimeAccepted(tip, head, work[v].header, v, now)
       THEN /\ offered' = Insert(offered, v, work[v])
            /\ offeredAt' = IF offered = <<>> THEN now ELSE offeredAt
            /\ UNCHANGED refused
       ELSE /\ refused' = refused \cup {IF work[v].provisional THEN "bohr" ELSE "time"}
            /\ UNCHANGED <<offered, offeredAt>>
  /\ work' = [work EXCEPT ![v] = Sent]
  /\ UNCHANGED <<now, tip, head, seen, up, start, stops>>

\* The heaviest block offered becomes the head everywhere; work on the old one
\* is aborted.
Adopt(v) ==
  /\ v \in DOMAIN offered
  /\ \A u \in DOMAIN offered : calculate_difficulty(tip, u) <= calculate_difficulty(tip, v)
  /\ head' = offered[v].header
  /\ tip' = Apply(tip, v, NoAttestation, {}, 0)
  /\ work' = [u \in Validators |-> Idle] /\ offered' = <<>> /\ offeredAt' = 0
  /\ seen' = [u \in Validators |-> now]
  /\ UNCHANGED <<now, up, refused, start, stops>>

\* External: a validator stops, a majority goes on; it comes back.
Stop(v) ==
  /\ stops < MaxStops /\ stops' = stops + 1
  /\ v \in up /\ 2 * Cardinality(up \ {v}) > Cardinality(Validators) /\ ~RaceOver
  /\ up' = up \ {v} /\ work' = [work EXCEPT ![v] = Idle]
  /\ UNCHANGED <<now, tip, head, offered, seen, offeredAt, refused, start>>

Return(v) ==
  /\ v \notin up /\ up' = up \cup {v} /\ seen' = [seen EXCEPT ![v] = now]
  /\ UNCHANGED <<now, tip, head, work, offered, offeredAt, refused, start, stops>>

\* Nothing that is due is left undone for longer than Lag.
InTime(t) ==
  /\ \A v \in up : /\ work[v].at \in {"building", "held"} => t <= work[v].due + Lag
                   /\ work[v] = Idle /\ MaySign(v) => t <= seen[v] + Lag
  /\ offered # <<>> => t <= offeredAt + Lag

Tick ==
  /\ ~RaceOver /\ now < MaxTime /\ InTime(now + Step)
  /\ now' = now + Step
  /\ UNCHANGED <<tip, head, work, offered, seen, up, offeredAt, refused, start, stops>>

Act(v) ==
  \/ \E bohr \in Provisional : Prepare(v, bohr)
  \/ \E random \in {0, Wiggle(tip) - 1} : Built(v, random)
  \/ Offer(v)
  \/ Adopt(v)

RaceNext == Tick \/ \E v \in Validators : Act(v) \/ Stop(v) \/ Return(v)

\* Time passes and what is due gets done.
RaceSpec == RaceInit /\ [][RaceNext]_raceVars /\ WF_raceVars(Tick) /\ \A v \in Validators : WF_raceVars(Act(v))
----------------------------------------------------------------------------
\* prepare_timestamp and block_time_verify_for_ramanujan_fork: no validator is
\* refused for the time it gave its block, however late it prepared it, except
\* for the first block after Bohr, whose back-off it may have worked out for a
\* header before Bohr.
OwnTimeAccepted == "time" \notin refused

\* back_off_time: two validators never offer a block on the same head unless one
\* of them came too late for its own slot (or there were no slots yet).
SlotsSeparate ==
  Cardinality(DOMAIN offered) > 1 =>
    \/ \E v \in DOMAIN offered : offered[v].late \/ offered[v].provisional
    \/ ~IsRamanujan(tip.block_number + 1)

\* sign_recently and back_off_time leave a majority that runs always somebody who
\* may propose and whose time comes: the chain reaches every height, but for a
\* first block after Bohr that was refused.
ChainAdvances == <>(RaceOver \/ "bohr" \in refused)
============================================================================
