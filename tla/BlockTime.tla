----------------------------- MODULE BlockTime -----------------------------
(***************************************************************************)
(* When a validator may propose (src/consensus/parlia/consensus.rs,        *)
(* ramanujan_fork.rs, util.rs and src/node/miner/util.rs): the back-off of *)
(* a validator, the time it gives its header, how long it works on the     *)
(* block and holds it back, and what others check of the time.  Times are  *)
(* milliseconds.                                                           *)
(***************************************************************************)
EXTENDS ParliaSnapshot, Sequences

CONSTANTS
  RamanujanBlock, PlanckBlock,
  BACKOFF_TIME_OF_INITIAL,          \* 1000
  LORENTZ_BACKOFF_TIME_OF_INITIAL,  \* 2000
  BACKOFF_TIME_OF_WIGGLE,           \* 1000
  MILLISECONDS_UNIT,                \* 50
  BlockIntervals,                   \* 3000, from Lorentz on 1500, Maxwell 750, Fermi 450
  FIXED_BACKOFF_TIME_BEFORE_FORK_MILLIS,  \* 200
  WIGGLE_TIME_BEFORE_FORK_MILLIS,         \* 500
  int31n(_, _, _)                   \* the k-th draw below n of the generator of a seed (go_rng.rs): any in range

ASSUME BlockTimeConstants ==
  /\ {RamanujanBlock, PlanckBlock} \subseteq Nat
  /\ {BACKOFF_TIME_OF_INITIAL, LORENTZ_BACKOFF_TIME_OF_INITIAL, BACKOFF_TIME_OF_WIGGLE,
      MILLISECONDS_UNIT, FIXED_BACKOFF_TIME_BEFORE_FORK_MILLIS, WIGGLE_TIME_BEFORE_FORK_MILLIS} \subseteq Nat \ {0}
  /\ BlockIntervals \in [{"default", "lorentz", "maxwell", "fermi"} -> Nat \ {0}]

IsRamanujan(n) == n >= RamanujanBlock
IsPlanck(n) == n >= PlanckBlock

\* block_interval of the snapshot of block n.
BlockInterval(n) ==
  BlockIntervals[IF IsFermi(n) THEN "fermi" ELSE IF IsMaxwell(n) THEN "maxwell"
                 ELSE IF IsLorentz(n) THEN "lorentz" ELSE "default"]

calculate_millisecond_timestamp(h) == h.timestamp * 1000 + h.ms

----------------------------------------------------------------------------
(* Back-off. *)

\* The validators that share the shuffled steps: from Planck on those that may
\* sign, from Bohr on without the one in turn.
BackOffValidators(s, n, bohr) ==
  IF ~IsPlanck(n) THEN s.validators
  ELSE {v \in s.validators : ~SignRecently(s, v) /\ ~(bohr /\ v = InturnValidator(s))}

InitialDelay(s, n) ==
  IF IsPlanck(n) /\ SignRecently(s, InturnValidator(s)) THEN 0
  ELSE IF IsLorentz(s.block_number) THEN LORENTZ_BACKOFF_TIME_OF_INITIAL
  ELSE BACKOFF_TIME_OF_INITIAL

RngSeed(s, n, bohr) == IF bohr THEN n \div s.turn_length ELSE s.block_number

\* Fisher-Yates: from the last position down, each is swapped with a drawn one
\* that is not above it.
shuffle(steps, seed) ==
  LET n == Len(steps)
      after[k \in 0 .. (n - 1)] ==  \* the last k positions are final
        IF k = 0 THEN steps
        ELSE LET i == n - k + 1
                 j == int31n(seed, k, i) + 1
             IN [after[k - 1] EXCEPT ![i] = after[k - 1][j], ![j] = after[k - 1][i]]
  IN IF n = 0 THEN steps ELSE after[n - 1]

\* MUTANT: the second step is as early as the first.
BackOffOfStep_flat(delay, step, lorentz) ==
  IF delay = 0 /\ lorentz
    THEN IF step <= 1 THEN 0 ELSE LORENTZ_BACKOFF_TIME_OF_INITIAL + (step - 1) * BACKOFF_TIME_OF_WIGGLE
    ELSE delay + step * BACKOFF_TIME_OF_WIGGLE

\* Without a validator in turn the steps are 0, 2, 3, ... from Lorentz on.
BackOffOfStep(delay, step, lorentz) ==
  IF delay = 0 /\ lorentz
    THEN IF step = 0 THEN 0 ELSE LORENTZ_BACKOFF_TIME_OF_INITIAL + (step - 1) * BACKOFF_TIME_OF_WIGGLE
    ELSE delay + step * BACKOFF_TIME_OF_WIGGLE

\* back_off_time of v for block n on s; `bohr` is whether the header it is asked
\* for lies after Bohr.
back_off_time(s, n, v, bohr) ==
  LET sharing == BackOffValidators(s, n, bohr)
      index == Cardinality({u \in sharing : u < v})
      steps == shuffle([i \in 1 .. Cardinality(sharing) |-> i - 1], RngSeed(s, n, bohr))
  IN IF v = InturnValidator(s) \/ v \notin sharing THEN 0
     ELSE BackOffOfStep(InitialDelay(s, n), steps[index + 1], IsLorentz(s.block_number))

----------------------------------------------------------------------------
(* The proposer. *)

CeilTo(t, unit) == ((t + unit - 1) \div unit) * unit

\* The first moment v may use on s after a parent of time t.
Slot(s, t, v, bohr) ==
  LET n == s.block_number + 1
  IN t + BlockInterval(s.block_number) + IF IsRamanujan(n) THEN back_off_time(s, n, v, bohr) ELSE 0

\* block_time_for_ramanujan_fork: a slot that is over gives way to the present.
block_time(s, t, v, bohr, now) ==
  IF Slot(s, t, v, bohr) < now THEN CeilTo(now, MILLISECONDS_UNIT) ELSE Slot(s, t, v, bohr)

\* MUTANT: the millisecond part is left out of the header.
prepare_timestamp_seconds(n, t) == [timestamp |-> t \div 1000, ms |-> 0]

\* The header keeps seconds, and from Lorentz on the milliseconds in mix_hash.
prepare_timestamp(n, t) ==
  [timestamp |-> t \div 1000, ms |-> IF IsLorentz(n) THEN t % 1000 ELSE 0]

DIFF_INTURN == 2
DIFF_NOTURN == 1
calculate_difficulty(s, v) == IF v = InturnValidator(s) THEN DIFF_INTURN ELSE DIFF_NOTURN

\* delay_for_ramanujan_fork: how long a block is held back.  Before Ramanujan a
\* header that says it is out of turn waits a random time more.
delay_for_ramanujan(s, h, difficulty, now, random) ==
  LET t == calculate_millisecond_timestamp(h)
      early == IF t > now THEN t - now ELSE 0
  IN IF IsRamanujan(s.block_number + 1) \/ difficulty # DIFF_NOTURN THEN early
     ELSE early + FIXED_BACKOFF_TIME_BEFORE_FORK_MILLIS + random

Wiggle(s) == (Cardinality(s.validators) \div 2 + 1) * WIGGLE_TIME_BEFORE_FORK_MILLIS

last_block_in_one_turn(s, n) == s.turn_length <= 1 \/ n % s.turn_length = s.turn_length - 1

\* delay_for_mining: how long transactions are collected.  The header has no
\* difficulty yet.
delay_for_mining(s, h, now, left_over) ==
  LET period == BlockInterval(s.block_number)
      delay == delay_for_ramanujan(s, h, 0, now, 0)
      rest == IF left_over >= period THEN delay ELSE IF left_over >= delay THEN 0 ELSE delay - left_over
      cap == IF last_block_in_one_turn(s, s.block_number + 1) THEN period \div 2 ELSE period
  IN IF rest > cap THEN cap ELSE rest

----------------------------------------------------------------------------
(* The others. *)

\* validate_header and validate_header_against_parent, as far as they look at
\* times, and block_time_verify_for_ramanujan_fork.
TimeAccepted(s, parent, h, v, now) ==
  LET t == calculate_millisecond_timestamp(h)
      p == calculate_millisecond_timestamp(parent)
      n == s.block_number + 1
  IN /\ t <= now
     /\ t > p
     /\ IsRamanujan(n) => t >= p + BlockInterval(s.block_number) + back_off_time(s, n, v, IsBohr(n))
============================================================================
