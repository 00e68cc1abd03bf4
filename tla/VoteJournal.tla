---------------------------- MODULE VoteJournal ----------------------------
(***************************************************************************)
(* The journal of the votes this validator has signed                      *)
(* (src/node/vote_journal.rs): a bounded first-in first-out cache used by  *)
(* the voting rules, and the append-only file it is reloaded from.         *)
(*                                                                         *)
(* A vote is reduced to its heights and its target: the journal never      *)
(* looks at the source hash, the vote address or the signature.            *)
(***************************************************************************)
EXTENDS Integers, Sequences, FiniteSets, FiniteSetsExt, Functions

CONSTANTS
  MAX_RECENT_ENTRIES,                \* capacity of the cache (512)
  MALICIOUS_VOTE_SLASH_SCOPE,        \* backward window of rule 2 (256)
  UPPER_LIMIT_OF_VOTE_BLOCK_NUMBER,  \* forward window of rule 2 (11)
  Hashes                             \* block hashes

ASSUME JournalConstants ==
  /\ MAX_RECENT_ENTRIES \in Nat \ {0}
  /\ MALICIOUS_VOTE_SLASH_SCOPE \in Nat
  /\ UPPER_LIMIT_OF_VOTE_BLOCK_NUMBER \in Nat

VoteData == [source_number : Nat, target_number : Nat, target_hash : Hashes]

----------------------------------------------------------------------------
(***************************************************************************)
(* VoteDataLru. `order` and `map` are one function from insertion stamps   *)
(* to votes, with the stamp of the next insertion: the least stamp is the  *)
(* front of the queue, and a vote is looked up by its target height.       *)
(***************************************************************************)
EmptyLru == [next |-> 1, votes |-> <<>>]

Entries(lru) == {lru.votes[i] : i \in DOMAIN lru.votes}

IsLru(lru) ==
  /\ lru.next \in Nat \ {0}
  /\ DOMAIN lru.votes \subseteq 1..(lru.next - 1)
  /\ lru.votes \in [DOMAIN lru.votes -> VoteData]

LruContains(lru, number) == \E vd \in Entries(lru) : vd.target_number = number

PushBack(lru, vd) ==
  [next  |-> lru.next + 1,
   votes |-> [i \in DOMAIN lru.votes \cup {lru.next} |->
                IF i = lru.next THEN vd ELSE lru.votes[i]]]

EvictFront(lru) ==
  IF Cardinality(DOMAIN lru.votes) > MAX_RECENT_ENTRIES
  THEN [next  |-> lru.next,
        votes |-> Restrict(lru.votes, DOMAIN lru.votes \ {Min(DOMAIN lru.votes)})]
  ELSE lru

\* A height already present keeps its place in the queue and gets the new vote.
LruAdd(lru, vd) ==
  IF LruContains(lru, vd.target_number)
  THEN [next  |-> lru.next,
        votes |-> [i \in DOMAIN lru.votes |->
                     IF lru.votes[i].target_number = vd.target_number
                     THEN vd ELSE lru.votes[i]]]
  ELSE EvictFront(PushBack(lru, vd))

----------------------------------------------------------------------------
(***************************************************************************)
(* The voting rules, checked against the cache only.                       *)
(***************************************************************************)

\* First height of the backward window: the heights after the source, at most
\* MALICIOUS_VOTE_SLASH_SCOPE of them.
BackwardStart(source_number, target_number) ==
  IF source_number + 1 + MALICIOUS_VOTE_SLASH_SCOPE < target_number
  THEN target_number - MALICIOUS_VOTE_SLASH_SCOPE
  ELSE source_number + 1

\* Rule 1: no second vote for the same height.
SameHeightAllowed(lru, target_number) == ~LruContains(lru, target_number)

\* Rule 2, backward: no vote around an earlier one.
BackwardAllowed(lru, source_number, target_number) ==
  \A vd \in Entries(lru) :
    vd.target_number \in BackwardStart(source_number, target_number)..(target_number - 1)
      => vd.source_number <= source_number

\* MUTANT: the window stops one height short of the target's upper limit.
ForwardAllowedShort(lru, source_number, target_number) ==
  \A vd \in Entries(lru) :
    vd.target_number \in
        (target_number + 1)..(target_number + UPPER_LIMIT_OF_VOTE_BLOCK_NUMBER - 1)
      => vd.source_number >= source_number

\* Rule 2, forward: no vote inside an earlier one.
ForwardAllowed(lru, source_number, target_number) ==
  \A vd \in Entries(lru) :
    vd.target_number \in
        (target_number + 1)..(target_number + UPPER_LIMIT_OF_VOTE_BLOCK_NUMBER)
      => vd.source_number >= source_number

\* MUTANT: rule 1 forgotten.
UnderRulesNoRule1(lru, source_number, target_number) ==
  /\ BackwardAllowed(lru, source_number, target_number)
  /\ ForwardAllowed(lru, source_number, target_number)

UnderRules(lru, source_number, target_number) ==
  /\ SameHeightAllowed(lru, target_number)
  /\ BackwardAllowed(lru, source_number, target_number)
  /\ ForwardAllowed(lru, source_number, target_number)

----------------------------------------------------------------------------
(***************************************************************************)
(* The file. A line either parses to a vote or does not; `open` says that  *)
(* the last line has no newline yet, so that whatever is appended next     *)
(* becomes part of it.                                                     *)
(***************************************************************************)
Line == [parses : BOOLEAN, data : VoteData]
Disk == {d \in [lines : Seq(Line), open : BOOLEAN] : d.open => d.lines # <<>>}

EmptyDisk == [lines |-> <<>>, open |-> FALSE]

\* How far one write_vote gets: open fails, only a part of the line is
\* written, the line is written without its newline, or everything is.
Writes == {"open_failed", "short_write", "no_newline", "ok"}

\* MUTANT: the newline is never written.
AppendLineNoNewline(disk, vd, how) ==
  IF how = "open_failed" THEN disk
  ELSE [lines |-> IF disk.open
                  THEN [disk.lines EXCEPT ![Len(disk.lines)].parses = FALSE]
                  ELSE Append(disk.lines, [parses |-> how # "short_write", data |-> vd]),
        open  |-> TRUE]

AppendLine(disk, vd, how) ==
  IF how = "open_failed" THEN disk
  ELSE [lines |-> IF disk.open
                  THEN [disk.lines EXCEPT ![Len(disk.lines)].parses = FALSE]
                  ELSE Append(disk.lines, [parses |-> how # "short_write", data |-> vd]),
        open  |-> how # "ok"]

Parsed(lines) == {i \in DOMAIN lines : lines[i].parses}

\* MUTANT: the oldest lines of the file are kept instead of the newest.
RecentOldest(lines) ==
  {i \in Parsed(lines) : Cardinality({j \in Parsed(lines) : j < i}) < MAX_RECENT_ENTRIES}

\* The lines kept by a reload: the last MAX_RECENT_ENTRIES that parse.
Recent(lines) ==
  {i \in Parsed(lines) : Cardinality({j \in Parsed(lines) : j > i}) < MAX_RECENT_ENTRIES}

\* Reloading adds the kept lines one by one to an empty cache. They fit, so
\* nothing is evicted: a height takes the place of its first line and the
\* vote of its last.
LoadFromDisk(lines) ==
  LET buf == Recent(lines)
      same(i) == {j \in buf : lines[j].data.target_number = lines[i].data.target_number}
  IN [next  |-> Len(lines) + 1,
      votes |-> [i \in {i \in buf : \A j \in same(i) : i <= j} |->
                   lines[Max(same(i))].data]]
============================================================================
