----------------------------- MODULE ForkChoice ----------------------------
(***************************************************************************)
(* The fork-choice rule (src/consensus/parlia/forkchoice_rule.rs) over a   *)
(* tree of blocks: the higher justified number wins, then the higher total *)
(* difficulty, then the tie-breaks.                                        *)
(*                                                                         *)
(* A header is a record of what the rule looks at. Its total difficulty is *)
(* that of its parent plus its own, and what its snapshot justifies and    *)
(* finalizes are blocks of its own chain.  Along a chain the justified     *)
(* number never falls (FinalityAdvances of ParliaChain).                   *)
(***************************************************************************)
EXTENDS Integers, FiniteSets

CONSTANTS
  Blocks, Genesis,
  Header,         \* block -> header
  LubanBlock,     \* snapshots carry votes from here on
  PlatoBlock      \* the rule looks at them from here on

HeaderFields ==
  [number : Nat, parent : Blocks, difficulty : Nat \ {0}, td : Nat, timestamp : Nat,
   beneficiary : Nat, hash : Nat, justified : Blocks, finalized : Blocks]

\* The chain of a block, the block included.
Chain(b) ==
  LET up[n \in 0..Header[b].number] ==
        IF n = 0 THEN {b} ELSE up[n - 1] \cup {Header[c].parent : c \in up[n - 1]}
  IN up[Header[b].number]

ASSUME TreeConstants ==
  /\ IsFiniteSet(Blocks)
  /\ Header \in [Blocks -> HeaderFields]
  /\ Genesis \in Blocks /\ Header[Genesis].number = 0
  /\ \A b \in Blocks \ {Genesis} :
       /\ Header[b].number = Header[Header[b].parent].number + 1
       /\ Header[b].td = Header[Header[b].parent].td + Header[b].difficulty
  /\ \A b, c \in Blocks : Header[b].hash = Header[c].hash => b = c
  /\ \A b \in Blocks :
       /\ {Header[b].justified, Header[b].finalized} \subseteq Chain(b)
       /\ Header[b].number < PlatoBlock => Header[b].justified = Genesis
  /\ \A b \in Blocks \ {Genesis} :
       Header[Header[b].justified].number >= Header[Header[Header[b].parent].justified].number
  /\ LubanBlock \in Nat /\ PlatoBlock \in Nat /\ LubanBlock <= PlatoBlock

\* What fewer than a third of dishonest voters cannot do: a block finalized by one
\* header is in the chain of every header that justifies as much.
ASSUME AccountableSafety ==
  \A b, c \in Blocks :
    Header[Header[c].justified].number >= Header[Header[b].justified].number
      => Header[b].finalized \in Chain(c)

Unknown == -1

\* HeaderForForkchoice: a block with the difficulty and the justified number that
\* could be found for it.
ForForkchoice(b, td, justified_num) == [block |-> b, td |-> td, justified_num |-> justified_num]

\* get_justified_number_and_hash, with 0 for a snapshot that is not found.
JustifiedNum(b, found) ==
  IF Header[b].number >= LubanBlock /\ found THEN Header[Header[b].justified].number ELSE 0

\* MUTANT: the rule waits until Plato is active for both headers.
FastFinalityDecidesBoth(incoming, current) ==
  /\ \A x \in {incoming, current} : Header[x.block].number >= PlatoBlock
  /\ incoming.justified_num # current.justified_num

\* head_choice_with_fast_finality decides when Plato is active for either header
\* and the justified numbers differ.
FastFinalityDecides(incoming, current) ==
  /\ \E x \in {incoming, current} : Header[x.block].number >= PlatoBlock
  /\ incoming.justified_num # current.justified_num

\* Equal difficulties: the answers the rule may give.
TieBreak(i, c) ==
  IF i.number # c.number THEN {i.number < c.number}
  ELSE IF i.timestamp # c.timestamp THEN {i.timestamp < c.timestamp}
  ELSE IF i.beneficiary = c.beneficiary THEN {i.hash < c.hash}
  ELSE BOOLEAN

\* MUTANT: the longest chain wins.
HeadChoiceByNumber(incoming, current) ==
  {Header[incoming.block].number > Header[current.block].number}

\* head_choice_with_td: no answer when a difficulty is unknown.
HeadChoiceWithTd(incoming, current) ==
  IF Unknown \in {incoming.td, current.td} THEN {}
  ELSE IF incoming.td # current.td THEN {incoming.td > current.td}
  ELSE TieBreak(Header[incoming.block], Header[current.block])

\* MUTANT: the justified numbers are not looked at.
IsNeedReorgTdOnly(incoming, current) == HeadChoiceWithTd(incoming, current)

\* is_need_reorg: the set of answers it may give, empty for an error.
IsNeedReorg(incoming, current) ==
  IF FastFinalityDecides(incoming, current)
  THEN {incoming.justified_num > current.justified_num}
  ELSE HeadChoiceWithTd(incoming, current)

----------------------------------------------------------------------------
\* What the rule is for: more justified, or as much justified and heavier.
Prefers(b, c) ==
  LET jb == JustifiedNum(b, TRUE)
      jc == JustifiedNum(c, TRUE)
  IN jb > jc \/ (jb = jc /\ Header[b].td > Header[c].td)
============================================================================
