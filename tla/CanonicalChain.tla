--------------------------- MODULE CanonicalChain ---------------------------
(***************************************************************************)
(* The canonical chain as the miner's workers read it through the          *)
(* provider: best_block_number, the header at a height, and the commits    *)
(* and reorgs the engine announces.  The engine is external; any known     *)
(* block may become the tip, but never one that is more than ReorgDepth    *)
(* below the highest tip there has been.                                   *)
(***************************************************************************)
EXTENDS Integers, Sequences, FiniteSets

CONSTANTS
  Blocks,       \* the blocks the node knows
  Number,       \* their heights, a function
  ParentOf,     \* their parents, a function; the root is its own parent
  ReorgDepth,   \* how far below the highest tip a reorg can lead
  Budgets       \* bounds of the model: records [moves, bids, sends, jobs, builds, fees]

ASSUME ChainAssumption ==
  /\ Number \in [Blocks -> Nat] /\ ParentOf \in [Blocks -> Blocks]
  /\ \A b \in Blocks : Number[b] > 0 => Number[b] = Number[ParentOf[b]] + 1
  /\ ReorgDepth \in Nat
  /\ \A u \in Budgets : {u.moves, u.sends, u.jobs, u.builds} \subseteq Nat

VARIABLES
  tip,    \* the canonical tip
  high,   \* the highest number a tip has had
  moves,  \* how often the tip has moved
  budget  \* the bounds of this behaviour, one of Budgets

chainVars == <<tip, high, moves, budget>>

Chain[b \in Blocks] == {b} \cup (IF Number[b] = 0 THEN {} ELSE Chain[ParentOf[b]])

ChainInit ==
  /\ tip \in {b \in Blocks : Number[b] = 0}
  /\ high = 0
  /\ moves = 0
  /\ budget \in Budgets

SetTip(b) ==
  /\ moves < budget.moves
  /\ b # tip
  /\ Number[b] + ReorgDepth >= high
  /\ tip' = b
  /\ high' = IF Number[b] > high THEN Number[b] ELSE high
  /\ moves' = moves + 1
  /\ UNCHANGED budget

IsReorg(b) == tip \notin Chain[b]
=============================================================================
