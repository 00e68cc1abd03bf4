------------------------- MODULE MCSnapshotProvider ------------------------
(***************************************************************************)
(* Block trees for model checking SnapshotProvider. Every odd block is an  *)
(* epoch boundary, whose checkpoint is the block before it; m4 is valid    *)
(* only under the set that m2 elects.                                      *)
(***************************************************************************)
EXTENDS SnapshotProvider, TLC

CONSTANTS a1, a2, a3, a4, g, m1, m2, m3, m4, s2, s3, x2

Block(parent, number, proposer, validators) ==
  [parent |-> parent, number |-> number, proposer |-> proposer,
   validators |-> validators, turn |-> IF validators = {} THEN 0 ELSE 1, valid |-> TRUE]

Main ==
  g :> Block(g, 0, a1, {a1, a2, a3}) @@ m1 :> Block(g, 1, a1, {}) @@
  m2 :> Block(m1, 2, a2, {a1, a2, a4}) @@ m3 :> Block(m2, 3, a3, {}) @@
  m4 :> Block(m3, 4, a4, {a1, a2})

MCTrees ==
  { \* a fork below the last checkpoint
    Main @@ s3 :> Block(m2, 3, a1, {}),
    \* a fork across a checkpoint that elects another set
    Main @@ s2 :> Block(m1, 2, a3, {a1, a2, a3}) @@ s3 :> Block(s2, 3, a1, {}),
    \* an announced header at the height of a checkpoint, without validators
    Main @@ x2 :> [Block(m1, 2, a3, {}) EXCEPT !.valid = FALSE] }

\* Slices: a reorganisation and an eviction during one question, two questions at
\* once, and two questions around a restart and a failed write.
Budget(header, canon_, ask_, evict, dbError, restart_) ==
  [header |-> header, canon |-> canon_, ask |-> ask_, evict |-> evict,
   dbError |-> dbError, restart |-> restart_]
MCBudgets ==
  {Budget(2, 1, 1, 1, 0, 0), Budget(1, 0, 2, 1, 0, 0), Budget(1, 1, 1, 0, 0, 1), Budget(0, 0, 2, 0, 1, 1)}
MCStarts == {m4}
MCTargets == {g, m4, s3}
\* The child of a checkpoint, for the run that looks at which checkpoint counts.
MCCheckpointTargets == {m3}
MCAddresses == {a1, a2, a3, a4}
MCSymmetry == Permutations(Callers)
============================================================================
