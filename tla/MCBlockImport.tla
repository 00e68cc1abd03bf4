--------------------------- MODULE MCBlockImport ---------------------------
(***************************************************************************)
(* A tree for model checking BlockImport. Branch a is heavier, branch b    *)
(* justifies and finalizes more; m is built here on b1 and ties with b2;   *)
(* x does not execute.                                                     *)
(***************************************************************************)
EXTENDS BlockImport, TLC

H(number, parent, difficulty, td, beneficiary, hash, justified, finalized) ==
  [number |-> number, parent |-> parent, difficulty |-> difficulty, td |-> td,
   timestamp |-> number, beneficiary |-> beneficiary, hash |-> hash,
   justified |-> justified, finalized |-> finalized]

MCHeader ==
  [g  |-> H(0, "g", 1, 0, 0, 0, "g", "g"),
   a1 |-> H(1, "g", 2, 2, 1, 1, "g", "g"),
   a2 |-> H(2, "a1", 2, 4, 1, 2, "g", "g"),
   b1 |-> H(1, "g", 1, 1, 2, 3, "g", "g"),
   b2 |-> H(2, "b1", 1, 2, 2, 4, "b1", "g"),
   b3 |-> H(3, "b2", 1, 3, 2, 5, "b2", "b1"),
   m  |-> H(2, "b1", 1, 2, 3, 6, "b1", "g"),
   x  |-> H(2, "a1", 2, 4, 1, 7, "g", "g")]

MCBlocks == DOMAIN MCHeader

\* Two blocks on the same parent.
ForkBlocks == {"g", "a1", "b1"}
ForkHeader == [b \in ForkBlocks |-> MCHeader[b]]

\* The two branches alone; and every block, with a fault, in shorter behaviours.
MCBounds ==
  {[blocks |-> {"a1", "a2", "b1", "b2", "b3"}, delivered |-> 5, faults |-> 0],
   [blocks |-> MCBlocks, delivered |-> 3, faults |-> 1]}

ForkBounds == {[blocks |-> ForkBlocks, delivered |-> 2, faults |-> 0]}

ImportSymmetry == Permutations(Imports)

\* The caches never fill up here, so the order of their entries does not matter.
CachesAsSets ==
  <<engine, ToSet(processed), ToSet(queued), td_cache, import, mined, history, faults, bound>>
============================================================================
