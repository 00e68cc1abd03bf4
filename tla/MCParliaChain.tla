--------------------------- MODULE MCParliaChain ---------------------------
(***************************************************************************)
(* Validator sets for model checking ParliaChain: the set shrinks and      *)
(* grows across the size where the check length changes.                   *)
(***************************************************************************)
EXTENDS ParliaChain, TLC

CONSTANTS a1, a2, a3, a4

MCGenesis == {a1, a2, a3}
MCAddresses == {a1, a2, a3, a4}
MCCheckpointSets == {{a4}, {a1, a2, a3}}
ASSUME SmallSteps == LimitGrowsByOne

MCSymmetry == Permutations({a1, a2, a3})
============================================================================
