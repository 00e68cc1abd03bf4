---------------------------- MODULE MCProposals ----------------------------
(***************************************************************************)
(* Three validators around every fork that changes the time of a block.    *)
(***************************************************************************)
EXTENDS Proposals

MCIntervals == [default |-> 3000, lorentz |-> 1500, maxwell |-> 750, fermi |-> 450]

MCStarts ==
  {[block_number |-> 0, turn_length |-> 1], [block_number |-> 3, turn_length |-> 1],
   [block_number |-> 6, turn_length |-> 2], [block_number |-> 9, turn_length |-> 1]}

\* Draws that depend on the seed and on how many were made before.
MCint31n(seed, k, n) == (seed * 5 + k * 3 + seed \div 2) % n
============================================================================
