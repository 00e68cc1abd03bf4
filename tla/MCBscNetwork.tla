---------------------------- MODULE MCBscNetwork ---------------------------
(***************************************************************************)
(* Two peers, one of them whitelisted, and a fork of two blocks on one     *)
(* parent, of which this node builds one.  A behaviour is bounded by one   *)
(* of four budgets, each rich in one kind of step.                         *)
(***************************************************************************)
EXTENDS BscNetwork

MCPeers == {"p", "q"}
MCNodeIds == {"P", "Q", "N"}
MCNodeIdOf == [x \in MCPeers |-> IF x = "p" THEN "P" ELSE "Q"]
MCVersionOf == [x \in MCPeers |-> IF x = "p" THEN 2 ELSE 1]
MCBlocks == {"b1", "b2", "m"}
MCParentOf == [b \in MCBlocks |-> IF b = "b1" THEN "none" ELSE "b1"]
MCNumber == [b \in MCBlocks |-> IF b = "b1" THEN 1 ELSE 2]

MCConfig ==
  [enabled |-> TRUE, tx_broadcast_forbidden |-> FALSE, mining |-> TRUE,
   whitelist |-> {"Q"}, proxyed |-> {}, to_add |-> {"N"}, to_remove |-> {"P"}]

MCLocalBest == [number |-> 30, td |-> 60]
\* Far by number, near by difficulty, and nothing known.
MCPeerInfos ==
  {[number |-> 9, td |-> 60], [number |-> Unknown, td |-> 40], [number |-> Unknown, td |-> Unknown]}

Bound(cs, rs, bs, es, ss, ls, ms, evn) ==
  [conns |-> cs, requests |-> rs, broadcasts |-> bs, epochs |-> es, serves |-> ss,
   losses |-> ls, imports |-> ms, evn |-> evn]

MCReconnecting == {Bound(3, 0, 1, 0, 0, 2, 0, FALSE)}  \* while votes are sent

MCBudgets ==
  MCReconnecting \cup
  {Bound(1, 2, 0, 0, 1, 0, 3, FALSE),   \* serving what was imported
   Bound(2, 2, 0, 0, 0, 0, 0, FALSE),   \* two downloads
   Bound(2, 0, 0, 1, 0, 1, 0, TRUE)}    \* arming EVN
============================================================================
