------------------------- MODULE MCBlockProduction -------------------------
EXTENDS BlockProduction, TLC

Tx == [sender |-> ZeroAddress, price |-> 2, gas |-> 4, blobs |-> 0, sidecar |-> TRUE,
       valid |-> TRUE, reads |-> FALSE, turn |-> NoTurn, power |-> Zero,
       authorization_list |-> <<>>]

\* Authorizations for whichever nonce the validators have, of one that is blacklisted, for
\* another chain, and one that takes the code back.
Auth(authority, nonce) ==
  [authority |-> authority, nonce |-> nonce, chain_id |-> 0, address |-> 3]
Delegating ==
  [Tx EXCEPT !.gas = 1, !.authorization_list =
     <<Auth(1, 3), Auth(3, 0), Auth(3, 0), Auth(2, 0), Auth(2, 1), Auth(2, 2), Auth(2, 3),
       [Auth(2, 4) EXCEPT !.chain_id = 1], [Auth(2, 5) EXCEPT !.address = ZeroAddress]>>]

\* A pool with everything that is passed over and more than fits; one that stakes and delegates;
\* one that changes the turn length and delegates; and one that stores the difficulty it sees.
MCPools ==
  [fees |->
     <<[Tx EXCEPT !.valid = FALSE], [Tx EXCEPT !.price = 0, !.sender = 1], [Tx EXCEPT !.sender = 1],
       [Tx EXCEPT !.blobs = 1, !.sidecar = FALSE, !.gas = 1], [Tx EXCEPT !.blobs = 1, !.gas = 1],
       [Tx EXCEPT !.blobs = 1, !.gas = 1], Tx, Tx, Tx>>,
   stake |-> <<[Tx EXCEPT !.power = (2 :> 2) @@ (3 :> 1), !.gas = 1], Delegating>>,
   turn |-> <<[Tx EXCEPT !.turn = 2, !.gas = 1], Delegating>>,
   opcode |-> <<[Tx EXCEPT !.reads = TRUE, !.gas = 1]>>]

MCFaults ==
  [faults |-> {"drop", "repeat", "swap", "value", "validators", "turn"},
   headers |-> {"header", "forged"},
   attests |-> {"attested", "unsigned"}]

MCUpgrades ==
  [f \in DOMAIN ForkBlock |->
     IF f = "Kepler" THEN {"c1", "c2"} ELSE IF f \in {"Feynman", "Bohr"} THEN {"c1"}
     ELSE IF f = "Lorentz" THEN {"c2"} ELSE {}]

MCSystemGas ==
  [c \in {"slash", "", "deposit", "distributeFinalityReward", "init", "initialize",
          "updateValidatorSetV2", "user"} |-> IF c = "updateValidatorSetV2" THEN 5 ELSE 1]

\* An election between restarts; a new turn length; altered blocks; altered
\* headers; attestations; a transaction that reads the difficulty, before Kepler and after.
Plain == [height |-> 6, fees |-> 0, stake |-> 0, opcode |-> 0, turn |-> 0, days |-> 0, votes |-> 0,
          faults |-> 0, headers |-> 0, attests |-> 0, restarts |-> 0]
MCScenarios ==
  {[Plain EXCEPT !.height = 5, !.stake = 1, !.days = 1, !.restarts = 1],
   [Plain EXCEPT !.turn = 1, !.fees = 1],
   [Plain EXCEPT !.height = 5, !.fees = 1, !.faults = 1],
   [Plain EXCEPT !.height = 4, !.fees = 1, !.headers = 1],
   [Plain EXCEPT !.votes = 2, !.attests = 1],
   [Plain EXCEPT !.height = 7, !.opcode = 1]}
============================================================================
