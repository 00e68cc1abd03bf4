-------------------------- MODULE SystemContracts --------------------------
(***************************************************************************)
(* The system contracts as the node uses them (src/system_contracts): the  *)
(* transactions the consensus engine sends to them, the code a fork        *)
(* installs, and the election of validators by voting power.               *)
(*                                                                         *)
(* A transaction's calldata is a function from the addresses it names to   *)
(* numbers. Forks are heights, as in ParliaSnapshot. What a contract does  *)
(* when it is called is not part of the repository: Effect keeps as much   *)
(* of it as the node reads back.                                           *)
(***************************************************************************)
EXTENDS ParliaSnapshot, Sequences, SequencesExt

CONSTANTS
  LubanBlock, PlatoBlock, KeplerBlock, FeynmanBlock, CancunBlock, PragueBlock,
  Contracts,   \* system contracts whose code forks replace
  Upgrades,    \* fork -> the contracts it ships code for
  SystemGas    \* function called -> gas a system transaction uses

ForkBlock ==
  [Luban |-> LubanBlock, Plato |-> PlatoBlock, Kepler |-> KeplerBlock,
   Feynman |-> FeynmanBlock, Cancun |-> CancunBlock, Bohr |-> BohrBlock,
   Lorentz |-> LorentzBlock, Maxwell |-> MaxwellBlock, Fermi |-> FermiBlock]

ASSUME ContractConstants ==
  /\ {LubanBlock, PlatoBlock, KeplerBlock, FeynmanBlock, CancunBlock, PragueBlock}
       \subseteq Nat \ {0}
  /\ Upgrades \in [DOMAIN ForkBlock -> SUBSET Contracts]

\* The order of upstream's upgradeBuildInSystemContract. Of the forks before Luban and
\* of the fix forks, which only repeat the pattern, none is in the model.
UpgradeOrder ==
  <<"Luban", "Plato", "Kepler", "Feynman", "Cancun", "Bohr", "Lorentz", "Maxwell", "Fermi">>

\* Forks that ship code for the same contract start in that order.
ASSUME UpgradesInOrder ==
  \A i, j \in DOMAIN UpgradeOrder :
    i < j /\ Upgrades[UpgradeOrder[i]] \cap Upgrades[UpgradeOrder[j]] # {}
      => ForkBlock[UpgradeOrder[i]] <= ForkBlock[UpgradeOrder[j]]

IsActive(fork, n) == n >= ForkBlock[fork]
IsTransition(fork, n) == n = ForkBlock[fork]

----------------------------------------------------------------------------
(* System transactions. The nonce is filled in when one is executed. *)

SystemTx(to, call, input, value) ==
  [to |-> to, call |-> call, input |-> input, value |-> value, nonce |-> 0]

set_nonce(tx, nonce) == [tx EXCEPT !.nonce = nonce]

slash(v) == SystemTx("slash", "slash", [a \in {v} |-> 1], 0)
distribute_to_system(reward) == SystemTx("system_reward", "", <<>>, reward)
distribute_to_validator(v, reward) == SystemTx("validator", "deposit", [a \in {v} |-> 1], reward)
distribute_finality_reward(weights) ==
  SystemTx("validator", "distributeFinalityReward", weights, 0)
update_validator_set_v2(powers) == SystemTx("validator", "updateValidatorSetV2", powers, 0)

genesis_contracts_txs ==
  [i \in 1..7 |-> SystemTx(<<"validator", "slash", "light_client", "relayer_hub", "token_hub",
                             "relayer_incentivize", "cross_chain">>[i], "init", <<>>, 0)]

feynman_contracts_txs ==
  [i \in 1..5 |-> SystemTx(<<"stake_hub", "governor", "gov_token", "timelock",
                             "token_recover_portal">>[i], "initialize", <<>>, 0)]

\* is_system_transaction: sent by the block's proposer to a system contract for no
\* fee. Every transaction of the model that names a sender goes to such a contract.
is_system_transaction(tx, coinbase) == tx.sender = coinbase /\ tx.price = 0

Plus(f, g) ==
  [a \in DOMAIN f |-> f[a] + (IF a \in DOMAIN g THEN g[a] ELSE 0)]

\* What the contracts do with a system transaction. An election of nobody changes nothing.
Effect(w, tx) ==
  CASE tx.call = "slash" -> [w EXCEPT !.slashes = Plus(@, tx.input)]
    [] tx.call = "" -> [w EXCEPT !.system_reward = @ + tx.value]
    [] tx.call = "deposit" -> [w EXCEPT !.deposits = @ + tx.value]
    [] tx.call = "distributeFinalityReward" -> [w EXCEPT !.weights = Plus(@, tx.input)]
    [] tx.call = "updateValidatorSetV2" ->
         [w EXCEPT !.validators = IF tx.input = <<>> THEN @ ELSE DOMAIN tx.input]
    [] OTHER -> [w EXCEPT !.initialized = Append(@, tx.to)]

\* What the contracts answer when they are asked, as the node unpacks it: the validators,
\* of whose vote addresses nothing depends, the candidates' voting power, the turn length.
get_current_validators(w) == w.validators
get_validator_election_info(w) == w.power
get_turn_length(w) == w.turn

----------------------------------------------------------------------------
(* Code installed by forks. *)

\* The last of some forks, given by their places in the order.
LastFork(places) == UpgradeOrder[Max(places)]

\* The forks that start at block n, in order: a later one overwrites the code an
\* earlier one has for the same contract.
get_upgrade_system_contracts(n) ==
  LET ships(c) == {i \in DOMAIN UpgradeOrder :
                     IsTransition(UpgradeOrder[i], n) /\ c \in Upgrades[UpgradeOrder[i]]}
  IN [c \in {c \in Contracts : ships(c) # {}} |-> LastFork(ships(c))]

----------------------------------------------------------------------------
(* The election (feynman_fork.rs). *)

\* The heap's order: more power first, then the lower address. The code compares the
\* addresses as checksummed strings, which is one total order of them like any other.
RanksBefore(power, a, b) == power[a] > power[b] \/ (power[a] = power[b] /\ a < b)

\* The addresses with the most voting power, at most top_n of them and none without.
get_top_validators_by_voting_power(power, top_n) ==
  LET able == {a \in DOMAIN power : power[a] > 0}
      elected == {a \in able : Cardinality({b \in able : RanksBefore(power, b, a)}) < top_n}
  IN [a \in elected |-> power[a]]
============================================================================
