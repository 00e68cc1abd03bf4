\* The height is bounded, so the chain stops growing.
CHECK_DEADLOCK FALSE
SPECIFICATION Spec
CONSTANTS
  Addresses = {1, 2, 3}
  ZeroAddress = 0
  DEFAULT_EPOCH_LENGTH = 4
  LORENTZ_EPOCH_LENGTH = 6
  MAXWELL_EPOCH_LENGTH = 7
  TurnLengths = {1, 2}
  LubanBlock = 1
  PlatoBlock = 2
  KeplerBlock = 2
  FeynmanBlock = 2
  CancunBlock = 2
  LondonBlock = 2
  BohrBlock = 3
  PragueBlock = 3
  LorentzBlock = 5
  MaxwellBlock = 7
  FermiBlock = 5
  U64_MAX = 1000
  Contracts = {"c1", "c2"}
  Upgrades <- MCUpgrades
  SystemGas <- MCSystemGas
  K_ANCESTOR_GENERATION_DEPTH = 3
  GenesisValidators = {1, 2, 3}
  FF_REWARD_DISTRIBUTION_INTERVAL = 2
  SYSTEM_REWARD_PERCENT = 1
  MAX_SYSTEM_REWARD = 5
  GasLimit = 20
  DATA_GAS_PER_BLOB = 2
  MAX_DATA_GAS_PER_BLOCK_DENCUN = 4
  BlobTarget = 0
  MaxElectedValidators = 2
  ChainId = 56
  Blacklist = {3}
  SYSTEM_TXS_GAS_SOFT_LIMIT = 4
  SYSTEM_TXS_GAS_HARD_LIMIT = 10
  MaxBlobCount = 1
  MinGasTip = 1
  Pools <- MCPools
  VoterSets = {{}, {1, 3}, {1, 2, 3}}
  Faults <- MCFaults
  Restarting = {2}
  submit_built_payload = FALSE
  Scenarios <- MCScenarios
INVARIANTS
  VerdictsAgree
  OwnBlockAccepted
  SystemTxsEnforced
  HeaderEnforced
  LedgerExact
  CodeIsLatest
  EpochPrepared
