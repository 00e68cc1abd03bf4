SPECIFICATION Spec
CONSTANTS
  g = g
  a = a
  b = b
  x = x
  NoBid = NoBid
  NoSeal = NoSeal
  Blocks <- MCBlocks
  Number <- MCNumber
  ParentOf <- MCParentOf
  ReorgDepth = 0
  Budgets <- MCBudgets
  Bids <- MCBids
  BidArgs <- MCBidArgs
  PoolTxs <- MCPoolTxs
  ChainId = 56
  NoSigner = NoSigner
  BlockGasLimit = 8
  SystemTxsGas = 1
  PAY_BID_TX_GAS_LIMIT = 1
  TX_GAS = 1
  MaxBlobCount = 1
  Builders = {x}
  Commission = 5000
  Modulus = 100
  MergeCuts = {1, 4}
  ClearThreshold = 1
  InTurn <- MCInTurn
  Eligible <- MCEligible
  Fees = {3, 6}
  CacheSize = 1
INVARIANTS
  NoDoubleSign
  OneLiveJob
  BestBidIsBest
  RewardHonored
  BidBlockSound
PROPERTIES
  BestPayloadWins
  InturnDelivers
CHECK_DEADLOCK FALSE
