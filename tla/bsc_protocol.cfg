SPECIFICATION Spec
CONSTANTS
  Peers <- MCPeers
  NodeIds <- MCNodeIds
  NodeIdOf <- MCNodeIdOf
  Config <- MCConfig
  MaxRegistrations = 2
  Blocks <- MCBlocks
  ParentOf <- MCParentOf
  Number <- MCNumber
  VersionOf <- MCVersionOf
  NoBlock = "none"
  MAX_REQUEST_RANGE_BLOCKS_COUNT = 2
  DeltaThreshold = 20
  LocalBest <- MCLocalBest
  PeerInfos <- MCPeerInfos
  Unknown = Unknown
  Mined = {"m"}
  BODY_CACHE_CAPACITY = 2
  Budgets <- MCBudgets
INVARIANTS
  AnswerBelongs
  LatestSenderKept
  ServedRanges
PROPERTIES
  EvnPeersMarked
CHECK_DEADLOCK FALSE
