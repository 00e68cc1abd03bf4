SPECIFICATION VotingSpec
CONSTANTS
  MAX_RECENT_ENTRIES = 2
  MALICIOUS_VOTE_SLASH_SCOPE = 2
  UPPER_LIMIT_OF_VOTE_BLOCK_NUMBER = 1
  Hashes <- MCHashes
  Tasks = {t1, t2}
  Heads <- MCHeads
  PRODUCED_CAPACITY = 1
  WARMUP_BLOCKS = 1
  MemOnly = FALSE
  MaxFaults = 1
  MaxSigned = 3
  MaxRestarts = 1
  Votes <- MCVotes
  Addresses <- MCAddresses
  BlockHashes <- MCHashes
  LOWER_LIMIT_OF_VOTE_BLOCK_NUMBER = 2
  U64 = 8
  LatestBlocks = {1, 4, 5}
  OwnAddress = "own"
  Traffic <- MCTraffic
SYMMETRY TaskSymmetry
VIEW MCView
INVARIANTS
  CleanNoDoubleVote
  CleanNoSurroundVote
  RestartIsLossless
  LossIsBounded
  IndexesAgree
PROPERTY AgreedPruneIsExact
