SPECIFICATION Spec
VIEW CachesAsSets
SYMMETRY ImportSymmetry
CONSTANTS
  Blocks <- MCBlocks
  Header <- MCHeader
  Genesis = "g"
  LubanBlock = 1
  PlatoBlock = 2
  Imports = {i1, i2}
  Bad = {"x"}
  Mined = {"m"}
  NoBlock = "none"
  LRU_PROCESSED_BLOCKS_SIZE = 8
  Bounds <- MCBounds
INVARIANTS
  DifficultiesRight
  ImportedOnce
  BestBlockWins
PROPERTIES
  CleanHeadNeverWorse
  FinalizedStays
