SPECIFICATION Spec
CONSTANTS
  Blocks <- ForkBlocks
  Header <- ForkHeader
  Genesis = "g"
  LubanBlock = 1
  PlatoBlock = 2
  Imports = {i1, i2}
  Bad = {}
  Mined = {}
  NoBlock = "none"
  LRU_PROCESSED_BLOCKS_SIZE = 8
  Bounds <- ForkBounds
PROPERTIES
  UpdateNeverWorse
