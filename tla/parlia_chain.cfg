SPECIFICATION Spec
CONSTANTS
  Addresses <- MCAddresses
  GenesisValidators <- MCGenesis
  ZeroAddress = zero
  a1 = a1
  a2 = a2
  a3 = a3
  a4 = a4
  CheckpointSets <- MCCheckpointSets
  TurnLengths = {1, 2}
  DEFAULT_EPOCH_LENGTH = 4
  LORENTZ_EPOCH_LENGTH = 10
  MAXWELL_EPOCH_LENGTH = 20
  BohrBlock = 8
  LorentzBlock = 9
  MaxwellBlock = 22
  FermiBlock = 34
  K_ANCESTOR_GENERATION_DEPTH = 2
  U64_MAX = 100
  MaxCheckLen = 3
  MaxBlock = 43
SYMMETRY MCSymmetry
INVARIANTS
  SnapshotNeverLost
  RecentsAccurate
  EnoughProposers
  CheckpointTakesEffect
PROPERTIES
  InstalledOnce
  FinalityAdvances
