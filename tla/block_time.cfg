SPECIFICATION RaceSpec
CONSTANTS
  Addresses = {1, 2, 3}
  ZeroAddress = 0
  TurnLengths = {1, 2}
  DEFAULT_EPOCH_LENGTH = 200
  LORENTZ_EPOCH_LENGTH = 500
  MAXWELL_EPOCH_LENGTH = 1000
  RamanujanBlock = 2
  PlanckBlock = 4
  BohrBlock = 5
  LorentzBlock = 8
  MaxwellBlock = 10
  FermiBlock = 11
  U64_MAX = 2000
  BACKOFF_TIME_OF_INITIAL = 1000
  LORENTZ_BACKOFF_TIME_OF_INITIAL = 2000
  BACKOFF_TIME_OF_WIGGLE = 1000
  MILLISECONDS_UNIT = 50
  BlockIntervals <- MCIntervals
  FIXED_BACKOFF_TIME_BEFORE_FORK_MILLIS = 200
  WIGGLE_TIME_BEFORE_FORK_MILLIS = 500
  int31n <- MCint31n
  DELAY_LEFT_OVER = 50
  Lag = 230
  Step = 230
  Starts <- MCStarts
  MaxBlocks = 3
  MaxStops = 1
  MaxTime = 30000
INVARIANTS
  OwnTimeAccepted
  SlotsSeparate
PROPERTIES
  ChainAdvances
CHECK_DEADLOCK FALSE
