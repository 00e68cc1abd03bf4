SPECIFICATION Spec
CONSTANTS
  a1 = a1
  a2 = a2
  a3 = a3
  a4 = a4
  g = g
  m1 = m1
  m2 = m2
  m3 = m3
  m4 = m4
  s2 = s2
  s3 = s3
  x2 = x2
  Addresses <- MCAddresses
  ZeroAddress = zero
  DEFAULT_EPOCH_LENGTH = 2
  LORENTZ_EPOCH_LENGTH = 10
  MAXWELL_EPOCH_LENGTH = 20
  TurnLengths = {1}
  BohrBlock = 1
  LorentzBlock = 50
  MaxwellBlock = 50
  FermiBlock = 50
  U64_MAX = 100
  Genesis = g
  Callers = {t1, t2}
  Trees <- MCTrees
  Starts <- MCStarts
  Targets <- MCTargets
  CHECKPOINT_INTERVAL = 3
  Budgets <- MCBudgets
CHECK_DEADLOCK FALSE
PROPERTIES
  Implements
  CanonicalAnswered
