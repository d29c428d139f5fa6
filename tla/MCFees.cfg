SPECIFICATION Spec
CONSTANTS
  NAV_PRECISION = 4
  MAX_BPS = 8
  SECONDS_PER_YEAR = 4
  EPOCH_DURATION = 1
  FEE_INCREASE_DELAY = 2
  U64_MAX = 1000
  Users = {manager}
  Manager = manager
  Treasury = manager
  None = None
  GenesisTs = 1
  GenesisConfigs <- FeeConfigs
  GenesisArgs <- FeeArgs
  InitialWallet = 7
  DepositAmounts = {2, 7}
  ShareAmounts = {3}
  ReportedTotals = {0, 5, 9, 16}
  VaultUpdates <- FeeVaultUpdates
  ConfigUpdates <- NoConfigUpdates
  Guardians = {}
  IdleMoves = {7}
  SplAmounts = {}
  MaxTime = 4
  MaxIdle = 0
INVARIANTS
  HighWaterMarkDominates
PROPERTIES
  BackingNeverErodes
  ZeroNavNeedsOverride
  GainsAreChargedOnce
  PerformanceFeesSparePrincipal
  FeeSharesWorthAtMostFees
CHECK_DEADLOCK FALSE
