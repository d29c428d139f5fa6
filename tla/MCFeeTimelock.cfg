SPECIFICATION TimelockSpec
CONSTANTS
  NAV_PRECISION = 1
  MAX_BPS = 2
  SECONDS_PER_YEAR = 4
  EPOCH_DURATION = 2
  FEE_INCREASE_DELAY = 3
  U64_MAX = 10
  Users = {manager}
  Manager = manager
  Treasury = manager
  None = None
  GenesisTs = 2
  GenesisConfigs <- SettlementConfigs
  GenesisArgs <- TimelockArgs
  InitialWallet = 0
  DepositAmounts = {}
  ShareAmounts = {}
  ReportedTotals = {0}
  VaultUpdates <- TimelockUpdates
  ConfigUpdates <- NoConfigUpdates
  Guardians = {}
  IdleMoves = {}
  SplAmounts = {}
  MaxTime = 12
  MaxIdle = 0
PROPERTIES
  IncreasesGiveNotice
