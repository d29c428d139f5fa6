SPECIFICATION Spec
CONSTANTS
  NAV_PRECISION = 2
  MAX_BPS = 4
  SECONDS_PER_YEAR = 4
  EPOCH_DURATION = 1
  FEE_INCREASE_DELAY = 2
  U64_MAX = 20
  Users = {alice, bob}
  Manager = alice
  Treasury = bob
  None = None
  GenesisTs = 1
  GenesisConfigs <- SettlementConfigs
  GenesisArgs <- SettlementArgs
  InitialWallet = 3
  DepositAmounts = {1, 3}
  ShareAmounts = {1, 2}
  ReportedTotals = {0, 3, 5}
  VaultUpdates <- NoVaultUpdates
  ConfigUpdates <- NoConfigUpdates
  Guardians = {}
  IdleMoves = {2}
  SplAmounts = {}
  MaxTime = 3
  MaxIdle = 4
PROPERTIES
  OutflowStaysUnderCap
CHECK_DEADLOCK FALSE
