SPECIFICATION LiveSpec
CONSTANTS
  NAV_PRECISION = 2
  MAX_BPS = 4
  SECONDS_PER_YEAR = 4
  EPOCH_DURATION = 1
  FEE_INCREASE_DELAY = 2
  U64_MAX = 20
  Users = {alice, bob}
  Manager = alice
  Treasury = bob
  None = None
  GenesisTs = 1
  GenesisConfigs <- SettlementConfigs
  GenesisArgs <- SettlementArgs
  InitialWallet = 3
  DepositAmounts = {1, 3}
  ShareAmounts = {1, 2}
  ReportedTotals = {3, 5}
  VaultUpdates <- LivenessVaultUpdates
  ConfigUpdates <- NoConfigUpdates
  Guardians = {guardian}
  IdleMoves = {2}
  SplAmounts = {}
  MaxTime = 3
  MaxIdle = 4
PROPERTIES
  CoveredDepositsEnd
  CoveredWithdrawalsEnd
CHECK_DEADLOCK FALSE
