SPECIFICATION Spec
CONSTANTS
  NAV_PRECISION = 1
  MAX_BPS = 4
  SECONDS_PER_YEAR = 4
  EPOCH_DURATION = 1
  FEE_INCREASE_DELAY = 2
  U64_MAX = 20
  Users = {alice, bob}
  Manager = alice
  Treasury = bob
  None = None
  GenesisTs = 1
  GenesisConfigs <- SettlementConfigs
  GenesisArgs <- SettlementArgs
  InitialWallet = 2
  DepositAmounts = {2}
  ShareAmounts = {1}
  ReportedTotals = {2}
  VaultUpdates <- GateVaultUpdates
  ConfigUpdates <- GateConfigUpdates
  Guardians = {guardian}
  IdleMoves = {1}
  SplAmounts = {1}
  MaxTime = 3
  MaxIdle = 2
INVARIANTS
  RequestsAreEscrowed
  SharesAddUp
  RequestsCanBeUndone
PROPERTIES
  PauseFreezesTheVault
CHECK_DEADLOCK FALSE
