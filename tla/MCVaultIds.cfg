SPECIFICATION Spec
CONSTANTS
  usdc = usdc
  canonical = canonical
  sol = sol
  spl_token = spl_token
  token_2022 = token_2022
  position = position
  trader = trader
  Authorities = {a1}
  VaultIds = {0,1}
  DepositMint = usdc
  DepositMintIsUsdc = FALSE
  CanonicalMint = canonical
  Mints = {}
  TokenPrograms = {spl_token, token_2022}
  ProgramOf <- Programs
  Positions = {position}
  Pools <- StablePool
  Trader = trader
  Amounts = {1}
  Gifts = {}
  NewStatuses = {}
  MaxHolding = 1
  U32_MAX = 1
  MAX_INITIAL_WIDTH = 1
  MAX_RESIZE_LENGTH = 1
  MAX_POSITION_WIDTH = 1
  TREASURY_CLAIM_FEE_BPS = 1
  MAX_BPS = 2
INVARIANTS
  VenueAssetsAreTracked
  ClosedVaultsHoldNoDeposits
PROPERTIES
  VaultIdsAreNotReused
CHECK_DEADLOCK FALSE
