SPECIFICATION Spec
CONSTANTS
  usdc = usdc
  canonical = canonical
  sol = sol
  spl_token = spl_token
  token_2022 = token_2022
  position = position
  trader = trader
  Authorities = {a1}
  VaultIds = {0}
  DepositMint = usdc
  DepositMintIsUsdc = FALSE
  CanonicalMint = canonical
  Mints = {usdc, sol}
  TokenPrograms = {spl_token, token_2022}
  ProgramOf <- Programs
  Positions = {position}
  Pools <- PoolOfPosition
  Trader = trader
  Amounts = {1}
  Gifts = {usdc}
  NewStatuses = {"Normal", "Paused", "ReduceOnly"}
  MaxHolding = 1
  U32_MAX = 2
  MAX_INITIAL_WIDTH = 1
  MAX_RESIZE_LENGTH = 2
  MAX_POSITION_WIDTH = 2
  TREASURY_CLAIM_FEE_BPS = 1
  MAX_BPS = 2
PROPERTIES
  OnlyEmptiedStrategiesClose
CHECK_DEADLOCK FALSE
