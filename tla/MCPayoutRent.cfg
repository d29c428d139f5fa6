SPECIFICATION Spec
CONSTANTS
  user = user
  other = other
  Keys = {user, other}
  DefaultKey = DefaultKey
  Omitted = Omitted
  NoOne = NoOne
  Initializations <- SomeInitializations
  Updates <- SomeUpdates
  Deployments <- SomeDeployments
  MAX_BPS = 4
  DEFAULT_MAX_SLIPPAGE_BPS = 1
  U64_MAX = 4
  Swaps <- SomeSwaps
  Amounts = {2, 4}
  Users = {user}
  RequestRent = 1
  ShareRent = 1
  DepositRent = 2
  Budget = 3
  Gifts = {1}
  MaxGifted = 2
INVARIANTS
  TypeOK
  SwapsRespectCap
  RentIsEscrowed
PROPERTIES
  ImplementsHandover
  SettlementIsFree
  OwnerGetsTheRest
CHECK_DEADLOCK FALSE
