CONSTANTS
  btc = btc
  eth = eth
  feeId = feeId
  alice = alice
  bob = bob
  feeKey = feeKey
  aliceKey = aliceKey
  bobKey = bobKey
  NoKey = NoKey
  NoAsset = NoAsset
  Assets = {btc, eth}
  PublicKeys = {feeKey, aliceKey, bobKey}
  PositionIds = {feeId, alice, bob}
  OrderIds = {1, 2}
  FeePositionId = feeId
  FeePublicKey = feeKey
  FXP_32_ONE = 4
  BALANCE_UPPER_BOUND = 3
  TOTAL_VALUE_UPPER_BOUND = 32
  TOTAL_RISK_UPPER_BOUND = 32
  POSITION_MAX_SUPPORTED_N_ASSETS = 1
  IsRiskByBalanceOnly = FALSE
  AMOUNT_UPPER_BOUND = 16
  FUNDING_INDEX_UPPER_BOUND = 2
  MaxFundingRate = 2
  FundingValidityPeriod = 1
  MaxTime = 1
  MaxModifications = 4
  CollateralAmounts = {1}
  SyntheticAmounts = {1}
  Fees = {0}
  FundingIndexValues = {0, 1}
  PriceValues = {2}
  RISK_FACTOR_SEGMENT_UPPER_BOUND = 401
  RiskSegments <- MCRiskSegments
  Deposits <- MCDeposits
  Withdrawals = {}
  Transfers = {}
  ConditionalTransfers = {}
  LimitOrders <- MCLimitOrders
  ForcedWithdrawals = {}
  ForcedTrades <- MCForcedTrades
SPECIFICATION Spec
INVARIANTS
  PositionsWithinLimits
  HeldAssetsAreListed
  CachedIndicesPublished
  LatestEntryIsGlobal
