CONSTANTS
  btc = btc
  feeId = feeId
  alice = alice
  bob = bob
  feeKey = feeKey
  aliceKey = aliceKey
  bobKey = bobKey
  NoKey = NoKey
  NoAsset = NoAsset
  Assets = {btc}
  PublicKeys = {feeKey, aliceKey, bobKey}
  PositionIds = {feeId, alice, bob}
  OrderIds = {1, 2, 3}
  FeePositionId = feeId
  FeePublicKey = feeKey
  FXP_32_ONE = 4
  BALANCE_UPPER_BOUND = 16
  TOTAL_VALUE_UPPER_BOUND = 32
  TOTAL_RISK_UPPER_BOUND = 32
  POSITION_MAX_SUPPORTED_N_ASSETS = 1
  IsRiskByBalanceOnly = FALSE
  AMOUNT_UPPER_BOUND = 3
  FUNDING_INDEX_UPPER_BOUND = 2
  MaxFundingRate = 1
  FundingValidityPeriod = 1
  MaxTime = 1
  MaxModifications = 4
  CollateralAmounts = {1, 2}
  SyntheticAmounts = {1, 2}
  Fees = {0, 1}
  FundingIndexValues = {0, 1}
  PriceValues = {4}
  RISK_FACTOR_SEGMENT_UPPER_BOUND = 401
  RiskSegments <- MCRiskSegments
  Deposits <- MCMixedDeposits
  Withdrawals <- MCWithdrawals
  Transfers <- MCTransfers
  ConditionalTransfers <- MCConditionalTransfers
  LimitOrders <- MCLimitOrders
  ForcedWithdrawals <- MCForcedWithdrawals
  ForcedTrades <- MCForcedTrades
SPECIFICATION Spec
PROPERTIES
  ChangedPositionsHaveTimestamp
