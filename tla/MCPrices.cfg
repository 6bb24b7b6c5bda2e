CONSTANTS
  Configs <- MCConfigs
  RISK_UPPER_BOUND = 3
  RISK_FACTOR_SEGMENT_UPPER_BOUND = 3
  ORACLE_PRICE_QUORUM_UPPER_BOUND = 4
  ASSET_RESOLUTION_UPPER_BOUND = 4
  COLLATERAL_ASSET_ID_UPPER_BOUND = 9
  N_ASSETS_UPPER_BOUND = 3
  ASSET_ID_BYTES = 1
  EXTERNAL_PRICE_FIXED_POINT_UNIT = 2
  FXP_32_ONE = 2
  PRICE_UPPER_BOUND = 5
  EXTERNAL_PRICE_UPPER_BOUND = 4
  TIMESTAMP_BOUND = 2
  GENERAL_CONFIG_HASH_VERSION = 6
  SignablePrices <- MCSignablePrices
  MaxTime = 1
  MaxSignatures = 3
SPECIFICATION Spec
INVARIANTS
  OnlyTheApprovedIsAccepted
  QuorumGivesPrice
PROPERTIES
  AcceptedPricesAreBacked
