CONSTANTS
  AMOUNT_UPPER_BOUND = 2
  POSITION_ID_UPPER_BOUND = 2
  NONCE_UPPER_BOUND = 2
  EXPIRATION_TIMESTAMP_UPPER_BOUND = 2
  LIMIT_ORDER_PADDING = 4
  TRANSFER_PADDING = 8
  WITHDRAWAL_PADDING = 4
  ORACLE_UPPER_BOUND = 2
  TIMESTAMP_BOUND = 2
  EXTERNAL_PRICE_UPPER_BOUND = 4
  Amounts = {0, 1}
  Positions = {0, 1}
  Nonces = {0, 1}
  Expirations = {0, 1}
  SyntheticIds = {1, 4}
  CollateralIds = {2, 4}
  collateral_id = 2
  PublicKeys = {1, 5}
  signer_key = 5
  EthAddresses = {1, 2, 5}
  Conditions = {0, 1, 2}
  OracleNames = {0, 1}
  PriceTimes = {0, 1}
  Prices = {0, 1, 3}
  MaxRequests = 1
SPECIFICATION Spec
CHECK_DEADLOCK FALSE
INVARIANTS
  ExecutedTermsWereRequested
  RequestsCanBeExecuted
