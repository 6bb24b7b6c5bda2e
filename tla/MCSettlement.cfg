CONSTANTS
  BALANCE_BOUND = 4
  L1_VAULT_INDEX_BOUND = 2
  ONCHAIN_DATA_KEY_INDEX_BOUND = 4
  ONCHAIN_DATA_TOKEN_INDEX_BOUND = 4
  ONCHAIN_DATA_VAULT_ID_BOUND = 4
  NoFee = NoFee
  Rejected = Rejected
  VaultIds = {0, 1, 2}
  StarkKeys = {1, 2}
  TokenIds = {1, 2}
  RollupVaults = {0}
  MintableTokens = {}
  OrderIds = {1, 2, 3, 4}
  Amounts = {1, 2}
  FullWithdrawalRequests = {}
  Transfers = {}
  L1Vaults <- MCL1Vaults
  Orders <- MCOrders
  FeeInfos <- MCFeeInfos
  Holders <- MCHolders
  Supply <- MCSupply
SPECIFICATION Spec
INVARIANTS
  TokensConserved
  L1InitialBalanceIsLeast
  EverySettlementIsProvable
  OrderTermsHoldOverFills
  L1VaultsNamedByOrders
