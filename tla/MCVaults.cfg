CONSTANTS
  BALANCE_BOUND = 4
  L1_VAULT_INDEX_BOUND = 2
  ONCHAIN_DATA_KEY_INDEX_BOUND = 4
  ONCHAIN_DATA_TOKEN_INDEX_BOUND = 4
  ONCHAIN_DATA_VAULT_ID_BOUND = 4
  NoFee = NoFee
  Rejected = Rejected
  VaultIds = {0, 1, 2}
  StarkKeys = {1, 2}
  TokenIds = {1, 2}
  RollupVaults = {0, 1}
  MintableTokens = {2}
  OrderIds = {1, 2}
  Amounts = {}
  FullWithdrawalRequests <- MCRequests
  Transfers <- MCTransfers
  L1Vaults = {}
  Orders = {}
  FeeInfos <- MCFeeInfos
  Holders <- MCSharedHolders
  Supply <- MCMintSupply
SPECIFICATION Spec
INVARIANTS
  TokensConserved
  PublishedDataRestoresRollup
  RequestsCanBeClosed
PROPERTIES
  RequestsClosedRight
