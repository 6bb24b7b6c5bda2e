------------------------------- MODULE MCDex -------------------------------
(* A spot exchange of two tokens.  Alice trades from vaults 0 and 1 of L2,  *)
(* Bob from L1, and the exchange takes its fees in vault 2.                 *)
EXTENDS DexSafety

alice == 1
exchange == 2
bob == 7    \* an Ethereum key
gold == 1
silver == 2

MCSupply == [t \in {gold, silver} |-> 2]

Fee(token_id, vault_id) == [token_id |-> token_id, fee_limit |-> 1, source_vault_id |-> vault_id]

\* Alice sells her gold without a fee; Bob sells his silver and pays of the gold
\* he buys; then he sells the gold, and pays of the silver.
MCOrders ==
  {[order_id |-> 1, is_l1 |-> FALSE, public_key |-> alice, asset_id_sell |-> gold,
    asset_id_buy |-> silver, vault_sell |-> 0, vault_buy |-> 1,
    amount_sell |-> 2, amount_buy |-> 2, fee_info |-> NoFee],
   [order_id |-> 2, is_l1 |-> TRUE, public_key |-> bob, asset_id_sell |-> silver,
    asset_id_buy |-> gold, vault_sell |-> 0, vault_buy |-> 0,
    amount_sell |-> 2, amount_buy |-> 2, fee_info |-> Fee(gold, 0)],
   [order_id |-> 3, is_l1 |-> TRUE, public_key |-> bob, asset_id_sell |-> gold,
    asset_id_buy |-> silver, vault_sell |-> 0, vault_buy |-> 0,
    amount_sell |-> 2, amount_buy |-> 1, fee_info |-> Fee(silver, 0)],
   [order_id |-> 4, is_l1 |-> FALSE, public_key |-> alice, asset_id_sell |-> silver,
    asset_id_buy |-> gold, vault_sell |-> 1, vault_buy |-> 0,
    amount_sell |-> 2, amount_buy |-> 2, fee_info |-> Fee(gold, 0)]}

MCFeeInfos ==
  {[fee_taken |-> f, destination_vault_id |-> 2, destination_stark_key |-> exchange] : f \in {0, 1}}

MCL1Vaults == {[eth_key |-> bob, token_id |-> t, vault_index |-> 0] : t \in {gold, silver}}

MCHolders == {<<0, alice, gold>>, <<1, alice, silver>>}

\* Transfers, and two keys that share a vault over time.
MCTransfers ==
  {[order_id |-> 1, public_key |-> alice, token_id |-> gold, sender_vault_id |-> 0,
    receiver_public_key |-> exchange, receiver_vault_id |-> 1, amount |-> 1,
    fee_info |-> Fee(gold, 0)],
   [order_id |-> 2, public_key |-> exchange, token_id |-> gold, sender_vault_id |-> 1,
    receiver_public_key |-> alice, receiver_vault_id |-> 0, amount |-> 1,
    fee_info |-> NoFee]}

MCSharedHolders == {<<0, alice, gold>>, <<0, exchange, gold>>, <<0, alice, silver>>,
                    <<1, exchange, gold>>}

MCRequests == {<<alice, 0>>, <<exchange, 0>>, <<alice, 1>>}

\* Silver is minted, never deposited.
MCMintSupply == [t \in {gold, silver} |-> IF t = gold THEN 2 ELSE 0]
=============================================================================
