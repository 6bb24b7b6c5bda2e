---------------------------- MODULE MCPerpetual ----------------------------
(* One synthetic asset, two traders and the fee position.                  *)
EXTENDS PerpetualSafety

CONSTANTS btc, feeId, alice, bob, feeKey, aliceKey, bobKey

MCRiskSegments == [a \in {btc} |-> <<[upper_bound |-> 8, risk |-> 2],
                                     [upper_bound |-> 400, risk |-> 3]>>]

MCDeposits == {[public_key |-> aliceKey, position_id |-> alice, amount |-> 2],
               [public_key |-> bobKey, position_id |-> bob, amount |-> 2]}

\* With a deposit to a position that is bob's only while it is empty.
MCMixedDeposits ==
  MCDeposits \cup {[public_key |-> bobKey, position_id |-> alice, amount |-> 2]}

MCWithdrawals == {[order_id |-> 1, public_key |-> aliceKey, position_id |-> alice, amount |-> 2]}

MCTransfers == {[order_id |-> 1, public_key |-> bobKey, sender_position_id |-> bob,
                 receiver_public_key |-> NoKey, receiver_position_id |-> alice, amount |-> 1]}

MCConditionalTransfers ==
  {[order_id |-> 1, public_key |-> aliceKey, sender_position_id |-> alice,
    receiver_public_key |-> bobKey, receiver_position_id |-> bob, amount |-> 2]}

MCLimitOrders ==
  {[order_id |-> 2, public_key |-> aliceKey, position_id |-> alice, asset_id_synthetic |-> btc,
    is_buying_synthetic |-> TRUE, amount_synthetic |-> 2, amount_collateral |-> 2, amount_fee |-> 1],
   [order_id |-> 3, public_key |-> bobKey, position_id |-> bob, asset_id_synthetic |-> btc,
    is_buying_synthetic |-> FALSE, amount_synthetic |-> 2, amount_collateral |-> 2, amount_fee |-> 1]}

\* Anybody may request a forced withdrawal of any position.
MCForcedWithdrawals == {[public_key |-> bobKey, position_id |-> bob, amount |-> 1],
                        [public_key |-> bobKey, position_id |-> alice, amount |-> 1]}

MCForcedTrades ==
  {[public_key_a |-> aliceKey, public_key_b |-> bobKey, position_id_a |-> alice,
    position_id_b |-> bob, synthetic_asset_id |-> btc, amount_collateral |-> 1,
    amount_synthetic |-> 1, is_party_a_buying_synthetic |-> FALSE]}

\* Where a little of an asset carries little risk.
MCLowRiskSegments == [a \in {btc} |-> <<[upper_bound |-> 8, risk |-> 1],
                                        [upper_bound |-> 400, risk |-> 3]>>]

\* A trade may give an asset away, and the operator, a third holder, takes it.
MCGiftToFeePosition ==
  {[public_key_a |-> feeKey, public_key_b |-> bobKey, position_id_a |-> feeId,
    position_id_b |-> bob, synthetic_asset_id |-> btc, amount_collateral |-> 0,
    amount_synthetic |-> 1, is_party_a_buying_synthetic |-> TRUE]}

\* The fee position trades like any other: its owner, the operator, may use it
\* in a forced trade.
MCFeeDeposits ==
  MCDeposits \cup {[public_key |-> feeKey, position_id |-> feeId, amount |-> 1]}

MCFeeForcedTrades ==
  {[public_key_a |-> feeKey, public_key_b |-> bobKey, position_id_a |-> feeId,
    position_id_b |-> bob, synthetic_asset_id |-> btc, amount_collateral |-> 1,
    amount_synthetic |-> 1, is_party_a_buying_synthetic |-> TRUE]}
=============================================================================
