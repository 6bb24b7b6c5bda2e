----------------------------- MODULE MCListing -----------------------------
(* Two synthetic assets that are listed at any time and in any order, of    *)
(* which a position may hold one; balances close to the bound.  The fee     *)
(* position is one that trades.                                             *)
EXTENDS PerpetualSafety

CONSTANTS btc, eth, feeId, alice, bob, feeKey, aliceKey, bobKey

MCRiskSegments == [a \in {btc, eth} |-> <<[upper_bound |-> 400, risk |-> 1]>>]

MCDeposits == {[public_key |-> aliceKey, position_id |-> alice, amount |-> 2],
               [public_key |-> bobKey, position_id |-> bob, amount |-> 1]}

Buys(asset) ==
  [order_id |-> 1, public_key |-> aliceKey, position_id |-> alice, asset_id_synthetic |-> asset,
   is_buying_synthetic |-> TRUE, amount_synthetic |-> 2, amount_collateral |-> 2, amount_fee |-> 0]

Sells(asset) ==
  [order_id |-> 2, public_key |-> bobKey, position_id |-> bob, asset_id_synthetic |-> asset,
   is_buying_synthetic |-> FALSE, amount_synthetic |-> 2, amount_collateral |-> 2, amount_fee |-> 0]

MCLimitOrders == {Buys(btc), Sells(btc), Buys(eth), Sells(eth)}

\* Bob, who is short already, sells to the fee position what would take him to
\* the lower bound.
MCForcedTrades ==
  {[public_key_a |-> feeKey, public_key_b |-> bobKey, position_id_a |-> feeId,
    position_id_b |-> bob, synthetic_asset_id |-> btc, amount_collateral |-> 0,
    amount_synthetic |-> 2, is_party_a_buying_synthetic |-> TRUE]}
=============================================================================
