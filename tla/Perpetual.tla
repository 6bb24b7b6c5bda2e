----------------------------- MODULE Perpetual -----------------------------
(***************************************************************************)
(* The transactions of the perpetual exchange: one action per transaction  *)
(* type of services/perpetual/cairo/transactions, over the carried state   *)
(* of state/state.cairo.                                                   *)
(*                                                                         *)
(* The program is a batch verifier: a transaction that fails an assertion  *)
(* makes the whole batch unprovable, so it never becomes a step.  What a   *)
(* step may do is therefore exactly what the assertions let through, and   *)
(* the order of the transactions is the operator's choice.  Signatures and *)
(* expiration timestamps are taken as valid.                               *)
(***************************************************************************)
EXTENDS PerpetualPosition

CONSTANTS
  PositionIds,
  OrderIds,                    \* the order ids that message hashes yield
  FeePositionId, FeePublicKey, \* general_config.fee_position_info
  AMOUNT_UPPER_BOUND,
  FUNDING_INDEX_UPPER_BOUND,
  MaxFundingRate,              \* general_config.max_funding_rate
  FundingValidityPeriod,       \* timestamp_validation_config
  Deposits, Withdrawals, Transfers, ConditionalTransfers,
  LimitOrders, ForcedWithdrawals, ForcedTrades,  \* the requests users make
  CollateralAmounts, SyntheticAmounts, Fees,     \* the amounts an operator picks
  FundingIndexValues, PriceValues,               \* the values of the ticks
  MaxTime, MaxModifications    \* bounds of the model: the last timestamp, the deposits

\* Position ids are numbers of 64 bits, constants.cairo:34.
ASSUME ConfigAssumption ==
  /\ IsFiniteSet(PositionIds)
  /\ FeePositionId \in PositionIds
  /\ FeePublicKey \in PublicKeys
  /\ AMOUNT_UPPER_BOUND \in Nat \ {0}
  /\ FUNDING_INDEX_UPPER_BOUND \in Nat
  /\ MaxFundingRate \in Nat
  /\ FundingValidityPeriod \in Nat
  /\ MaxTime \in Nat

\* The public keys of requests are unconstrained, 0 included, where the code
\* does not verify a signature with them.
Collateral == [public_key : PublicKeys \cup {NoKey}, position_id : PositionIds, amount : Int]
SignedWithdrawal == [order_id : OrderIds, public_key : PublicKeys,
                     position_id : PositionIds, amount : Int]
SignedTransfer == [order_id : OrderIds, public_key : PublicKeys,
                   sender_position_id : PositionIds, receiver_public_key : PublicKeys \cup {NoKey},
                   receiver_position_id : PositionIds, amount : Int]
LimitOrder == [order_id : OrderIds, public_key : PublicKeys, position_id : PositionIds,
               asset_id_synthetic : Assets, is_buying_synthetic : BOOLEAN,
               amount_synthetic : Int, amount_collateral : Int, amount_fee : Int]
ForcedTrade == [public_key_a : PublicKeys \cup {NoKey}, public_key_b : PublicKeys \cup {NoKey},
                position_id_a : PositionIds, position_id_b : PositionIds,
                synthetic_asset_id : Assets, amount_collateral : Int, amount_synthetic : Int,
                is_party_a_buying_synthetic : BOOLEAN]

ASSUME RequestsAssumption ==
  /\ Deposits \subseteq Collateral /\ ForcedWithdrawals \subseteq Collateral
  /\ Withdrawals \subseteq SignedWithdrawal
  /\ Transfers \subseteq SignedTransfer /\ ConditionalTransfers \subseteq SignedTransfer
  /\ LimitOrders \subseteq LimitOrder
  /\ ForcedTrades \subseteq ForcedTrade
  /\ CollateralAmounts \subseteq Int /\ SyntheticAmounts \subseteq Int /\ Fees \subseteq Int
  /\ FundingIndexValues \subseteq Int
  /\ PriceValues \subseteq Nat \ {0}    \* PRICE_LOWER_BOUND is 1

VARIABLES
  positions_dict,          \* position id -> position
  orders_dict,             \* order id -> fulfilled amount
  global_funding_indices,  \* the indices of the last funding tick, with its timestamp
  oracle_prices,           \* the last price of each asset that has one
  system_time,
  funding_indices_table,   \* every FundingIndicesInfo published so far
  modifications            \* the net collateral of the modifications output so far

orders == <<orders_dict>>
outputs == <<funding_indices_table, modifications>>
globals == <<global_funding_indices, oracle_prices, system_time>>
vars == <<positions_dict, orders_dict, globals, outputs>>

IsFundingIndicesInfo(info) ==
  /\ info \in [indices : {info.indices}, funding_timestamp : Nat]
  /\ IsPartial(info.indices, Int)

NoIndices == [indices |-> [a \in {} |-> 0], funding_timestamp |-> 0]

\* An exchange that starts empty.
Init ==
  /\ positions_dict = [p \in PositionIds |-> EmptyPosition]
  /\ orders_dict = [o \in OrderIds |-> 0]
  /\ global_funding_indices = NoIndices
  /\ oracle_prices = [a \in {} |-> 1]
  /\ system_time = 0
  /\ funding_indices_table = {NoIndices}
  /\ modifications = 0

market == [indices |-> global_funding_indices.indices,
           funding_timestamp |-> global_funding_indices.funding_timestamp,
           prices |-> oracle_prices]

\* Every transaction but the ticks needs indices that are fresh enough.
FundingIsFresh ==
  system_time <= global_funding_indices.funding_timestamp + FundingValidityPeriod

\* assert_nn_le(amount, AMOUNT_UPPER_BOUND - 1).
IsAmount(x) == x \in 0 .. AMOUNT_UPPER_BOUND - 1

-----------------------------------------------------------------------------
(* Orders.                                                                 *)

\* Faulty variant: what was fulfilled before is not subtracted.
CanFulfillAgain(fulfilled, order_id, update_amount, full_amount) ==
  /\ update_amount \in 0 .. full_amount
  /\ full_amount < AMOUNT_UPPER_BOUND

\* update_order_fulfillment: ids may collide, so the fulfilled amount may be
\* above this order's full amount.
CanFulfill(fulfilled, order_id, update_amount, full_amount) ==
  /\ update_amount \in 0 .. full_amount - fulfilled[order_id]
  /\ full_amount < AMOUNT_UPPER_BOUND

update_order_fulfillment(fulfilled, order_id, update_amount) ==
  [fulfilled EXCEPT ![order_id] = @ + update_amount]

\* validate_limit_order_fairness, with collateral rounded in favour of the match.
validate_limit_order_fairness(order, collateral, synthetic, fee) ==
  /\ fee * order.amount_collateral <= order.amount_fee * collateral
  /\ IF order.is_buying_synthetic
     THEN collateral # 0 =>
            (collateral - 1) * order.amount_synthetic < order.amount_collateral * synthetic
     ELSE synthetic * order.amount_collateral < order.amount_synthetic * (collateral + 1)

LimitOrderRequest(order, collateral, synthetic, fee) ==
  [public_key |-> order.public_key,
   collateral_delta |-> (IF order.is_buying_synthetic THEN -collateral ELSE collateral) - fee,
   synthetic_asset_id |-> order.asset_id_synthetic,
   synthetic_delta |-> IF order.is_buying_synthetic THEN synthetic ELSE -synthetic]

\* The assertions of execute_limit_order on the order and its fulfillment.
CanFillLimitOrder(fulfilled, order, collateral, synthetic, fee) ==
  /\ order.position_id # FeePositionId
  /\ order.amount_collateral \in 1 .. AMOUNT_UPPER_BOUND - 1
  /\ IsAmount(order.amount_fee)
  /\ 1 <= synthetic
  /\ validate_limit_order_fairness(order, collateral, synthetic, fee)
  /\ CanFulfill(fulfilled, order.order_id, synthetic, order.amount_synthetic)

\* The positions after one party's order.  The fee position is credited first,
\* and both updates must succeed.
execute_limit_order(dict, order, collateral, synthetic, fee) ==
  LET fee_update == update_position(dict[FeePositionId], CollateralRequest(FeePublicKey, fee), market)
      with_fee == [dict EXCEPT ![FeePositionId] = fee_update.updated_position]
      update == update_position(with_fee[order.position_id],
                                LimitOrderRequest(order, collateral, synthetic, fee), market)
  IN  [success |-> Succeeds(fee_update) /\ Succeeds(update),
       positions_dict |-> [with_fee EXCEPT ![order.position_id] = update.updated_position]]

-----------------------------------------------------------------------------
(* Transactions of the users.                                              *)

\* The step that applies one collateral delta to one position.
ChangeCollateral(id, key, delta) ==
  LET update == update_position(positions_dict[id], CollateralRequest(key, delta), market)
  IN  /\ Succeeds(update)
      /\ positions_dict' = [positions_dict EXCEPT ![id] = update.updated_position]

Deposit(tx) ==
  /\ FundingIsFresh
  /\ IsAmount(tx.amount)
  /\ modifications + tx.amount <= MaxModifications
  /\ ChangeCollateral(tx.position_id, tx.public_key, tx.amount)
  /\ modifications' = modifications + tx.amount
  /\ UNCHANGED <<orders, globals, funding_indices_table>>

Withdrawal(tx) ==
  /\ FundingIsFresh
  /\ CanFulfill(orders_dict, tx.order_id, tx.amount, tx.amount)
  /\ orders_dict' = update_order_fulfillment(orders_dict, tx.order_id, tx.amount)
  /\ ChangeCollateral(tx.position_id, tx.public_key, -tx.amount)
  /\ modifications' = modifications - tx.amount
  /\ UNCHANGED <<globals, funding_indices_table>>

\* The receiver's update reads the dictionary the sender's update wrote.
MoveCollateral(tx) ==
  LET sent == update_position(positions_dict[tx.sender_position_id],
                              CollateralRequest(tx.public_key, -tx.amount), market)
      dict == [positions_dict EXCEPT ![tx.sender_position_id] = sent.updated_position]
      received == update_position(dict[tx.receiver_position_id],
                                  CollateralRequest(tx.receiver_public_key, tx.amount), market)
  IN  /\ FundingIsFresh
      /\ tx.sender_position_id # tx.receiver_position_id
      /\ IsAmount(tx.amount)
      /\ CanFulfill(orders_dict, tx.order_id, tx.amount, tx.amount)
      /\ Succeeds(sent) /\ Succeeds(received)
      /\ positions_dict' = [dict EXCEPT ![tx.receiver_position_id] = received.updated_position]
      /\ orders_dict' = update_order_fulfillment(orders_dict, tx.order_id, tx.amount)
      /\ UNCHANGED <<globals, outputs>>

Transfer(tx) == MoveCollateral(tx)

\* The condition itself is checked on-chain.
ConditionalTransfer(tx) == MoveCollateral(tx)

\* Party A buys what party B sells; B's order reads the state A's order left.
Trade(a, b, collateral, synthetic, a_fee, b_fee) ==
  LET bought == execute_limit_order(positions_dict, a, collateral, synthetic, a_fee)
      sold == execute_limit_order(bought.positions_dict, b, collateral, synthetic, b_fee)
      fulfilled == update_order_fulfillment(orders_dict, a.order_id, synthetic)
  IN  /\ FundingIsFresh
      /\ IsAmount(collateral) /\ IsAmount(a_fee) /\ IsAmount(b_fee)
      /\ a.is_buying_synthetic /\ ~ b.is_buying_synthetic
      /\ a.asset_id_synthetic = b.asset_id_synthetic
      /\ a.position_id # b.position_id
      /\ CanFillLimitOrder(orders_dict, a, collateral, synthetic, a_fee)
      /\ CanFillLimitOrder(fulfilled, b, collateral, synthetic, b_fee)
      /\ bought.success /\ sold.success
      /\ positions_dict' = sold.positions_dict
      /\ orders_dict' = update_order_fulfillment(fulfilled, b.order_id, synthetic)
      /\ UNCHANGED <<globals, outputs>>

-----------------------------------------------------------------------------
(* Forced actions: requested on-chain; the operator must either execute    *)
(* one or show that it cannot be executed, and either way the positions    *)
(* are settled.                                                            *)

ForcedWithdrawal(tx, is_valid) ==
  LET update == update_position(positions_dict[tx.position_id],
                                CollateralRequest(tx.public_key, -tx.amount), market)
  IN  /\ FundingIsFresh
      /\ IsAmount(tx.amount)
      /\ ~ Aborts(update)
      /\ is_valid <=> Succeeds(update)
      /\ positions_dict' = [positions_dict EXCEPT ![tx.position_id] = update.updated_position]
      /\ modifications' = modifications - (IF is_valid THEN tx.amount ELSE 0)
      /\ UNCHANGED <<orders, globals, funding_indices_table>>

\* Party A's or B's request: the buyer pays, the seller receives.
ForcedTradeRequest(tx, is_a) ==
  LET buying == is_a <=> tx.is_party_a_buying_synthetic
  IN  [public_key |-> IF is_a THEN tx.public_key_a ELSE tx.public_key_b,
       collateral_delta |-> IF buying THEN -tx.amount_collateral ELSE tx.amount_collateral,
       synthetic_asset_id |-> tx.synthetic_asset_id,
       synthetic_delta |-> IF buying THEN tx.amount_synthetic ELSE -tx.amount_synthetic]

\* Faulty variant: a side that could trade does, even if the other could not.
TradeOneSide(update, other) == update.updated_position

\* Both updates take effect or neither does.
try_to_trade(update, other) ==
  IF Succeeds(update) /\ Succeeds(other) THEN update.updated_position ELSE update.funded_position

ExecuteForcedTrade(tx, is_valid) ==
  LET a == update_position(positions_dict[tx.position_id_a], ForcedTradeRequest(tx, TRUE), market)
      b == update_position(positions_dict[tx.position_id_b], ForcedTradeRequest(tx, FALSE), market)
  IN  /\ FundingIsFresh
      /\ IsAmount(tx.amount_collateral) /\ IsAmount(tx.amount_synthetic)
      /\ tx.position_id_a # tx.position_id_b
      /\ ~ Aborts(a) /\ ~ Aborts(b)
      /\ is_valid <=> Succeeds(a) /\ Succeeds(b)
      /\ positions_dict' = [positions_dict EXCEPT ![tx.position_id_a] = try_to_trade(a, b),
                                                  ![tx.position_id_b] = try_to_trade(b, a)]
      /\ UNCHANGED <<orders, globals, outputs>>

-----------------------------------------------------------------------------
(* Transactions against a position that is short of collateral.            *)

\* Faulty variant: the side is looked at, the size is not.
CoversAnySize(pos, asset, is_counterparty_buying, size) ==
  LET balance == position_get_asset_balance(pos, asset)
  IN  size >= 0 /\ (IF is_counterparty_buying THEN balance > 0 ELSE balance < 0)

\* The size is at most the balance on the side that the counterparty closes.
Covers(pos, asset, is_counterparty_buying, size) ==
  LET balance == position_get_asset_balance(pos, asset)
  IN  size \in 0 .. (IF is_counterparty_buying THEN balance ELSE -balance)

\* The liquidated position takes the other side of the liquidator's order,
\* without fee and under its own key.
LiquidatedRequest(pos, order, collateral, synthetic) ==
  [public_key |-> pos.public_key,
   collateral_delta |-> IF order.is_buying_synthetic THEN collateral ELSE -collateral,
   synthetic_asset_id |-> order.asset_id_synthetic,
   synthetic_delta |-> IF order.is_buying_synthetic THEN -synthetic ELSE synthetic]

IsLiquidatable(pos, prices) ==
  /\ HasStatus(pos, prices) /\ StatusInRange(pos, prices)
  /\ TotalRisk(pos, prices) > TotalValue(pos, prices) * FXP_32_ONE

Liquidate(order, liquidated_id, collateral, synthetic, fee) ==
  LET funded == position_apply_funding(positions_dict[liquidated_id], market)
      liquidated == update_position(funded, LiquidatedRequest(funded, order, collateral, synthetic),
                                    market)
      dict == [positions_dict EXCEPT ![liquidated_id] = liquidated.updated_position]
      liquidator == execute_limit_order(dict, order, collateral, synthetic, fee)
  IN  /\ FundingIsFresh
      /\ IsAmount(collateral) /\ IsAmount(fee)
      /\ order.position_id # liquidated_id
      /\ CanFillLimitOrder(orders_dict, order, collateral, synthetic, fee)
      /\ CanFund(positions_dict[liquidated_id], market)
      /\ IsLiquidatable(funded, oracle_prices)
      /\ Covers(funded, order.asset_id_synthetic, order.is_buying_synthetic, synthetic)
      /\ Succeeds(liquidated)
      /\ liquidator.success
      /\ positions_dict' = liquidator.positions_dict
      /\ orders_dict' = update_order_fulfillment(orders_dict, order.order_id, synthetic)
      /\ UNCHANGED <<globals, outputs>>

KeylessRequest(asset, is_buying, collateral, synthetic) ==
  [public_key |-> NoKey,
   collateral_delta |-> IF is_buying THEN -collateral ELSE collateral,
   synthetic_asset_id |-> asset,
   synthetic_delta |-> IF is_buying THEN synthetic ELSE -synthetic]

\* Faulty variant: equality is let through.
RatioIsTightOrEqual(old, new, prices) ==
  TotalValue(old, prices) * TotalRisk(new, prices)
    >= (TotalValue(new, prices) - FXP_32_ONE) * TotalRisk(old, prices)

\* One collateral unit less would lower the position's value to risk ratio.
DeleverageRatioIsTight(old, new, prices) ==
  TotalValue(old, prices) * TotalRisk(new, prices)
    > (TotalValue(new, prices) - FXP_32_ONE) * TotalRisk(old, prices)

Deleverage(deleveragable_id, deleverager_id, asset, deleverager_is_buying, collateral, synthetic) ==
  LET deleveragable == update_position(positions_dict[deleveragable_id],
                         KeylessRequest(asset, ~ deleverager_is_buying, collateral, synthetic), market)
      dict == [positions_dict EXCEPT ![deleveragable_id] = deleveragable.updated_position]
      deleverager == update_position(dict[deleverager_id],
                       KeylessRequest(asset, deleverager_is_buying, collateral, synthetic), market)
      old == deleveragable.funded_position
      new == deleveragable.updated_position
  IN  /\ FundingIsFresh
      /\ IsAmount(collateral) /\ IsAmount(synthetic)
      /\ deleveragable_id # deleverager_id
      /\ Succeeds(deleveragable)
      /\ HasStatus(old, oracle_prices) /\ StatusInRange(old, oracle_prices)
      /\ TotalValue(old, oracle_prices) < 0
      /\ Succeeds(deleverager)
      /\ Covers(deleverager.funded_position, asset, ~ deleverager_is_buying, synthetic)
      /\ HasStatus(new, oracle_prices) /\ StatusInRange(new, oracle_prices)
      /\ DeleverageRatioIsTight(old, new, oracle_prices)
      /\ positions_dict' = [dict EXCEPT ![deleverager_id] = deleverager.updated_position]
      /\ UNCHANGED <<orders, globals, outputs>>

-----------------------------------------------------------------------------
(* The operator's ticks.                                                   *)

\* Faulty variant: indices may move within one timestamp.
DiffInRangeOfNextTime(diff, timestamp_diff, price) ==
  abs_value(diff) * FXP_32_ONE <= MaxFundingRate * price * (timestamp_diff + 1)

\* |change of the index| <= max_funding_rate * price * change of the timestamp.
validate_funding_index_diff_in_range(diff, timestamp_diff, price) ==
  abs_value(diff) * FXP_32_ONE <= MaxFundingRate * price * timestamp_diff

validate_funding_tick(new) ==
  LET old == global_funding_indices
  IN  /\ DOMAIN old.indices \subseteq DOMAIN new.indices \cap DOMAIN oracle_prices
      /\ \A a \in DOMAIN new.indices :
           new.indices[a] \in -FUNDING_INDEX_UPPER_BOUND .. FUNDING_INDEX_UPPER_BOUND - 1
      /\ \A a \in DOMAIN old.indices :
           validate_funding_index_diff_in_range(new.indices[a] - old.indices[a],
                                                new.funding_timestamp - old.funding_timestamp,
                                                oracle_prices[a])

FundingTick(new) ==
  /\ system_time <= new.funding_timestamp
  /\ validate_funding_tick(new)
  /\ global_funding_indices' = new
  /\ system_time' = new.funding_timestamp
  /\ funding_indices_table' = funding_indices_table \cup {new}
  /\ UNCHANGED <<positions_dict, orders, oracle_prices, modifications>>

\* Faulty variant: the prices of the tick are all that is left.
PricesTickReplacing(prices, timestamp) ==
  /\ system_time <= timestamp
  /\ oracle_prices' = prices
  /\ system_time' = timestamp
  /\ UNCHANGED <<positions_dict, orders_dict, global_funding_indices, outputs>>

\* The prices of the tick replace or extend the previous ones.
OraclePricesTick(prices, timestamp) ==
  /\ system_time <= timestamp
  /\ oracle_prices' = [a \in DOMAIN prices \cup DOMAIN oracle_prices |->
                         IF a \in DOMAIN prices THEN prices[a] ELSE oracle_prices[a]]
  /\ system_time' = timestamp
  /\ UNCHANGED <<positions_dict, orders, global_funding_indices, outputs>>

-----------------------------------------------------------------------------
Tick ==
  \E assets \in SUBSET Assets, time \in 0 .. MaxTime :
    \/ \E indices \in [assets -> FundingIndexValues] :
         FundingTick([indices |-> indices, funding_timestamp |-> time])
    \/ \E prices \in [assets -> PriceValues] : OraclePricesTick(prices, time)

AnyTrade ==
  \E a, b \in LimitOrders, c \in CollateralAmounts, s \in SyntheticAmounts, f, g \in Fees :
    Trade(a, b, c, s, f, g)

AnyLiquidate ==
  \E o \in LimitOrders, id \in PositionIds, c \in CollateralAmounts,
     s \in SyntheticAmounts, f \in Fees : Liquidate(o, id, c, s, f)

AnyDeleverage ==
  \E id, other \in PositionIds, a \in Assets, buying \in BOOLEAN,
     c \in CollateralAmounts, s \in SyntheticAmounts : Deleverage(id, other, a, buying, c, s)

AnyForcedTrade == \E tx \in ForcedTrades, is_valid \in BOOLEAN : ExecuteForcedTrade(tx, is_valid)

UserTransaction ==
  \/ \E tx \in Deposits : Deposit(tx)
  \/ \E tx \in Withdrawals : Withdrawal(tx)
  \/ \E tx \in Transfers : Transfer(tx)
  \/ \E tx \in ConditionalTransfers : ConditionalTransfer(tx)
  \/ \E tx \in ForcedWithdrawals, is_valid \in BOOLEAN : ForcedWithdrawal(tx, is_valid)
  \/ AnyTrade
  \/ AnyForcedTrade
  \/ AnyLiquidate
  \/ AnyDeleverage

Next == UserTransaction \/ Tick

Spec == Init /\ [][Next]_vars
=============================================================================
