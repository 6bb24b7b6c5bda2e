-------------------------- MODULE PerpetualSafety --------------------------
(***************************************************************************)
(* What the perpetual exchange must keep true over any sequence of         *)
(* transactions.                                                           *)
(***************************************************************************)
EXTENDS Perpetual

\* Type invariant of the carried state and the outputs.  The orders' amounts
\* are in the range that order.cairo:77-78 assumes of them.
TypeOK ==
  /\ positions_dict = [p \in PositionIds |-> positions_dict[p]]
  /\ \A p \in PositionIds : IsPosition(positions_dict[p])
  /\ orders_dict \in [OrderIds -> 0 .. AMOUNT_UPPER_BOUND - 1]
  /\ IsFundingIndicesInfo(global_funding_indices)
  /\ IsPartial(oracle_prices, Nat \ {0})
  /\ system_time \in Nat
  /\ \A info \in funding_indices_table : IsFundingIndicesInfo(info)
  /\ modifications \in Int

-----------------------------------------------------------------------------
(* The ledger as a whole.                                                  *)

\* Every synthetic asset is a bet between positions: whatever one position is
\* long, others are short (trade.cairo, liquidate.cairo, deleverage.cairo and
\* both outcomes of forced_trade.cairo move equal and opposite amounts).
SyntheticsNetToZero ==
  \A a \in Assets :
    SumFunction([p \in PositionIds |-> position_get_asset_balance(positions_dict[p], a)]) = 0

\* What a position's collateral is worth, in fixed point, once it has paid
\* the funding it still owes.
Claim(p) ==
  positions_dict[p].collateral_balance * FXP_32_ONE - FundingDue(positions_dict[p], market)

\* funding.cairo:107-113: rounding never makes collateral out of thin air.
\* The claims of all positions never exceed the collateral that came in and
\* has not gone out, however late each position settles its funding.
FundingNeverMints ==
  SumFunction([p \in PositionIds |-> Claim(p)]) <= modifications * FXP_32_ONE

\* funding.cairo:30-31: settling funding late, one position at a time, is the
\* same as settling every position's at every tick.
Ledger == INSTANCE FundedLedger WITH
  Positions <- PositionIds,
  Unit <- FXP_32_ONE,
  claim <- [p \in PositionIds |-> Claim(p)],
  synthetic <- [p \in PositionIds |->
                  [a \in Assets |-> position_get_asset_balance(positions_dict[p], a)]],
  index <- global_funding_indices.indices,
  vault <- modifications

ImplementsFundedLedger == Ledger!Spec

-----------------------------------------------------------------------------
(* Each position.                                                          *)

\* position.cairo:38-40: a position has an owner exactly when it holds
\* something, so an emptied position can be taken over and no other can.
KeyIffNonEmpty ==
  \A p \in PositionIds : positions_dict[p].public_key = NoKey <=> IsEmpty(positions_dict[p])

\* add_asset.cairo:188-191: comparing the number of assets with the maximum
\* plus one bounds it, because it only grows by one at a time.  A balance of 0
\* is never stored.  No synthetic balance is at the lower bound, which
\* check_valid_balance lets in: get_risk_factor (general_config.cairo:59) would
\* refuse the position's status, and with it every later update, for ever.
PositionWithinLimits(pos) ==
  /\ Cardinality(Held(pos)) <= POSITION_MAX_SUPPORTED_N_ASSETS
  /\ check_valid_balance(pos.collateral_balance)
  /\ \A a \in Held(pos) : /\ pos.assets[a].balance # 0
                         /\ abs_value(pos.assets[a].balance) < BALANCE_UPPER_BOUND

PositionsWithinLimits == \A p \in PositionIds : PositionWithinLimits(positions_dict[p])

\* funding.cairo:49 and status.cairo:48 look a held asset up with a search
\* that cannot fail softly: an asset with no index or no price would make the
\* position, and every forced action on it, unprovable for ever.
HeldAssetsAreListed ==
  \A p \in PositionIds :
    Held(positions_dict[p]) \subseteq DOMAIN global_funding_indices.indices \cap DOMAIN oracle_prices

\* Looking an asset's index up by timestamp in the published table: some entry
\* of that timestamp lists the asset and all that do give this index.
Published(table, a, timestamp, index) ==
  LET entries == {info \in table : info.funding_timestamp = timestamp /\ a \in DOMAIN info.indices}
  IN  entries # {} /\ \A info \in entries : info.indices[a] = index

\* The data availability output gives a position's funding_timestamp instead
\* of its cached indices (serialize_change.cairo:113-117), so whoever rebuilds
\* the position takes them from the table, and must find what it has cached.
CachedIndicesPublished ==
  \A p \in PositionIds : \A a \in Held(positions_dict[p]) :
    Published(funding_indices_table, a, positions_dict[p].funding_timestamp,
              positions_dict[p].assets[a].cached_funding_index)

\* The global indices are the table's latest entry: none is later, none lists
\* another asset, and those of the same time do not disagree with it.
LatestEntryIsGlobal ==
  LET latest == global_funding_indices
  IN  /\ latest \in funding_indices_table
      /\ latest.funding_timestamp <= system_time
      /\ \A info \in funding_indices_table :
           /\ info.funding_timestamp <= latest.funding_timestamp
           /\ DOMAIN info.indices \subseteq DOMAIN latest.indices
           /\ info.funding_timestamp = latest.funding_timestamp =>
                \A a \in DOMAIN info.indices : info.indices[a] = latest.indices[a]

-----------------------------------------------------------------------------
(* Steps.                                                                  *)

KeepsOwner(old, new) ==
  old.public_key # NoKey => new.public_key \in {old.public_key, NoKey}

OwnersKept(old, new) ==
  \A p \in PositionIds : \/ KeepsOwner(old[p], new[p])
                         \/ p = FeePositionId /\ new[p].public_key = FeePublicKey

\* update_position.cairo:115-162: whoever owns a position keeps owning it
\* until it is empty.  The fee position may do both in one step: a liquidation
\* empties it and credits it with the liquidator's fee.
OwnershipIsStable == [][OwnersKept(positions_dict, positions_dict')]_vars

\* The position as it would be if it settled its funding now.
Settled(p) == position_apply_funding(positions_dict[p], market)

MarginIsKept(p) == WellLeveraged(Settled(p), oracle_prices)

\* validate_state_transition.cairo:12-19: only the market can make a well
\* leveraged position risky.  No transaction, of its owner or of others,
\* takes it out of margin, the rule for positions already out of margin
\* included.
TransactionsKeepMargin ==
  [][UNCHANGED globals => \A p \in PositionIds : MarginIsKept(p) => MarginIsKept(p)']_vars

\* An owner agrees to a change of a synthetic balance by an order of theirs
\* that is being filled, or by a forced trade that both sides signed.
Agreed(p) ==
  \/ \E o \in LimitOrders :
       o.position_id = p /\ orders_dict'[o.order_id] # orders_dict[o.order_id]
  \/ \E tx \in ForcedTrades :
       p \in {tx.position_id_a, tx.position_id_b} /\ ExecuteForcedTrade(tx, TRUE)

\* A synthetic balance moves towards 0 and does not cross it.
Shrinks(before, after) == abs_value(after) < abs_value(before) /\ before * after >= 0

\* liquidate.cairo:102-124 and deleverage.cairo:107-126: without its owner's
\* agreement a synthetic balance only shrinks.  A deleveraging compares only
\* the deleverager's balance with the size: the other one may cross 0 or grow
\* when that leaves a position that was worth less than nothing well leveraged,
\* and then it is worth less than one unit of collateral.
SeizureOnlyShrinks ==
  [][\A p \in PositionIds, a \in Assets :
       LET before == position_get_asset_balance(positions_dict[p], a)
           after == position_get_asset_balance(positions_dict'[p], a)
       IN  before # after /\ ~ Agreed(p) =>
             \/ Shrinks(before, after)
             \/ /\ TotalValue(Settled(p), oracle_prices) < 0
                /\ WellLeveraged(positions_dict'[p], oracle_prices)
                /\ TotalValue(positions_dict'[p], oracle_prices) < FXP_32_ONE]_vars

\* deleverage.cairo:141-144: if the deleveraged position got one unit of
\* collateral less, its update would be refused.
DeleverageIsTight ==
  [][UNCHANGED <<orders, globals, outputs>> =>
       \A id, other \in PositionIds, a \in Assets, buying \in BOOLEAN,
          c \in CollateralAmounts, s \in SyntheticAmounts :
         Deleverage(id, other, a, buying, c, s) =>
           LET request == KeylessRequest(a, ~ buying, c, s)
           IN  ~ Succeeds(update_position(positions_dict[id],
                                          [request EXCEPT !.collateral_delta = @ - 1], market))]_vars

-----------------------------------------------------------------------------
(* Two statements of the source's comments that the code does not keep.    *)

\* execute_limit_order.cairo:36: the fee position has no synthetic assets.
FeePositionHasNoSynthetics == Held(positions_dict[FeePositionId]) = {}

\* position.cairo:22-23: every position that changes has the funding
\* timestamp of the indices it was funded with.
ChangedPositionsHaveTimestamp ==
  [][\A p \in PositionIds :
       positions_dict'[p] # positions_dict[p] =>
         positions_dict'[p].funding_timestamp = global_funding_indices.funding_timestamp]_vars
=============================================================================
