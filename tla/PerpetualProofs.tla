-------------------------- MODULE PerpetualProofs --------------------------
(***************************************************************************)
(* Proofs about the perpetual exchange, for every configuration, every set *)
(* of requests and every number of positions.                              *)
(***************************************************************************)
EXTENDS PerpetualSafety, TLAPS, FiniteSetTheorems

\* The part of the inductive invariant that speaks of one position.
PositionInv(pos, m, table) ==
  /\ IsPosition(pos)
  /\ pos.public_key = NoKey <=> IsEmpty(pos)
  /\ PositionWithinLimits(pos)
  /\ Held(pos) \subseteq DOMAIN m.indices \cap DOMAIN m.prices
  /\ \A a \in Held(pos) :
       Published(table, a, pos.funding_timestamp, pos.assets[a].cached_funding_index)

\* The market's own indices are in the table.
MarketInv(m, table) ==
  /\ IsMarket(m)
  /\ \A a \in DOMAIN m.indices : Published(table, a, m.funding_timestamp, m.indices[a])

-----------------------------------------------------------------------------
(* Lemmas about one position.                                              *)

\* position_apply_funding moves collateral and cached indices, and nothing
\* that makes a position well formed.
LEMMA FundingKeepsPosition ==
  ASSUME NEW pos, NEW m, NEW table, MarketInv(m, table), PositionInv(pos, m, table),
         CanFund(pos, m)
  PROVE  PositionInv(position_apply_funding(pos, m), m, table)
PROOF
  <1> DEFINE funded == position_apply_funding(pos, m)
  <1>1. Held(funded) = Held(pos)
    BY DEF Held, position_apply_funding
  <1>2. /\ funded.public_key = pos.public_key
        /\ funded.funding_timestamp = m.funding_timestamp
        /\ funded.collateral_balance = FundedCollateral(pos, m)
    BY DEF position_apply_funding
  <1>3. \A a \in Held(pos) : /\ funded.assets[a].balance = pos.assets[a].balance
                             /\ funded.assets[a].cached_funding_index = m.indices[a]
    BY DEF position_apply_funding, Held
  <1>4. IsPosition(funded)
    <2>1. FundedCollateral(pos, m) \in Int
      BY BoundsAssumption DEF CanFund, check_valid_balance
    <2>2. IsPartial(funded.assets, PositionAsset)
      BY DEF PositionInv, IsPosition, IsPartial, PositionAsset, MarketInv, IsMarket,
             position_apply_funding, Held
    <2> QED
      BY <2>1, <2>2 DEF PositionInv, IsPosition, MarketInv, IsMarket, position_apply_funding
  <1>5. funded.public_key = NoKey <=> IsEmpty(funded)
    <2>1. CASE Held(pos) = {}
      <3>1. pos.collateral_balance \in Int
        BY DEF PositionInv, IsPosition
      <3>2. FundingDue(pos, m) = 0
        BY <2>1 DEF FundingDue
      <3>3. FundedCollateral(pos, m) = pos.collateral_balance
        BY <3>1, <3>2, BoundsAssumption DEF FundedCollateral
      <3> QED
        BY <2>1, <3>3, <1>1, <1>2 DEF PositionInv, IsEmpty, position_apply_funding
    <2>2. CASE Held(pos) # {}
      BY <2>2, <1>1, <1>2 DEF PositionInv, IsEmpty
    <2> QED
      BY <2>1, <2>2
  <1>6. PositionWithinLimits(funded)
    BY <1>1, <1>2, <1>3 DEF PositionWithinLimits, PositionInv, CanFund
  <1> QED
    BY <1>1, <1>2, <1>3, <1>4, <1>5, <1>6 DEF PositionInv, MarketInv

\* The empty position is well formed, whatever the market.
LEMMA EmptyPositionHolds ==
  ASSUME NEW m, NEW table
  PROVE  PositionInv(EmptyPosition, m, table)
PROOF
  <1>1. /\ Held(EmptyPosition) = {} /\ IsEmpty(EmptyPosition)
        /\ EmptyPosition.public_key = NoKey /\ EmptyPosition.collateral_balance = 0
    BY DEF Held, IsEmpty, EmptyPosition, NoAssets
  <1>2. IsPosition(EmptyPosition)
    BY DEF IsPosition, IsPartial, PositionAsset, EmptyPosition, NoAssets
  <1>3. PositionWithinLimits(EmptyPosition)
    <2>1. Cardinality(Held(EmptyPosition)) = 0
      BY <1>1, FS_EmptySet
    <2>2. check_valid_balance(0)
      BY BoundsAssumption DEF check_valid_balance
    <2> QED
      BY <1>1, <2>1, <2>2, BoundsAssumption DEF PositionWithinLimits
  <1> QED
    BY <1>1, <1>2, <1>3 DEF PositionInv

\* create_maybe_empty_position gives the position without assets or collateral
\* no key, and keeps any other as it is.
LEMMA MaybeEmptyKeepsPosition ==
  ASSUME NEW pos, NEW m, NEW table, IsPosition(pos), pos.public_key # NoKey,
         PositionWithinLimits(pos),
         Held(pos) \subseteq DOMAIN m.indices \cap DOMAIN m.prices,
         \A a \in Held(pos) :
           Published(table, a, pos.funding_timestamp, pos.assets[a].cached_funding_index)
  PROVE  PositionInv(create_maybe_empty_position(pos), m, table)
PROOF
  <1>1. CASE IsEmpty(pos)
    <2>1. create_maybe_empty_position(pos) = EmptyPosition
      BY <1>1 DEF create_maybe_empty_position
    <2> QED
      BY <2>1, EmptyPositionHolds
  <1>2. CASE ~ IsEmpty(pos)
    BY <1>2 DEF create_maybe_empty_position, PositionInv
  <1> QED
    BY <1>1, <1>2

\* position_add_asset keeps an array of assets well formed and within the
\* maximum: the new array has at most one asset more.
LEMMA AddAssetKeepsAssets ==
  ASSUME NEW pos, NEW m, NEW table, MarketInv(m, table), PositionInv(pos, m, table),
         pos.funding_timestamp = m.funding_timestamp,
         NEW a \in Assets \cup {NoAsset}, NEW delta \in Int,
         CanAddAsset(pos, a, delta, m), is_asset_id_tradable(a, m),
         a = NoAsset => delta = 0,
         NEW after, after = AssetsAfter(pos, a, delta, m)
  PROVE  /\ IsPartial(after, PositionAsset)
         /\ Cardinality(DOMAIN after) <= POSITION_MAX_SUPPORTED_N_ASSETS
         /\ DOMAIN after \subseteq DOMAIN m.indices \cap DOMAIN m.prices
         /\ \A x \in DOMAIN after :
              /\ after[x].balance # 0
              /\ Published(table, x, m.funding_timestamp, after[x].cached_funding_index)
PROOF
  <1>1. CASE delta = 0
    <2>1. after = pos.assets
      BY <1>1 DEF AssetsAfter
    <2> QED
      BY <2>1 DEF PositionInv, IsPosition, PositionWithinLimits, Held
  <1>2. CASE delta # 0
    <2> DEFINE new == NewAsset(pos, a, delta, m)
    <2>1. a \in Assets /\ a \in DOMAIN m.prices \cap DOMAIN m.indices
      BY <1>2 DEF is_asset_id_tradable
    <2>2. /\ new.balance = position_get_asset_balance(pos, a) + delta
          /\ check_valid_balance(new.balance)
          /\ new.cached_funding_index = IF a \in Held(pos)
                                        THEN pos.assets[a].cached_funding_index
                                        ELSE m.indices[a]
      BY <1>2 DEF CanAddAsset, NewAsset
    <2>3. new \in PositionAsset
      <3>1. new.balance \in Int
        BY <2>2, BoundsAssumption DEF check_valid_balance
      <3>2. new.cached_funding_index \in Int
        BY <2>1, <2>2 DEF PositionInv, IsPosition, IsPartial, PositionAsset, MarketInv, IsMarket, Held
      <3> QED
        BY <3>1, <3>2 DEF NewAsset, PositionAsset
    <2>4. Published(table, a, m.funding_timestamp, new.cached_funding_index)
      BY <2>1, <2>2 DEF PositionInv, MarketInv
    <2>5. IsFiniteSet(Held(pos)) /\ Held(pos) \subseteq Assets
          /\ Cardinality(Held(pos)) <= POSITION_MAX_SUPPORTED_N_ASSETS
      BY NamesAssumption, FS_Subset
      DEF PositionInv, IsPosition, IsPartial, Held, PositionWithinLimits
    <2>6. CASE new.balance = 0
      <3>1. after = [x \in Held(pos) \ {a} |-> pos.assets[x]]
        BY <1>2, <2>6 DEF AssetsAfter, add_asset_inner, Restrict
      <3>2. Cardinality(DOMAIN after) <= POSITION_MAX_SUPPORTED_N_ASSETS
        <4>1. DOMAIN after = Held(pos) \ {a}
          BY <3>1
        <4>2. Cardinality(Held(pos) \ {a}) <= Cardinality(Held(pos))
              /\ Cardinality(Held(pos) \ {a}) \in Nat /\ Cardinality(Held(pos)) \in Nat
          BY <2>5, FS_Subset, FS_CardinalityType
        <4> QED
          BY <4>1, <4>2, <2>5, BoundsAssumption
      <3>3. IsPartial(after, PositionAsset)
        BY <3>1, <2>5 DEF IsPartial, PositionInv, IsPosition, Held
      <3> QED
        BY <3>1, <3>2, <3>3 DEF PositionInv, PositionWithinLimits
    <2>7. CASE new.balance # 0
      <3>1. after = [x \in Held(pos) \cup {a} |-> IF x = a THEN new ELSE pos.assets[x]]
        BY <1>2, <2>7 DEF AssetsAfter, add_asset_inner
      <3>2. Cardinality(DOMAIN after) <= POSITION_MAX_SUPPORTED_N_ASSETS
        <4>1. DOMAIN after = Held(pos) \cup {a}
          BY <3>1
        <4>2. Cardinality(DOMAIN after) # POSITION_MAX_SUPPORTED_N_ASSETS + 1
          BY <1>2 DEF CanAddAsset
        <4>3. /\ Cardinality(Held(pos)) \in Nat
              /\ Cardinality(Held(pos) \cup {a}) \in
                   {Cardinality(Held(pos)), Cardinality(Held(pos)) + 1}
          BY <2>5, FS_AddElement, FS_CardinalityType
        <4> QED
          BY <4>1, <4>2, <4>3, <2>5, BoundsAssumption
      <3>3. IsPartial(after, PositionAsset)
        BY <3>1, <2>1, <2>3, <2>5 DEF IsPartial, PositionInv, IsPosition, Held
      <3> QED
        BY <3>1, <3>2, <3>3, <2>1, <2>2, <2>4, <2>7 DEF PositionInv, PositionWithinLimits
    <2> QED
      BY <2>6, <2>7
  <1> QED
    BY <1>1, <1>2

\* The target of an update that passes the checks on the way to it, and whom
\* it belongs to.
LEMMA TargetKeepsPosition ==
  ASSUME NEW pos, NEW m, NEW table, MarketInv(m, table), PositionInv(pos, m, table),
         pos.funding_timestamp = m.funding_timestamp,
         NEW req \in Request, req.synthetic_asset_id = NoAsset => req.synthetic_delta = 0,
         is_asset_id_tradable(req.synthetic_asset_id, m), ReachesTarget(pos, req, m),
         HasStatus(Target(pos, req, m), m.prices)
  PROVE  /\ PositionInv(Target(pos, req, m), m, table)
         /\ Target(pos, req, m).public_key \in {req.public_key, pos.public_key, NoKey}
         /\ pos.public_key # NoKey =>
              Target(pos, req, m).public_key \in {pos.public_key, NoKey}
PROOF
  <1> DEFINE after == AssetsAfter(pos, req.synthetic_asset_id, req.synthetic_delta, m)
             target == [public_key |-> ResultKey(pos, req),
                        collateral_balance |-> pos.collateral_balance + req.collateral_delta,
                        assets |-> after,
                        funding_timestamp |-> pos.funding_timestamp]
  <1>1. /\ req.public_key \in PublicKeys \cup {NoKey} /\ req.collateral_delta \in Int
        /\ req.synthetic_asset_id \in Assets \cup {NoAsset} /\ req.synthetic_delta \in Int
    BY DEF Request
  <1>2. /\ IsPartial(after, PositionAsset)
        /\ Cardinality(DOMAIN after) <= POSITION_MAX_SUPPORTED_N_ASSETS
        /\ DOMAIN after \subseteq DOMAIN m.indices \cap DOMAIN m.prices
        /\ \A x \in DOMAIN after :
             /\ after[x].balance # 0
             /\ Published(table, x, m.funding_timestamp, after[x].cached_funding_index)
    BY <1>1, AddAssetKeepsAssets DEF ReachesTarget
  <1>3. /\ ResultKey(pos, req) \in PublicKeys
        /\ ResultKey(pos, req) \in {req.public_key, pos.public_key}
        /\ pos.public_key # NoKey => ResultKey(pos, req) = pos.public_key
    BY <1>1 DEF ReachesTarget, KeyAccepted, ResultKey, check_request_public_key,
                PositionInv, IsPosition
  <1>4. check_valid_balance(target.collateral_balance)
        /\ target.collateral_balance \in Int
    BY BoundsAssumption DEF ReachesTarget, check_valid_balance
  <1>5. IsPosition(target)
    BY <1>2, <1>3, <1>4 DEF IsPosition, PositionInv
  <1>6. target.public_key # NoKey
    BY <1>3, NamesAssumption
  <1>7. Held(target) = DOMAIN after
    BY DEF Held
  <1>8. PositionWithinLimits(target)
    <2>1. \A a \in Held(target) : abs_value(target.assets[a].balance) < BALANCE_UPPER_BOUND
      <3>1. CASE IsEmpty(target)
        BY <3>1 DEF IsEmpty
      <3>2. CASE ~ IsEmpty(target)
        BY <3>2 DEF HasStatus, Target, create_maybe_empty_position
      <3> QED
        BY <3>1, <3>2
    <2> QED
      BY <1>2, <1>4, <1>7, <2>1 DEF PositionWithinLimits
  <1>9. PositionInv(create_maybe_empty_position(target), m, table)
    <2> HIDE DEF after
    <2>1. \A a \in Held(target) :
            Published(table, a, target.funding_timestamp, target.assets[a].cached_funding_index)
      BY <1>2, <1>7
    <2>2. Held(target) \subseteq DOMAIN m.indices \cap DOMAIN m.prices
      BY <1>2, <1>7
    <2> HIDE DEF target
    <2> QED
      BY <1>5, <1>6, <1>8, <2>1, <2>2, MaybeEmptyKeepsPosition
  <1>10. create_maybe_empty_position(target) = Target(pos, req, m)
    BY DEF Target
  <1>11. create_maybe_empty_position(target).public_key \in {ResultKey(pos, req), NoKey}
    BY DEF create_maybe_empty_position, EmptyPosition
  <1> QED
    BY <1>3, <1>9, <1>10, <1>11

\* update_position, whatever its outcome, returns well formed positions, and
\* only an empty one changes hands.
LEMMA UpdateKeepsPosition ==
  ASSUME NEW pos, NEW m, NEW table, MarketInv(m, table), PositionInv(pos, m, table),
         NEW req \in Request, NEW result, result = update_position(pos, req, m)
  PROVE  /\ PositionInv(result.updated_position, m, table)
         /\ PositionInv(result.funded_position, m, table)
         /\ result.funded_position.public_key = pos.public_key
         /\ result.updated_position.public_key \in {req.public_key, pos.public_key, NoKey}
         /\ pos.public_key # NoKey =>
              result.updated_position.public_key \in {pos.public_key, NoKey}
PROOF
  <1>1. CASE ~ (CanFund(pos, m) /\ (req.synthetic_asset_id = NoAsset => req.synthetic_delta = 0))
    <2>1. result.updated_position = pos /\ result.funded_position = pos
      BY <1>1 DEF update_position
    <2> QED
      BY <2>1
  <1>2. CASE CanFund(pos, m) /\ (req.synthetic_asset_id = NoAsset => req.synthetic_delta = 0)
    <2> DEFINE funded == position_apply_funding(pos, m)
    <2>1. PositionInv(funded, m, table)
      BY <1>2, FundingKeepsPosition
    <2>2. funded.funding_timestamp = m.funding_timestamp /\ funded.public_key = pos.public_key
      BY DEF position_apply_funding
    <2>3. result = UpdateFunded(funded, req, m)
      BY <1>2 DEF update_position
    <2> HIDE DEF funded
    <2>4. /\ result.funded_position = funded
          /\ \/ result.updated_position = funded
             \/ /\ result.updated_position = Target(funded, req, m)
                /\ is_asset_id_tradable(req.synthetic_asset_id, m)
                /\ ReachesTarget(funded, req, m)
                /\ HasStatus(Target(funded, req, m), m.prices)
      BY <2>3 DEF UpdateFunded, TransitionIsDefined
    <2> QED
      BY <1>2, <2>1, <2>2, <2>4, TargetKeepsPosition
  <1> QED
    BY <1>1, <1>2

-----------------------------------------------------------------------------
(* Lemmas about the dictionary of positions.                               *)

DictInv(dict, m, table) ==
  /\ dict = [p \in PositionIds |-> dict[p]]
  /\ \A p \in PositionIds : PositionInv(dict[p], m, table)

\* Storing a well formed position under any id keeps the dictionary well formed.
LEMMA ReplaceKeepsDict ==
  ASSUME NEW dict, NEW m, NEW table, DictInv(dict, m, table),
         NEW id \in PositionIds, NEW pos, PositionInv(pos, m, table)
  PROVE  DictInv([dict EXCEPT ![id] = pos], m, table)
BY DEF DictInv

\* An update keeps the dictionary well formed whichever of its positions the
\* transaction stores, and the owner of the position it is applied to.
LEMMA UpdateKeepsDict ==
  ASSUME NEW dict, NEW m, NEW table, MarketInv(m, table), DictInv(dict, m, table),
         NEW id \in PositionIds, NEW req \in Request,
         NEW result, result = update_position(dict[id], req, m)
  PROVE  /\ DictInv([dict EXCEPT ![id] = result.updated_position], m, table)
         /\ PositionInv(result.updated_position, m, table)
         /\ PositionInv(result.funded_position, m, table)
         /\ KeepsOwner(dict[id], result.updated_position)
         /\ KeepsOwner(dict[id], result.funded_position)
         /\ result.updated_position.public_key \in {req.public_key, dict[id].public_key, NoKey}
PROOF
  <1>1. PositionInv(dict[id], m, table)
    BY DEF DictInv
  <1> QED
    BY <1>1, UpdateKeepsPosition, ReplaceKeepsDict DEF KeepsOwner

\* The requests that the transactions make are well formed.
LEMMA CollateralRequestType ==
  ASSUME NEW key \in PublicKeys \cup {NoKey}, NEW delta \in Int
  PROVE  CollateralRequest(key, delta) \in Request
BY DEF CollateralRequest, Request

\* So is the request of a limit order's party.
LEMMA LimitOrderRequestType ==
  ASSUME NEW o \in LimitOrder, NEW c \in Int, NEW s \in Int, NEW f \in Int
  PROVE  LimitOrderRequest(o, c, s, f) \in Request
BY DEF LimitOrderRequest, LimitOrder, Request

\* An order's execution touches the order's position and the fee position.
LEMMA LimitOrderKeepsDict ==
  ASSUME NEW dict, NEW table, MarketInv(market, table), DictInv(dict, market, table),
         NEW o \in LimitOrder, NEW c \in Int, NEW s \in Int, NEW f \in Int,
         o.position_id # FeePositionId,
         NEW new, new = execute_limit_order(dict, o, c, s, f).positions_dict
  PROVE  /\ DictInv(new, market, table)
         /\ KeepsOwner(dict[o.position_id], new[o.position_id])
         /\ new[FeePositionId].public_key \in
              {FeePublicKey, dict[FeePositionId].public_key, NoKey}
         /\ \A p \in PositionIds \ {FeePositionId, o.position_id} : new[p] = dict[p]
PROOF
  <1> DEFINE fee_update == update_position(dict[FeePositionId],
                                           CollateralRequest(FeePublicKey, f), market)
             with_fee == [dict EXCEPT ![FeePositionId] = fee_update.updated_position]
             update == update_position(with_fee[o.position_id],
                                       LimitOrderRequest(o, c, s, f), market)
  <1>1. FeePositionId \in PositionIds /\ FeePublicKey \in PublicKeys /\ o.position_id \in PositionIds
    BY ConfigAssumption DEF LimitOrder
  <1>2. new = [with_fee EXCEPT ![o.position_id] = update.updated_position]
    BY DEF execute_limit_order
  <1>3. CollateralRequest(FeePublicKey, f) \in Request /\ LimitOrderRequest(o, c, s, f) \in Request
    BY <1>1, CollateralRequestType, LimitOrderRequestType
  <1>4. CollateralRequest(FeePublicKey, f).public_key = FeePublicKey
    BY DEF CollateralRequest
  <1>5. /\ DictInv(with_fee, market, table)
        /\ fee_update.updated_position.public_key \in
             {FeePublicKey, dict[FeePositionId].public_key, NoKey}
    BY <1>1, <1>3, <1>4, UpdateKeepsDict
  <1>6. /\ with_fee[o.position_id] = dict[o.position_id]
        /\ with_fee[FeePositionId] = fee_update.updated_position
    BY <1>1 DEF DictInv
  <1> HIDE DEF fee_update, with_fee, update
  <1>7. /\ DictInv(new, market, table)
        /\ KeepsOwner(with_fee[o.position_id], update.updated_position)
    <2>1. update = update_position(with_fee[o.position_id], LimitOrderRequest(o, c, s, f), market)
      BY DEF update
    <2> DEFINE id == o.position_id
               req == LimitOrderRequest(o, c, s, f)
    <2>2. id \in PositionIds /\ req \in Request /\ DictInv(with_fee, market, table)
          /\ update = update_position(with_fee[id], req, market)
      BY <1>1, <1>3, <1>5, <2>1
    <2> HIDE DEF id, req
    <2>3. /\ DictInv([with_fee EXCEPT ![id] = update.updated_position], market, table)
          /\ KeepsOwner(with_fee[id], update.updated_position)
      BY <2>2, UpdateKeepsDict
    <2> QED
      BY <1>2, <2>3 DEF id
  <1>8. /\ new[o.position_id] = update.updated_position
        /\ \A p \in PositionIds \ {o.position_id} : new[p] = with_fee[p]
    BY <1>1, <1>2, <1>5 DEF DictInv
  <1>9. \A p \in PositionIds \ {FeePositionId} : with_fee[p] = dict[p]
    BY <1>1 DEF with_fee, DictInv
  <1> QED
    BY <1>1, <1>5, <1>6, <1>7, <1>8, <1>9

-----------------------------------------------------------------------------
(* The inductive invariant: TypeOK, KeyIffNonEmpty, PositionsWithinLimits, *)
(* HeldAssetsAreListed, CachedIndicesPublished and LatestEntryIsGlobal,    *)
(* grouped by the state they speak of.                                     *)

OrdersInv(fulfilled) == fulfilled \in [OrderIds -> 0 .. AMOUNT_UPPER_BOUND - 1]

GlobalsInv ==
  /\ IsFundingIndicesInfo(global_funding_indices)
  /\ IsPartial(oracle_prices, Nat \ {0})
  /\ system_time \in Nat
  /\ \A info \in funding_indices_table : IsFundingIndicesInfo(info)
  /\ LatestEntryIsGlobal

IndInv ==
  /\ DictInv(positions_dict, market, funding_indices_table)
  /\ OrdersInv(orders_dict)
  /\ GlobalsInv
  /\ modifications \in Int

\* The inductive invariant regroups these invariants, each of which TLC checks.
LEMMA IndInvImplies ==
  IndInv => /\ TypeOK
            /\ KeyIffNonEmpty
            /\ PositionsWithinLimits
            /\ HeldAssetsAreListed
            /\ CachedIndicesPublished
BY DEF IndInv, DictInv, PositionInv, OrdersInv, GlobalsInv, TypeOK, KeyIffNonEmpty,
       PositionsWithinLimits, HeldAssetsAreListed, CachedIndicesPublished, market

\* The carried state's own indices can be looked up in the table.
LEMMA MarketIsPublished ==
  ASSUME GlobalsInv
  PROVE  MarketInv(market, funding_indices_table)
PROOF
  <1>1. IsMarket(market)
    BY DEF GlobalsInv, IsFundingIndicesInfo, IsMarket, market
  <1>2. ASSUME NEW a \in DOMAIN market.indices
        PROVE  Published(funding_indices_table, a, market.funding_timestamp, market.indices[a])
    BY <1>2 DEF GlobalsInv, LatestEntryIsGlobal, Published, market
  <1> QED
    BY <1>1, <1>2 DEF MarketInv

\* Filling an order keeps its fulfilled amount below AMOUNT_UPPER_BOUND.
LEMMA FulfillmentKeepsOrders ==
  ASSUME NEW fulfilled, OrdersInv(fulfilled), NEW id \in OrderIds,
         NEW amount \in Int, NEW full \in Int, CanFulfill(fulfilled, id, amount, full)
  PROVE  OrdersInv(update_order_fulfillment(fulfilled, id, amount))
PROOF
  <1>1. fulfilled[id] + amount \in 0 .. AMOUNT_UPPER_BOUND - 1
    BY ConfigAssumption DEF OrdersInv, CanFulfill
  <1> QED
    BY <1>1 DEF OrdersInv, update_order_fulfillment

\* The exchange starts in a state of the inductive invariant.
LEMMA InitHolds ==
  ASSUME Init
  PROVE  IndInv
PROOF
  <1>1. PositionInv(EmptyPosition, market, funding_indices_table)
    BY EmptyPositionHolds
  <1>2. DictInv(positions_dict, market, funding_indices_table)
    BY <1>1 DEF Init, DictInv
  <1>3. OrdersInv(orders_dict)
    BY ConfigAssumption DEF Init, OrdersInv
  <1>4. IsFundingIndicesInfo(NoIndices)
    BY DEF IsFundingIndicesInfo, IsPartial, NoIndices
  <1>5. GlobalsInv
    <2>1. IsPartial(oracle_prices, Nat \ {0})
      BY DEF Init, IsPartial
    <2>2. LatestEntryIsGlobal
      BY DEF Init, LatestEntryIsGlobal, NoIndices
    <2> QED
      BY <1>4, <2>1, <2>2 DEF Init, GlobalsInv
  <1> QED
    BY <1>2, <1>3, <1>5 DEF Init, IndInv

-----------------------------------------------------------------------------
(* The ticks.                                                              *)

\* A tick at the time of the latest indices cannot change them, for the
\* largest change of an index is in proportion to the time that passed.
LEMMA TickAtSameTime ==
  ASSUME GlobalsInv, NEW new, IsFundingIndicesInfo(new), validate_funding_tick(new),
         new.funding_timestamp = global_funding_indices.funding_timestamp,
         NEW a \in DOMAIN global_funding_indices.indices
  PROVE  new.indices[a] = global_funding_indices.indices[a]
PROOF
  <1> DEFINE diff == new.indices[a] - global_funding_indices.indices[a]
  <1>1. a \in DOMAIN new.indices \cap DOMAIN oracle_prices
    BY DEF validate_funding_tick
  <1>2. new.indices[a] \in Int /\ global_funding_indices.indices[a] \in Int
        /\ oracle_prices[a] \in Nat
    BY <1>1 DEF GlobalsInv, IsFundingIndicesInfo, IsPartial
  <1>3. new.funding_timestamp - global_funding_indices.funding_timestamp = 0
    BY DEF GlobalsInv, IsFundingIndicesInfo
  <1>4. abs_value(diff) * FXP_32_ONE <= MaxFundingRate * oracle_prices[a] * 0
    BY <1>3 DEF validate_funding_tick, validate_funding_index_diff_in_range
  <1>5. MaxFundingRate * oracle_prices[a] * 0 = 0
    BY <1>2, ConfigAssumption
  <1>6. abs_value(diff) \in Nat /\ (abs_value(diff) = 0 => diff = 0)
    BY <1>2 DEF abs_value
  <1>7. abs_value(diff) = 0
    <2> HIDE DEF diff
    <2> QED
      BY <1>4, <1>5, <1>6, BoundsAssumption
  <1> QED
    BY <1>2, <1>6, <1>7

\* A funding tick keeps what is cached published and what is held listed.
LEMMA FundingTickKeepsInv ==
  ASSUME IndInv, NEW new, IsFundingIndicesInfo(new), FundingTick(new)
  PROVE  IndInv'
PROOF
  <1> DEFINE old == global_funding_indices
             table == funding_indices_table
  <1>1. /\ system_time <= new.funding_timestamp /\ validate_funding_tick(new)
        /\ global_funding_indices' = new /\ system_time' = new.funding_timestamp
        /\ funding_indices_table' = table \cup {new}
        /\ positions_dict' = positions_dict /\ orders_dict' = orders_dict
        /\ oracle_prices' = oracle_prices /\ modifications' = modifications
    BY DEF FundingTick, orders
  <1>2. GlobalsInv /\ DictInv(positions_dict, market, table)
    BY DEF IndInv
  <1>3. /\ old.funding_timestamp \in Nat /\ new.funding_timestamp \in Nat /\ system_time \in Nat
        /\ \A info \in table : info.funding_timestamp \in Nat
    BY <1>2 DEF GlobalsInv, IsFundingIndicesInfo
  <1>4. /\ old \in table /\ old.funding_timestamp <= new.funding_timestamp
        /\ \A info \in table : info.funding_timestamp <= old.funding_timestamp
    BY <1>1, <1>2, <1>3 DEF GlobalsInv, LatestEntryIsGlobal
  <1>5. DOMAIN old.indices \subseteq DOMAIN new.indices
    BY <1>1 DEF validate_funding_tick
  <1>6. new.funding_timestamp = old.funding_timestamp =>
          \A a \in DOMAIN old.indices : new.indices[a] = old.indices[a]
    BY <1>1, <1>2, TickAtSameTime
  <1>7. GlobalsInv'
    <2>1. LatestEntryIsGlobal'
      BY <1>1, <1>2, <1>3, <1>4, <1>5, <1>6 DEF GlobalsInv, LatestEntryIsGlobal
    <2> QED
      BY <1>1, <1>2, <1>3, <2>1 DEF GlobalsInv
  <1>8. ASSUME NEW p \in PositionIds
        PROVE  PositionInv(positions_dict[p], market', table \cup {new})
    <2> DEFINE pos == positions_dict[p]
    <2>1. PositionInv(pos, market, table)
      BY <1>2 DEF DictInv
    <2>2. Held(pos) \subseteq DOMAIN old.indices \cap DOMAIN oracle_prices
      BY <2>1 DEF PositionInv, market
    <2>3. market'.indices = new.indices /\ market'.prices = oracle_prices
      BY <1>1 DEF market
    <2>4. Held(pos) \subseteq DOMAIN market'.indices \cap DOMAIN market'.prices
      BY <1>5, <2>2, <2>3
    <2>5. ASSUME NEW a \in Held(pos)
          PROVE  Published(table \cup {new}, a, pos.funding_timestamp,
                           pos.assets[a].cached_funding_index)
      <3>1. Published(table, a, pos.funding_timestamp, pos.assets[a].cached_funding_index)
        BY <2>1, <2>5 DEF PositionInv
      <3>2. PICK info \in table : /\ info.funding_timestamp = pos.funding_timestamp
                                  /\ a \in DOMAIN info.indices
        BY <3>1 DEF Published
      <3>3. ASSUME new.funding_timestamp = pos.funding_timestamp
            PROVE  new.indices[a] = pos.assets[a].cached_funding_index
        <4>1. old.funding_timestamp = pos.funding_timestamp
          BY <1>3, <1>4, <3>2, <3>3
        <4>2. old.indices[a] = pos.assets[a].cached_funding_index
          BY <1>4, <2>2, <3>1, <4>1 DEF Published
        <4> QED
          BY <1>6, <2>2, <3>3, <4>1, <4>2
      <3> QED
        BY <3>1, <3>3 DEF Published
    <2> QED
      BY <2>1, <2>4, <2>5 DEF PositionInv
  <1>9. DictInv(positions_dict, market', table \cup {new})
    BY <1>2, <1>8 DEF DictInv
  <1> QED
    BY <1>1, <1>7, <1>9 DEF IndInv, OrdersInv

\* A prices tick takes no price away.
LEMMA OraclePricesTickKeepsInv ==
  ASSUME IndInv, NEW assets \in SUBSET Assets, NEW prices \in [assets -> PriceValues],
         NEW time \in Nat, OraclePricesTick(prices, time)
  PROVE  IndInv'
PROOF
  <1>1. /\ system_time <= time /\ system_time' = time
        /\ oracle_prices' = [a \in DOMAIN prices \cup DOMAIN oracle_prices |->
                               IF a \in DOMAIN prices THEN prices[a] ELSE oracle_prices[a]]
        /\ global_funding_indices' = global_funding_indices
        /\ funding_indices_table' = funding_indices_table
        /\ positions_dict' = positions_dict /\ orders_dict' = orders_dict
        /\ modifications' = modifications
    BY DEF OraclePricesTick, orders, outputs
  <1>2. GlobalsInv /\ DictInv(positions_dict, market, funding_indices_table)
    BY DEF IndInv
  <1>3. IsPartial(oracle_prices', Nat \ {0}) /\ DOMAIN oracle_prices \subseteq DOMAIN oracle_prices'
    <2>1. PriceValues \subseteq Nat \ {0}
      BY RequestsAssumption
    <2> QED
      BY <1>1, <1>2, <2>1 DEF GlobalsInv, IsPartial
  <1>4. GlobalsInv'
    <2>1. LatestEntryIsGlobal'
      BY <1>1, <1>2 DEF GlobalsInv, IsFundingIndicesInfo, LatestEntryIsGlobal
    <2> QED
      BY <1>1, <1>2, <1>3, <2>1 DEF GlobalsInv
  <1>5. ASSUME NEW p \in PositionIds
        PROVE  PositionInv(positions_dict[p], market', funding_indices_table)
    <2>1. PositionInv(positions_dict[p], market, funding_indices_table)
      BY <1>2 DEF DictInv
    <2>2. market'.indices = market.indices /\ market.prices = oracle_prices
          /\ market'.prices = oracle_prices'
      BY <1>1 DEF market
    <2> QED
      BY <1>3, <2>1, <2>2 DEF PositionInv
  <1> QED
    BY <1>1, <1>2, <1>4, <1>5 DEF IndInv, OrdersInv, DictInv

-----------------------------------------------------------------------------
(* The transactions of the users.  Each leaves the market and the table    *)
(* alone, so it is enough to follow the positions and the orders.          *)

Settles(dict) ==
  DictInv(dict, market, funding_indices_table) /\ OwnersKept(positions_dict, dict)

\* Deposits and withdrawals.
LEMMA ChangeCollateralSettles ==
  ASSUME IndInv, NEW id \in PositionIds, NEW key \in PublicKeys \cup {NoKey}, NEW delta \in Int,
         ChangeCollateral(id, key, delta)
  PROVE  Settles(positions_dict')
PROOF
  <1> DEFINE update == update_position(positions_dict[id], CollateralRequest(key, delta), market)
  <1>1. MarketInv(market, funding_indices_table)
        /\ DictInv(positions_dict, market, funding_indices_table)
    BY MarketIsPublished DEF IndInv
  <1>2. positions_dict' = [positions_dict EXCEPT ![id] = update.updated_position]
    BY DEF ChangeCollateral
  <1>3. DictInv(positions_dict', market, funding_indices_table)
        /\ KeepsOwner(positions_dict[id], update.updated_position)
    BY <1>1, <1>2, CollateralRequestType, UpdateKeepsDict
  <1> HIDE DEF update
  <1>4. OwnersKept(positions_dict, positions_dict')
    BY <1>1, <1>2, <1>3 DEF OwnersKept, KeepsOwner, DictInv
  <1> QED
    BY <1>3, <1>4 DEF Settles

\* Transfers, conditional or not.
LEMMA MoveCollateralSettles ==
  ASSUME IndInv, NEW tx \in SignedTransfer, MoveCollateral(tx)
  PROVE  Settles(positions_dict') /\ OrdersInv(orders_dict')
PROOF
  <1> DEFINE sender == tx.sender_position_id
             receiver == tx.receiver_position_id
             send == CollateralRequest(tx.public_key, -tx.amount)
             receive == CollateralRequest(tx.receiver_public_key, tx.amount)
             sent == update_position(positions_dict[sender], send, market)
             dict == [positions_dict EXCEPT ![sender] = sent.updated_position]
             received == update_position(dict[receiver], receive, market)
  <1>1. MarketInv(market, funding_indices_table)
        /\ DictInv(positions_dict, market, funding_indices_table)
    BY MarketIsPublished DEF IndInv
  <1>2. /\ sender \in PositionIds /\ receiver \in PositionIds /\ tx.order_id \in OrderIds
        /\ tx.amount \in Int /\ tx.public_key \in PublicKeys
        /\ tx.receiver_public_key \in PublicKeys \cup {NoKey}
    BY DEF SignedTransfer
  <1>3. /\ sender # receiver
        /\ positions_dict' = [dict EXCEPT ![receiver] = received.updated_position]
        /\ CanFulfill(orders_dict, tx.order_id, tx.amount, tx.amount)
        /\ orders_dict' = update_order_fulfillment(orders_dict, tx.order_id, tx.amount)
    BY DEF MoveCollateral
  <1>4. send \in Request /\ receive \in Request
    BY <1>2, CollateralRequestType
  <1> HIDE DEF sender, receiver, send, receive
  <1>5. DictInv(dict, market, funding_indices_table)
        /\ KeepsOwner(positions_dict[sender], sent.updated_position)
    BY <1>1, <1>2, <1>4, UpdateKeepsDict
  <1>6. dict[receiver] = positions_dict[receiver]
    BY <1>2, <1>3, <1>1 DEF DictInv
  <1>7. \A p \in PositionIds : dict[p] = IF p = sender THEN sent.updated_position
                                                       ELSE positions_dict[p]
    BY <1>1 DEF DictInv
  <1> HIDE DEF sent, dict
  <1>8. DictInv(positions_dict', market, funding_indices_table)
        /\ KeepsOwner(dict[receiver], received.updated_position)
    BY <1>1, <1>2, <1>3, <1>4, <1>5, UpdateKeepsDict
  <1> HIDE DEF received
  <1>9. OwnersKept(positions_dict, positions_dict')
    BY <1>3, <1>5, <1>6, <1>7, <1>8 DEF OwnersKept, KeepsOwner, DictInv
  <1>10. OrdersInv(orders_dict')
    BY <1>2, <1>3, FulfillmentKeepsOrders DEF IndInv
  <1> QED
    BY <1>8, <1>9, <1>10 DEF Settles

\* Trades, in which the fee position and both parties are updated in turn.
LEMMA TradeSettles ==
  ASSUME IndInv, NEW a \in LimitOrder, NEW b \in LimitOrder, NEW c \in Int, NEW s \in Int,
         NEW f \in Int, NEW g \in Int, Trade(a, b, c, s, f, g)
  PROVE  Settles(positions_dict') /\ OrdersInv(orders_dict')
PROOF
  <1> DEFINE bought == execute_limit_order(positions_dict, a, c, s, f).positions_dict
             fulfilled == update_order_fulfillment(orders_dict, a.order_id, s)
  <1>1. MarketInv(market, funding_indices_table)
        /\ DictInv(positions_dict, market, funding_indices_table)
    BY MarketIsPublished DEF IndInv
  <1>2. /\ a.position_id \in PositionIds /\ b.position_id \in PositionIds
        /\ FeePositionId \in PositionIds
        /\ a.order_id \in OrderIds /\ b.order_id \in OrderIds
        /\ a.amount_synthetic \in Int /\ b.amount_synthetic \in Int
    BY ConfigAssumption DEF LimitOrder
  <1>3. /\ a.position_id # b.position_id
        /\ a.position_id # FeePositionId /\ b.position_id # FeePositionId
        /\ positions_dict' = execute_limit_order(bought, b, c, s, g).positions_dict
        /\ CanFulfill(orders_dict, a.order_id, s, a.amount_synthetic)
        /\ CanFulfill(fulfilled, b.order_id, s, b.amount_synthetic)
        /\ orders_dict' = update_order_fulfillment(fulfilled, b.order_id, s)
    BY DEF Trade, CanFillLimitOrder
  <1>4. /\ DictInv(bought, market, funding_indices_table)
        /\ KeepsOwner(positions_dict[a.position_id], bought[a.position_id])
        /\ bought[FeePositionId].public_key \in
             {FeePublicKey, positions_dict[FeePositionId].public_key, NoKey}
        /\ \A p \in PositionIds \ {FeePositionId, a.position_id} : bought[p] = positions_dict[p]
    BY <1>1, <1>3, LimitOrderKeepsDict
  <1> HIDE DEF bought
  <1>5. /\ DictInv(positions_dict', market, funding_indices_table)
        /\ KeepsOwner(bought[b.position_id], positions_dict'[b.position_id])
        /\ positions_dict'[FeePositionId].public_key \in
             {FeePublicKey, bought[FeePositionId].public_key, NoKey}
        /\ \A p \in PositionIds \ {FeePositionId, b.position_id} : positions_dict'[p] = bought[p]
    BY <1>1, <1>3, <1>4, LimitOrderKeepsDict
  <1>6. OwnersKept(positions_dict, positions_dict')
    <2> SUFFICES ASSUME NEW p \in PositionIds
                 PROVE  \/ KeepsOwner(positions_dict[p], positions_dict'[p])
                        \/ p = FeePositionId /\ positions_dict'[p].public_key = FeePublicKey
      BY DEF OwnersKept
    <2>1. CASE p = FeePositionId
      BY <1>4, <1>5, <2>1 DEF KeepsOwner
    <2>2. CASE p # FeePositionId
      BY <1>2, <1>3, <1>4, <1>5, <2>2 DEF KeepsOwner
    <2> QED
      BY <2>1, <2>2
  <1>7. OrdersInv(fulfilled)
    BY <1>2, <1>3, FulfillmentKeepsOrders DEF IndInv
  <1>8. OrdersInv(orders_dict')
    BY <1>2, <1>3, <1>7, FulfillmentKeepsOrders
  <1> QED
    BY <1>5, <1>6, <1>8 DEF Settles

\* Forced withdrawals, executed or shown to be invalid.
LEMMA ForcedWithdrawalSettles ==
  ASSUME IndInv, NEW tx \in Collateral, NEW is_valid \in BOOLEAN, ForcedWithdrawal(tx, is_valid)
  PROVE  Settles(positions_dict')
PROOF
  <1> DEFINE id == tx.position_id
             req == CollateralRequest(tx.public_key, -tx.amount)
             update == update_position(positions_dict[id], req, market)
  <1>1. MarketInv(market, funding_indices_table)
        /\ DictInv(positions_dict, market, funding_indices_table)
    BY MarketIsPublished DEF IndInv
  <1>2. id \in PositionIds /\ req \in Request
    BY CollateralRequestType DEF Collateral
  <1>3. positions_dict' = [positions_dict EXCEPT ![id] = update.updated_position]
    BY DEF ForcedWithdrawal
  <1> HIDE DEF id, req
  <1>4. DictInv(positions_dict', market, funding_indices_table)
        /\ KeepsOwner(positions_dict[id], update.updated_position)
    BY <1>1, <1>2, <1>3, UpdateKeepsDict
  <1> HIDE DEF update
  <1>5. OwnersKept(positions_dict, positions_dict')
    BY <1>1, <1>3, <1>4 DEF OwnersKept, KeepsOwner, DictInv
  <1> QED
    BY <1>4, <1>5 DEF Settles

\* Forced trades, executed or shown to be invalid.
LEMMA ForcedTradeSettles ==
  ASSUME IndInv, NEW tx \in ForcedTrade, NEW is_valid \in BOOLEAN, ExecuteForcedTrade(tx, is_valid)
  PROVE  Settles(positions_dict')
PROOF
  <1> DEFINE id_a == tx.position_id_a
             id_b == tx.position_id_b
             req_a == ForcedTradeRequest(tx, TRUE)
             req_b == ForcedTradeRequest(tx, FALSE)
             a == update_position(positions_dict[id_a], req_a, market)
             b == update_position(positions_dict[id_b], req_b, market)
             after_a == try_to_trade(a, b)
             after_b == try_to_trade(b, a)
  <1>1. MarketInv(market, funding_indices_table)
        /\ DictInv(positions_dict, market, funding_indices_table)
    BY MarketIsPublished DEF IndInv
  <1>2. id_a \in PositionIds /\ id_b \in PositionIds
    BY DEF ForcedTrade
  <1>3. req_a \in Request /\ req_b \in Request
    BY DEF ForcedTrade, ForcedTradeRequest, Request
  <1>4. /\ id_a # id_b
        /\ positions_dict' = [positions_dict EXCEPT ![id_a] = after_a, ![id_b] = after_b]
    BY DEF ExecuteForcedTrade
  <1> HIDE DEF id_a, id_b, req_a, req_b
  <1>5. PositionInv(after_a, market, funding_indices_table)
        /\ KeepsOwner(positions_dict[id_a], after_a)
    <2> HIDE DEF b
    <2> QED
      BY <1>1, <1>2, <1>3, UpdateKeepsDict DEF try_to_trade
  <1>6. PositionInv(after_b, market, funding_indices_table)
        /\ KeepsOwner(positions_dict[id_b], after_b)
    <2> HIDE DEF a
    <2> QED
      BY <1>1, <1>2, <1>3, UpdateKeepsDict DEF try_to_trade
  <1> HIDE DEF after_a, after_b
  <1>7. DictInv(positions_dict', market, funding_indices_table)
    BY <1>1, <1>2, <1>4, <1>5, <1>6 DEF DictInv
  <1>8. OwnersKept(positions_dict, positions_dict')
    BY <1>1, <1>2, <1>4, <1>5, <1>6 DEF OwnersKept, KeepsOwner, DictInv
  <1> QED
    BY <1>7, <1>8 DEF Settles

\* Liquidations.  The liquidated position may be the fee position, which the
\* liquidator's order then credits.
LEMMA LiquidateSettles ==
  ASSUME IndInv, NEW o \in LimitOrder, NEW id \in PositionIds, NEW c \in Int, NEW s \in Int,
         NEW f \in Int, Liquidate(o, id, c, s, f)
  PROVE  Settles(positions_dict') /\ OrdersInv(orders_dict')
PROOF
  <1> DEFINE funded == position_apply_funding(positions_dict[id], market)
             req == LiquidatedRequest(funded, o, c, s)
             liquidated == update_position(funded, req, market)
             dict == [positions_dict EXCEPT ![id] = liquidated.updated_position]
  <1>1. MarketInv(market, funding_indices_table)
        /\ DictInv(positions_dict, market, funding_indices_table)
    BY MarketIsPublished DEF IndInv
  <1>2. /\ o.position_id \in PositionIds /\ FeePositionId \in PositionIds
        /\ o.order_id \in OrderIds /\ o.amount_synthetic \in Int
    BY ConfigAssumption DEF LimitOrder
  <1>3. /\ o.position_id # id /\ o.position_id # FeePositionId
        /\ CanFund(positions_dict[id], market)
        /\ CanFulfill(orders_dict, o.order_id, s, o.amount_synthetic)
        /\ positions_dict' = execute_limit_order(dict, o, c, s, f).positions_dict
        /\ orders_dict' = update_order_fulfillment(orders_dict, o.order_id, s)
    BY DEF Liquidate, CanFillLimitOrder
  <1>4. /\ PositionInv(funded, market, funding_indices_table)
        /\ funded.public_key = positions_dict[id].public_key
    BY <1>1, <1>3, FundingKeepsPosition DEF DictInv, position_apply_funding
  <1>5. req \in Request
    <2>1. funded.public_key \in PublicKeys \cup {NoKey}
      BY <1>4 DEF PositionInv, IsPosition
    <2> HIDE DEF funded
    <2> QED
      BY <2>1 DEF LiquidatedRequest, LimitOrder, Request
  <1> HIDE DEF funded, req
  <1>6. /\ PositionInv(liquidated.updated_position, market, funding_indices_table)
        /\ KeepsOwner(positions_dict[id], liquidated.updated_position)
    BY <1>1, <1>4, <1>5, UpdateKeepsPosition DEF KeepsOwner
  <1> HIDE DEF liquidated
  <1>7. /\ DictInv(dict, market, funding_indices_table)
        /\ \A p \in PositionIds : dict[p] = IF p = id THEN liquidated.updated_position
                                                      ELSE positions_dict[p]
    BY <1>1, <1>6, ReplaceKeepsDict DEF DictInv
  <1> HIDE DEF dict
  <1>8. /\ DictInv(positions_dict', market, funding_indices_table)
        /\ KeepsOwner(dict[o.position_id], positions_dict'[o.position_id])
        /\ positions_dict'[FeePositionId].public_key \in
             {FeePublicKey, dict[FeePositionId].public_key, NoKey}
        /\ \A p \in PositionIds \ {FeePositionId, o.position_id} : positions_dict'[p] = dict[p]
    BY <1>1, <1>3, <1>7, LimitOrderKeepsDict
  <1>9. OwnersKept(positions_dict, positions_dict')
    <2> SUFFICES ASSUME NEW p \in PositionIds
                 PROVE  \/ KeepsOwner(positions_dict[p], positions_dict'[p])
                        \/ p = FeePositionId /\ positions_dict'[p].public_key = FeePublicKey
      BY DEF OwnersKept
    <2>1. CASE p = FeePositionId
      BY <1>6, <1>7, <1>8, <2>1 DEF KeepsOwner
    <2>2. CASE p # FeePositionId
      BY <1>2, <1>3, <1>6, <1>7, <1>8, <2>2 DEF KeepsOwner
    <2> QED
      BY <2>1, <2>2
  <1>10. OrdersInv(orders_dict')
    BY <1>2, <1>3, FulfillmentKeepsOrders DEF IndInv
  <1> QED
    BY <1>8, <1>9, <1>10 DEF Settles

\* Deleverages, whose updates are keyless.
LEMMA DeleverageSettles ==
  ASSUME IndInv, NEW id \in PositionIds, NEW other \in PositionIds, NEW a \in Assets,
         NEW buying \in BOOLEAN, NEW c \in Int, NEW s \in Int,
         Deleverage(id, other, a, buying, c, s)
  PROVE  Settles(positions_dict')
PROOF
  <1> DEFINE req == KeylessRequest(a, ~ buying, c, s)
             other_req == KeylessRequest(a, buying, c, s)
             deleveragable == update_position(positions_dict[id], req, market)
             dict == [positions_dict EXCEPT ![id] = deleveragable.updated_position]
             deleverager == update_position(dict[other], other_req, market)
  <1>1. MarketInv(market, funding_indices_table)
        /\ DictInv(positions_dict, market, funding_indices_table)
    BY MarketIsPublished DEF IndInv
  <1>2. /\ id # other
        /\ positions_dict' = [dict EXCEPT ![other] = deleverager.updated_position]
    BY DEF Deleverage
  <1>3. req \in Request /\ other_req \in Request
    BY DEF KeylessRequest, Request
  <1> HIDE DEF req, other_req
  <1>4. DictInv(dict, market, funding_indices_table)
        /\ KeepsOwner(positions_dict[id], deleveragable.updated_position)
    BY <1>1, <1>3, UpdateKeepsDict
  <1>5. \A p \in PositionIds : dict[p] = IF p = id THEN deleveragable.updated_position
                                                   ELSE positions_dict[p]
    BY <1>1 DEF DictInv
  <1> HIDE DEF deleveragable, dict
  <1>6. DictInv(positions_dict', market, funding_indices_table)
        /\ KeepsOwner(dict[other], deleverager.updated_position)
    BY <1>1, <1>2, <1>3, <1>4, UpdateKeepsDict
  <1> HIDE DEF deleverager
  <1>7. OwnersKept(positions_dict, positions_dict')
    BY <1>2, <1>4, <1>5, <1>6 DEF OwnersKept, KeepsOwner, DictInv
  <1> QED
    BY <1>6, <1>7 DEF Settles

\* No user transaction breaks a position, an order or the ownership of a
\* position, and none changes the market.
LEMMA UserTransactionSettles ==
  ASSUME IndInv, UserTransaction
  PROVE  /\ Settles(positions_dict') /\ OrdersInv(orders_dict') /\ modifications' \in Int
         /\ UNCHANGED <<globals, funding_indices_table>>
PROOF
  <1> USE RequestsAssumption
  <1>1. OrdersInv(orders_dict) /\ modifications \in Int
    BY DEF IndInv
  <1>2. ASSUME NEW tx \in Deposits, Deposit(tx)
        PROVE  /\ Settles(positions_dict') /\ OrdersInv(orders_dict') /\ modifications' \in Int
               /\ UNCHANGED <<globals, funding_indices_table>>
    <2>1. Settles(positions_dict')
      BY <1>2, ChangeCollateralSettles DEF Deposit, Collateral
    <2> QED
      BY <1>1, <1>2, <2>1 DEF Deposit, Collateral, orders
  <1>3. ASSUME NEW tx \in Withdrawals, Withdrawal(tx)
        PROVE  /\ Settles(positions_dict') /\ OrdersInv(orders_dict') /\ modifications' \in Int
               /\ UNCHANGED <<globals, funding_indices_table>>
    <2>1. tx \in SignedWithdrawal
      OBVIOUS
    <2>2. /\ tx.position_id \in PositionIds /\ tx.public_key \in PublicKeys
          /\ tx.amount \in Int /\ tx.order_id \in OrderIds
      BY <2>1 DEF SignedWithdrawal
    <2>3. Settles(positions_dict')
      BY <1>3, <2>2, ChangeCollateralSettles DEF Withdrawal
    <2>4. OrdersInv(orders_dict')
      BY <1>1, <1>3, <2>2, FulfillmentKeepsOrders DEF Withdrawal
    <2> QED
      BY <1>1, <1>3, <2>2, <2>3, <2>4 DEF Withdrawal
  <1>4. ASSUME NEW tx \in SignedTransfer, MoveCollateral(tx)
        PROVE  /\ Settles(positions_dict') /\ OrdersInv(orders_dict') /\ modifications' \in Int
               /\ UNCHANGED <<globals, funding_indices_table>>
    BY <1>1, <1>4, MoveCollateralSettles DEF MoveCollateral, outputs
  <1>5. ASSUME NEW tx \in ForcedWithdrawals, NEW is_valid \in BOOLEAN,
               ForcedWithdrawal(tx, is_valid)
        PROVE  /\ Settles(positions_dict') /\ OrdersInv(orders_dict') /\ modifications' \in Int
               /\ UNCHANGED <<globals, funding_indices_table>>
    <2>1. Settles(positions_dict')
      BY <1>5, ForcedWithdrawalSettles
    <2> QED
      BY <1>1, <1>5, <2>1 DEF ForcedWithdrawal, Collateral, orders
  <1>6. ASSUME AnyTrade
        PROVE  /\ Settles(positions_dict') /\ OrdersInv(orders_dict') /\ modifications' \in Int
               /\ UNCHANGED <<globals, funding_indices_table>>
    <2>1. PICK a \in LimitOrders, b \in LimitOrders, c \in CollateralAmounts,
               s \in SyntheticAmounts, f \in Fees, g \in Fees : Trade(a, b, c, s, f, g)
      BY <1>6 DEF AnyTrade
    <2>2. Settles(positions_dict') /\ OrdersInv(orders_dict')
      BY <2>1, TradeSettles
    <2> QED
      BY <1>1, <2>1, <2>2 DEF Trade, outputs
  <1>7. ASSUME AnyForcedTrade
        PROVE  /\ Settles(positions_dict') /\ OrdersInv(orders_dict') /\ modifications' \in Int
               /\ UNCHANGED <<globals, funding_indices_table>>
    <2>1. PICK tx \in ForcedTrades, is_valid \in BOOLEAN : ExecuteForcedTrade(tx, is_valid)
      BY <1>7 DEF AnyForcedTrade
    <2>2. Settles(positions_dict')
      BY <2>1, ForcedTradeSettles
    <2> QED
      BY <1>1, <2>1, <2>2 DEF ExecuteForcedTrade, orders, outputs
  <1>8. ASSUME AnyLiquidate
        PROVE  /\ Settles(positions_dict') /\ OrdersInv(orders_dict') /\ modifications' \in Int
               /\ UNCHANGED <<globals, funding_indices_table>>
    <2>1. PICK o \in LimitOrders, id \in PositionIds, c \in CollateralAmounts,
               s \in SyntheticAmounts, f \in Fees : Liquidate(o, id, c, s, f)
      BY <1>8 DEF AnyLiquidate
    <2>2. Settles(positions_dict') /\ OrdersInv(orders_dict')
      BY <2>1, LiquidateSettles
    <2> QED
      BY <1>1, <2>1, <2>2 DEF Liquidate, outputs
  <1>9. ASSUME AnyDeleverage
        PROVE  /\ Settles(positions_dict') /\ OrdersInv(orders_dict') /\ modifications' \in Int
               /\ UNCHANGED <<globals, funding_indices_table>>
    <2>1. PICK id \in PositionIds, other \in PositionIds, a \in Assets, buying \in BOOLEAN,
               c \in CollateralAmounts, s \in SyntheticAmounts :
                 Deleverage(id, other, a, buying, c, s)
      BY <1>9 DEF AnyDeleverage
    <2>2. Settles(positions_dict')
      BY <2>1, DeleverageSettles
    <2> QED
      BY <1>1, <2>1, <2>2 DEF Deleverage, orders, outputs
  <1> QED
    BY <1>2, <1>3, <1>4, <1>5, <1>6, <1>7, <1>8, <1>9
    DEF UserTransaction, Transfer, ConditionalTransfer

-----------------------------------------------------------------------------
(* The theorems.                                                           *)

\* The ticks keep the inductive invariant and change no position.
LEMMA TickKeepsInv ==
  ASSUME IndInv, Tick
  PROVE  IndInv' /\ positions_dict' = positions_dict
PROOF
  <1>1. PICK assets \in SUBSET Assets, time \in 0 .. MaxTime :
          \/ \E indices \in [assets -> FundingIndexValues] :
               FundingTick([indices |-> indices, funding_timestamp |-> time])
          \/ \E prices \in [assets -> PriceValues] : OraclePricesTick(prices, time)
    BY DEF Tick
  <1>2. time \in Nat
    BY <1>1, ConfigAssumption
  <1>3. CASE \E indices \in [assets -> FundingIndexValues] :
               FundingTick([indices |-> indices, funding_timestamp |-> time])
    <2>1. PICK indices \in [assets -> FundingIndexValues] :
            FundingTick([indices |-> indices, funding_timestamp |-> time])
      BY <1>3
    <2>2. IsFundingIndicesInfo([indices |-> indices, funding_timestamp |-> time])
      BY <1>2, <2>1, RequestsAssumption DEF IsFundingIndicesInfo, IsPartial
    <2> QED
      BY <2>1, <2>2, FundingTickKeepsInv DEF FundingTick
  <1>4. CASE \E prices \in [assets -> PriceValues] : OraclePricesTick(prices, time)
    <2>1. PICK prices \in [assets -> PriceValues] : OraclePricesTick(prices, time)
      BY <1>4
    <2> QED
      BY <1>2, <2>1, OraclePricesTickKeepsInv DEF OraclePricesTick
  <1> QED
    BY <1>1, <1>3, <1>4

\* Every step keeps the inductive invariant and the ownership of positions.
LEMMA NextKeepsInv ==
  ASSUME IndInv, [Next]_vars
  PROVE  IndInv' /\ OwnersKept(positions_dict, positions_dict')
PROOF
  <1>1. CASE UserTransaction
    <2>1. /\ Settles(positions_dict') /\ OrdersInv(orders_dict') /\ modifications' \in Int
          /\ UNCHANGED <<globals, funding_indices_table>>
      BY <1>1, UserTransactionSettles
    <2>2. market' = market
      BY <2>1 DEF globals, market
    <2>3. GlobalsInv'
      BY <2>1 DEF IndInv, globals, GlobalsInv, LatestEntryIsGlobal
    <2> QED
      BY <2>1, <2>2, <2>3 DEF Settles, IndInv
  <1>2. CASE Tick
    BY <1>2, TickKeepsInv DEF OwnersKept, KeepsOwner
  <1>3. CASE UNCHANGED vars
    <2>1. /\ market' = market /\ positions_dict' = positions_dict /\ orders_dict' = orders_dict
          /\ modifications' = modifications /\ UNCHANGED <<globals, funding_indices_table>>
      BY <1>3 DEF vars, globals, outputs, market
    <2>2. GlobalsInv'
      BY <2>1 DEF IndInv, globals, GlobalsInv, LatestEntryIsGlobal
    <2> QED
      BY <2>1, <2>2 DEF IndInv, OwnersKept, KeepsOwner
  <1> QED
    BY <1>1, <1>2, <1>3 DEF Next

\* The inductive invariant holds in every reachable state: every position is
\* well formed with respect to the market and the published table, the orders
\* are in range, and the market is the table's latest entry.
THEOREM InductiveInvariant == Spec => []IndInv
PROOF
  <1>1. Init => IndInv
    BY InitHolds
  <1>2. IndInv /\ [Next]_vars => IndInv'
    BY NextKeepsInv
  <1> QED
    BY <1>1, <1>2, PTL DEF Spec

\* Every reachable state has the right types; in particular no sequence of
\* colliding order ids takes a fulfilled amount to AMOUNT_UPPER_BOUND.
THEOREM TypeCorrectness == Spec => []TypeOK
BY InductiveInvariant, IndInvImplies, PTL

\* position.cairo:38-40, for any transactions in any order.
THEOREM OwnersOfNonEmptyPositions == Spec => []KeyIffNonEmpty
BY InductiveInvariant, IndInvImplies, PTL

\* add_asset.cairo:188-191: the maximum number of assets is never exceeded and
\* all balances stay within the bounds of the position's encoding.
THEOREM PositionLimits == Spec => []PositionsWithinLimits
BY InductiveInvariant, IndInvImplies, PTL

\* No position ever holds an asset that funding or a status would look up in
\* vain, so that cannot be what makes an update unprovable.
THEOREM HeldAssetsStayListed == Spec => []HeldAssetsAreListed
BY InductiveInvariant, IndInvImplies, PTL

\* What the data availability output leaves out, a position's cached indices,
\* can always be looked up in the published table by its funding timestamp.
THEOREM CachedIndicesCanBeRebuilt == Spec => []CachedIndicesPublished
BY InductiveInvariant, IndInvImplies, PTL

\* The global indices are the table's latest entry: of entries with the same
\* timestamp none disagrees, so looking one up by timestamp is unambiguous.
THEOREM LatestIndicesAreGlobal == Spec => []LatestEntryIsGlobal
PROOF
  <1>1. IndInv => LatestEntryIsGlobal
    BY DEF IndInv, GlobalsInv
  <1> QED
    BY <1>1, InductiveInvariant, PTL

\* update_position.cairo:115-162: no step takes a position that is not empty
\* from its owner.
THEOREM OwnershipTheorem == Spec => OwnershipIsStable
PROOF
  <1>1. IndInv /\ [Next]_vars => [OwnersKept(positions_dict, positions_dict')]_vars
    BY NextKeepsInv
  <1> QED
    BY <1>1, InductiveInvariant, PTL DEF Spec, OwnershipIsStable
=============================================================================
