---------------------------- MODULE LedgerProofs ----------------------------
(***************************************************************************)
(* Proofs about the perpetual exchange as a ledger: its collateral, its    *)
(* funding and its synthetic assets, summed over any number of positions,  *)
(* and the margin of each position.                                        *)
(***************************************************************************)
EXTENDS PerpetualProofs, SumTheorems

-----------------------------------------------------------------------------
(* One position.                                                           *)

\* The claim of a position, for any market.
Worth(pos, m) == pos.collateral_balance * FXP_32_ONE - FundingDue(pos, m)

\* What one asset owes.
Due(pos, m, a) == (m.indices[a] - pos.assets[a].cached_funding_index) * pos.assets[a].balance

\* A position that can be funded: its assets are in the market.
IsFundable(pos, m) == IsPosition(pos) /\ IsMarket(m) /\ Held(pos) \subseteq DOMAIN m.indices

\* Funding is a sum of integers over finitely many assets.
LEMMA FundingDueType ==
  ASSUME NEW pos, NEW m, IsFundable(pos, m)
  PROVE  /\ IsFiniteSet(Held(pos))
         /\ \A a \in Held(pos) : Due(pos, m, a) \in Int
         /\ FundingDue(pos, m) = SumFunctionOnSet([a \in Held(pos) |-> Due(pos, m, a)], Held(pos))
         /\ FundingDue(pos, m) \in Int
PROOF
  <1> DEFINE due == [a \in Held(pos) |-> Due(pos, m, a)]
  <1>1. IsFiniteSet(Held(pos))
    BY NamesAssumption, FS_Subset DEF IsFundable, IsPosition, IsPartial, Held
  <1>2. \A a \in Held(pos) : Due(pos, m, a) \in Int
    <2> SUFFICES ASSUME NEW a \in Held(pos) PROVE Due(pos, m, a) \in Int
      OBVIOUS
    <2>1. pos.assets[a] \in PositionAsset
      BY DEF IsFundable, IsPosition, IsPartial, Held
    <2>2. m.indices[a] \in Int
      BY DEF IsFundable, IsMarket, IsPartial
    <2> QED
      BY <2>1, <2>2 DEF Due, PositionAsset
  <1>3. FundingDue(pos, m) = SumFunctionOnSet(due, Held(pos))
    <2>1. CASE Held(pos) = {}
      BY <2>1, SumOfNothing DEF FundingDue
    <2>2. CASE Held(pos) # {}
      <3>1. FundingDue(pos, m) = SumFunction(due)
        BY <2>2 DEF FundingDue, Due
      <3>2. SumFunction(due) = SumFunctionOnSet(due, Held(pos))
        BY DEF SumFunction
      <3> QED
        BY <3>1, <3>2
    <2> QED
      BY <2>1, <2>2
  <1>4. FundingDue(pos, m) \in Int
    <2>1. \A a \in Held(pos) : due[a] \in Int
      BY <1>2
    <2> HIDE DEF due
    <2> QED
      BY <1>1, <1>3, <2>1, SumType
  <1> QED
    BY <1>1, <1>2, <1>3, <1>4

\* A whole number is its own quotient by the unit.
LEMMA WholeUnits ==
  ASSUME NEW c \in Int
  PROVE  (c * FXP_32_ONE) \div FXP_32_ONE = c /\ (c * FXP_32_ONE) % FXP_32_ONE = 0
PROOF
  <1> DEFINE n == c * FXP_32_ONE
             q == n \div FXP_32_ONE
             r == n % FXP_32_ONE
  <1>1. n \in Int /\ FXP_32_ONE \in Nat \ {0}
    BY BoundsAssumption
  <1>2. q \in Int /\ r \in 0 .. FXP_32_ONE - 1 /\ n = FXP_32_ONE * q + r
    <2> HIDE DEF n
    <2> QED
      BY <1>1, SMT
  <1>3. FXP_32_ONE * (c - q) = r
    <2>1. c * FXP_32_ONE = FXP_32_ONE * q + r
      BY <1>2
    <2> HIDE DEF n, q, r
    <2> QED
      BY <1>1, <1>2, <2>1
  <1>4. c = q
    <2> HIDE DEF q, r, n
    <2>1. CASE c - q >= 1
      <3>1. FXP_32_ONE * (c - q) >= FXP_32_ONE
        BY <1>1, <1>2, <2>1
      <3> QED
        BY <1>1, <1>2, <1>3, <3>1
    <2>2. CASE c - q <= -1
      <3>1. FXP_32_ONE * (c - q) <= -FXP_32_ONE
        BY <1>1, <1>2, <2>2
      <3> QED
        BY <1>1, <1>2, <1>3, <3>1
    <2> QED
      BY <1>2, <2>1, <2>2
  <1> QED
    BY <1>1, <1>2, <1>3, <1>4

\* The funded collateral is the claim, rounded down.
LEMMA FundedCollateralIsFloor ==
  ASSUME NEW pos, NEW m, IsFundable(pos, m)
  PROVE  /\ Worth(pos, m) \in Int /\ FundedCollateral(pos, m) \in Int
         /\ FundedCollateral(pos, m) = Worth(pos, m) \div FXP_32_ONE
         /\ FundedCollateral(pos, m) * FXP_32_ONE <= Worth(pos, m)
PROOF
  <1>1. FundingDue(pos, m) \in Int /\ pos.collateral_balance \in Int
    BY FundingDueType DEF IsFundable, IsPosition
  <1>2. Worth(pos, m) \in Int
    BY <1>1, BoundsAssumption DEF Worth
  <1>3. FundedCollateral(pos, m) = Worth(pos, m) \div FXP_32_ONE
    BY DEF FundedCollateral, Worth
  <1> DEFINE w == Worth(pos, m)
  <1> HIDE DEF w
  <1>4. w \in Int => w \div FXP_32_ONE \in Int /\ (w \div FXP_32_ONE) * FXP_32_ONE <= w
    BY BoundsAssumption, SMT
  <1> QED
    BY <1>2, <1>3, <1>4 DEF w

\* A position whose cached indices are the market's owes nothing, and its claim
\* is its collateral.
LEMMA SettledOwesNothing ==
  ASSUME NEW pos, NEW m, IsFundable(pos, m),
         \A a \in Held(pos) : pos.assets[a].cached_funding_index = m.indices[a]
  PROVE  /\ Worth(pos, m) = pos.collateral_balance * FXP_32_ONE
         /\ FundedCollateral(pos, m) = pos.collateral_balance
         /\ Worth(pos, m) % FXP_32_ONE = 0
PROOF
  <1> DEFINE due == [a \in Held(pos) |-> Due(pos, m, a)]
  <1>1. \A a \in Held(pos) : due[a] = 0
    <2> SUFFICES ASSUME NEW a \in Held(pos) PROVE Due(pos, m, a) = 0
      OBVIOUS
    <2>1. pos.assets[a] \in PositionAsset /\ m.indices[a] \in Int
      BY DEF IsFundable, IsPosition, IsPartial, Held, IsMarket
    <2>2. pos.assets[a].balance \in Int
      BY <2>1 DEF PositionAsset
    <2>3. m.indices[a] - pos.assets[a].cached_funding_index = 0
      BY <2>1
    <2> QED
      BY <2>2, <2>3 DEF Due
  <1>2. FundingDue(pos, m) = 0
    <2>1. IsFiniteSet(Held(pos)) /\ FundingDue(pos, m) = SumFunctionOnSet(due, Held(pos))
      BY FundingDueType
    <2> HIDE DEF due
    <2> QED
      BY <1>1, <2>1, SumOfZeros
  <1>3. pos.collateral_balance \in Int /\ pos.collateral_balance * FXP_32_ONE \in Int
    BY BoundsAssumption DEF IsFundable, IsPosition
  <1>4. Worth(pos, m) = pos.collateral_balance * FXP_32_ONE
    BY <1>2, <1>3 DEF Worth
  <1> QED
    BY <1>3, <1>4, WholeUnits, FundedCollateralIsFloor

\* From the claim of a position one unit of collateral can at most be lost, and
\* only a part of one: the position is left with what its claim is worth in whole
\* units, and units more, and with s more of asset a.
Gains(new, pos, m, units, a, s) ==
  /\ IsFundable(new, m)
  /\ \A x \in Held(new) : new.assets[x].cached_funding_index = m.indices[x]
  /\ new.collateral_balance = FundedCollateral(pos, m) + units
  /\ \A x \in Assets : position_get_asset_balance(new, x)
                         = position_get_asset_balance(pos, x) + (IF x = a THEN s ELSE 0)

\* The positions of the inductive invariant can be funded.
LEMMA PositionIsFundable ==
  ASSUME NEW pos, NEW m, NEW table, MarketInv(m, table), PositionInv(pos, m, table)
  PROVE  IsFundable(pos, m)
BY DEF MarketInv, PositionInv, IsFundable

\* Balances are integers.
LEMMA BalanceType ==
  ASSUME NEW pos, IsPosition(pos), NEW a
  PROVE  position_get_asset_balance(pos, a) \in Int
BY DEF IsPosition, IsPartial, PositionAsset, Held, position_get_asset_balance

\* Settling the funding gains nothing.
LEMMA FundingGains ==
  ASSUME NEW pos, NEW m, NEW table, MarketInv(m, table), PositionInv(pos, m, table),
         CanFund(pos, m), NEW a
  PROVE  Gains(position_apply_funding(pos, m), pos, m, 0, a, 0)
PROOF
  <1> DEFINE funded == position_apply_funding(pos, m)
  <1>1. IsFundable(funded, m)
    BY FundingKeepsPosition, PositionIsFundable
  <1>2. /\ funded.collateral_balance = FundedCollateral(pos, m)
        /\ Held(funded) = Held(pos)
        /\ \A x \in Held(pos) : /\ funded.assets[x].balance = pos.assets[x].balance
                                /\ funded.assets[x].cached_funding_index = m.indices[x]
    BY DEF position_apply_funding, Held
  <1>3. FundedCollateral(pos, m) \in Int
    BY PositionIsFundable, FundedCollateralIsFloor
  <1>4. \A x : position_get_asset_balance(pos, x) \in Int
    BY BalanceType DEF PositionInv
  <1>5. \A x : position_get_asset_balance(funded, x) = position_get_asset_balance(pos, x)
    BY <1>2 DEF position_get_asset_balance
  <1> HIDE DEF funded
  <1>6. \A x \in Assets : position_get_asset_balance(funded, x)
                            = position_get_asset_balance(pos, x) + (IF x = a THEN 0 ELSE 0)
    BY <1>4, <1>5
  <1>7. funded.collateral_balance = FundedCollateral(pos, m) + 0
    BY <1>2, <1>3
  <1>8. \A x \in Held(funded) : funded.assets[x].cached_funding_index = m.indices[x]
    BY <1>2
  <1>9. Gains(funded, pos, m, 0, a, 0)
    BY <1>1, <1>6, <1>7, <1>8 DEF Gains
  <1> QED
    BY <1>9 DEF funded

\* So does an update of a funded position that only gains on what the funding
\* left of the position.
LEMMA GainsAfterFunding ==
  ASSUME NEW new, NEW funded, NEW pos, NEW m, NEW units, NEW a, NEW s, NEW b,
         IsFundable(pos, m), Gains(funded, pos, m, 0, b, 0), Gains(new, funded, m, units, a, s)
  PROVE  Gains(new, pos, m, units, a, s)
PROOF
  <1>1. FundedCollateral(funded, m) = funded.collateral_balance
    BY SettledOwesNothing DEF Gains
  <1>2. FundedCollateral(pos, m) \in Int
    BY FundedCollateralIsFloor
  <1>3. FundedCollateral(funded, m) = FundedCollateral(pos, m)
    BY <1>1, <1>2 DEF Gains
  <1>4. \A x : position_get_asset_balance(pos, x) \in Int
    BY BalanceType DEF IsFundable
  <1>5. \A x \in Assets : position_get_asset_balance(funded, x) = position_get_asset_balance(pos, x)
    BY <1>4 DEF Gains
  <1> QED
    BY <1>3, <1>5 DEF Gains

\* position_add_asset changes the balance of one asset, by delta.
LEMMA AddAssetGains ==
  ASSUME NEW pos, NEW m, IsFundable(pos, m),
         \A x \in Held(pos) : pos.assets[x].cached_funding_index = m.indices[x],
         NEW a \in Assets \cup {NoAsset}, NEW delta \in Int,
         NEW new, new.assets = AssetsAfter(pos, a, delta, m)
  PROVE  /\ \A x \in Held(new) : new.assets[x].cached_funding_index = m.indices[x]
         /\ \A x \in Assets : position_get_asset_balance(new, x)
                                = position_get_asset_balance(pos, x) + (IF x = a THEN delta ELSE 0)
PROOF
  <1>1. \A x : position_get_asset_balance(pos, x) \in Int
    BY BalanceType DEF IsFundable
  <1>2. CASE delta = 0
    <2>1. new.assets = pos.assets
      BY <1>2 DEF AssetsAfter
    <2>2. \A x : position_get_asset_balance(new, x) = position_get_asset_balance(pos, x)
      BY <2>1 DEF position_get_asset_balance, Held
    <2> QED
      BY <1>1, <1>2, <2>1, <2>2 DEF Held
  <1>3. CASE delta # 0
    <2> DEFINE asset == NewAsset(pos, a, delta, m)
    <2>1. /\ asset.balance = position_get_asset_balance(pos, a) + delta
          /\ asset.cached_funding_index = m.indices[a]
      BY DEF NewAsset
    <2> HIDE DEF asset
    <2>2. CASE asset.balance = 0
      <3>1. new.assets = [x \in Held(pos) \ {a} |-> pos.assets[x]]
        BY <1>3, <2>2 DEF asset, AssetsAfter, add_asset_inner, Restrict
      <3>2. Held(new) = Held(pos) \ {a}
        BY <3>1 DEF Held
      <3>3. \A x \in Held(new) : new.assets[x] = pos.assets[x]
        BY <3>1, <3>2
      <3>4. position_get_asset_balance(new, a) = 0
        BY <3>2 DEF position_get_asset_balance
      <3>5. \A x : x # a => position_get_asset_balance(new, x) = position_get_asset_balance(pos, x)
        BY <3>2, <3>3 DEF position_get_asset_balance
      <3> QED
        BY <1>1, <2>1, <2>2, <3>2, <3>3, <3>4, <3>5
    <2>3. CASE asset.balance # 0
      <3>1. new.assets = [x \in Held(pos) \cup {a} |-> IF x = a THEN asset ELSE pos.assets[x]]
        BY <1>3, <2>3 DEF asset, AssetsAfter, add_asset_inner
      <3>2. Held(new) = Held(pos) \cup {a}
        BY <3>1 DEF Held
      <3>3. \A x \in Held(new) : new.assets[x] = IF x = a THEN asset ELSE pos.assets[x]
        BY <3>1, <3>2
      <3>4. position_get_asset_balance(new, a) = asset.balance
        BY <3>2, <3>3 DEF position_get_asset_balance
      <3>5. \A x : x # a => position_get_asset_balance(new, x) = position_get_asset_balance(pos, x)
        BY <3>2, <3>3 DEF position_get_asset_balance
      <3>6. \A x \in Held(new) : new.assets[x].cached_funding_index = m.indices[x]
        BY <2>1, <3>2, <3>3
      <3> QED
        BY <1>1, <2>1, <3>4, <3>5, <3>6
    <2> QED
      BY <2>2, <2>3
  <1> QED
    BY <1>2, <1>3

\* The target of an update of a funded position gains the request's deltas.  A
\* target that is emptied gains them too: it had nothing else.
LEMMA TargetGains ==
  ASSUME NEW pos, NEW m, NEW table, MarketInv(m, table), PositionInv(pos, m, table),
         pos.funding_timestamp = m.funding_timestamp,
         \A x \in Held(pos) : pos.assets[x].cached_funding_index = m.indices[x],
         NEW req \in Request, req.synthetic_asset_id = NoAsset => req.synthetic_delta = 0,
         is_asset_id_tradable(req.synthetic_asset_id, m), ReachesTarget(pos, req, m),
         HasStatus(Target(pos, req, m), m.prices)
  PROVE  Gains(Target(pos, req, m), pos, m, req.collateral_delta,
               req.synthetic_asset_id, req.synthetic_delta)
PROOF
  <1> DEFINE a == req.synthetic_asset_id
             delta == req.synthetic_delta
             units == req.collateral_delta
             new == [public_key |-> ResultKey(pos, req),
                     collateral_balance |-> pos.collateral_balance + units,
                     assets |-> AssetsAfter(pos, a, delta, m),
                     funding_timestamp |-> pos.funding_timestamp]
             target == Target(pos, req, m)
  <1>1. a \in Assets \cup {NoAsset} /\ delta \in Int /\ units \in Int
    BY DEF Request
  <1>2. IsFundable(pos, m) /\ IsFundable(target, m)
    BY TargetKeepsPosition, PositionIsFundable
  <1>3. FundedCollateral(pos, m) = pos.collateral_balance
    BY <1>2, SettledOwesNothing
  <1>4. /\ \A x \in Held(new) : new.assets[x].cached_funding_index = m.indices[x]
        /\ \A x \in Assets : position_get_asset_balance(new, x)
                               = position_get_asset_balance(pos, x) + (IF x = a THEN delta ELSE 0)
    <2>1. new.assets = AssetsAfter(pos, a, delta, m)
      OBVIOUS
    <2>2. \A x \in Held(pos) : pos.assets[x].cached_funding_index = m.indices[x]
      OBVIOUS
    <2> HIDE DEF new, a, delta, target
    <2>3. a \in Assets \cup {NoAsset} /\ delta \in Int /\ IsFundable(pos, m)
      BY <1>1, <1>2
    <2>4. PICK p, q : p = pos /\ q = m
      OBVIOUS
    <2>5. /\ IsFundable(p, q) /\ new.assets = AssetsAfter(p, a, delta, q)
          /\ \A x \in Held(p) : p.assets[x].cached_funding_index = q.indices[x]
      BY <2>1, <2>2, <2>3, <2>4
    <2>6. /\ \A x \in Held(new) : new.assets[x].cached_funding_index = q.indices[x]
          /\ \A x \in Assets : position_get_asset_balance(new, x)
                               = position_get_asset_balance(p, x) + (IF x = a THEN delta ELSE 0)
      BY <2>3, <2>5, AddAssetGains
    <2> QED
      BY <2>4, <2>6
  <1>5. target = create_maybe_empty_position(new)
    BY DEF Target
  <1>6. new.collateral_balance = pos.collateral_balance + units
    OBVIOUS
  <1> HIDE DEF new, a, delta, units, target
  <1>7. ASSUME IsEmpty(new) PROVE Gains(target, pos, m, units, a, delta)
    <2>1. target = EmptyPosition
      BY <1>5, <1>7 DEF create_maybe_empty_position
    <2>2. /\ Held(target) = {} /\ target.collateral_balance = 0
          /\ \A x : position_get_asset_balance(target, x) = 0
      BY <2>1 DEF EmptyPosition, NoAssets, Held, position_get_asset_balance
    <2>3. new.collateral_balance = 0 /\ \A x : position_get_asset_balance(new, x) = 0
      BY <1>7 DEF IsEmpty, position_get_asset_balance
    <2>4. target.collateral_balance = FundedCollateral(pos, m) + units
      BY <1>3, <1>6, <2>2, <2>3
    <2>5. \A x \in Assets : position_get_asset_balance(target, x)
                               = position_get_asset_balance(pos, x) + (IF x = a THEN delta ELSE 0)
      BY <1>4, <2>2, <2>3
    <2>6. IsFundable(target, m)
      BY <1>2
    <2> QED
      BY <2>2, <2>4, <2>5, <2>6 DEF Gains
  <1>8. ASSUME ~ IsEmpty(new) PROVE Gains(target, pos, m, units, a, delta)
    <2>1. target = new
      BY <1>5, <1>8 DEF create_maybe_empty_position
    <2>2. IsFundable(new, m)
      BY <1>2, <2>1
    <2>3. Gains(new, pos, m, units, a, delta)
      BY <1>3, <1>4, <1>6, <2>2 DEF Gains
    <2> QED
      BY <2>1, <2>3
  <1> QED
    BY <1>7, <1>8 DEF target, a, delta, units

\* update_position moves what the request says when it succeeds, and nothing but
\* settles the funding when it fails.
LEMMA UpdateGains ==
  ASSUME NEW pos, NEW m, NEW table, MarketInv(m, table), PositionInv(pos, m, table),
         NEW req \in Request, NEW result, result = update_position(pos, req, m),
         ~ Aborts(result)
  PROVE  /\ \A a : Gains(result.funded_position, pos, m, 0, a, 0)
         /\ Succeeds(result) =>
              Gains(result.updated_position, pos, m, req.collateral_delta,
                    req.synthetic_asset_id, req.synthetic_delta)
         /\ ~ Succeeds(result) => result.updated_position = result.funded_position
PROOF
  <1> DEFINE funded == position_apply_funding(pos, m)
             a == req.synthetic_asset_id
             gains(new) == Gains(new, pos, m, req.collateral_delta, a, req.synthetic_delta)
  <1>1. CanFund(pos, m) /\ (a = NoAsset => req.synthetic_delta = 0)
    BY DEF update_position, Aborts
  <1>2. result = UpdateFunded(funded, req, m)
    BY <1>1 DEF update_position
  <1>3. PositionInv(funded, m, table) /\ IsFundable(pos, m)
    BY <1>1, FundingKeepsPosition, PositionIsFundable
  <1>4. \A x : Gains(funded, pos, m, 0, x, 0)
    BY <1>1, FundingGains
  <1>5. funded.funding_timestamp = m.funding_timestamp
    BY DEF position_apply_funding
  <1> HIDE DEF funded
  <1>6. \/ result.updated_position = funded /\ ~ Succeeds(result)
        \/ result.updated_position = funded /\ IsNoChange(funded, req)
        \/ /\ result.updated_position = Target(funded, req, m)
           /\ is_asset_id_tradable(a, m)
           /\ ReachesTarget(funded, req, m)
           /\ HasStatus(Target(funded, req, m), m.prices)
    BY <1>2 DEF UpdateFunded, TransitionIsDefined, Succeeds
  <1>7. result.funded_position = funded
    BY <1>2 DEF UpdateFunded
  <1>8. ~ Succeeds(result) => result.updated_position = funded
    BY <1>2 DEF UpdateFunded, Succeeds
  <1>9. CASE result.updated_position = funded /\ IsNoChange(funded, req)
    <2>1. req.collateral_delta = 0 /\ req.synthetic_delta = 0
      BY <1>9 DEF IsNoChange
    <2>2. gains(funded)
      BY <1>4, <2>1
    <2> HIDE DEF gains
    <2> QED
      BY <1>4, <1>7, <1>8, <1>9, <2>2 DEF gains
  <1>10. CASE /\ result.updated_position = Target(funded, req, m)
              /\ is_asset_id_tradable(a, m)
              /\ ReachesTarget(funded, req, m)
              /\ HasStatus(Target(funded, req, m), m.prices)
    <2> DEFINE target == Target(funded, req, m)
    <2>1. \A x \in Held(funded) : funded.assets[x].cached_funding_index = m.indices[x]
      BY <1>4 DEF Gains
    <2>2. Gains(target, funded, m, req.collateral_delta, a, req.synthetic_delta)
      BY <1>1, <1>3, <1>5, <1>10, <2>1, TargetGains
    <2> HIDE DEF target
    <2>3. gains(target)
      BY <1>3, <1>4, <2>2, GainsAfterFunding
    <2> HIDE DEF gains
    <2> QED
      BY <1>4, <1>7, <1>8, <1>10, <2>3 DEF gains, target
  <1> QED
    BY <1>4, <1>6, <1>7, <1>8, <1>9, <1>10

-----------------------------------------------------------------------------
(* The dictionary.                                                         *)

CollateralOf(dict) == [p \in PositionIds |-> FundedCollateral(dict[p], market)]
WorthOf(dict) == [p \in PositionIds |-> Worth(dict[p], market)]
BalanceOf(dict, x) == [p \in PositionIds |-> position_get_asset_balance(dict[p], x)]

\* From one dictionary to another, units of collateral and s of asset a came in,
\* and only the parties' positions changed: they hold whole units now.
Moves(dict, new, parties, units, a, s) ==
  /\ DictInv(new, market, funding_indices_table)
  /\ \A p \in PositionIds \ parties : new[p] = dict[p]
  /\ \A p \in parties : Worth(new[p], market) % FXP_32_ONE = 0
  /\ SumFunctionOnSet(CollateralOf(new), PositionIds)
       = SumFunctionOnSet(CollateralOf(dict), PositionIds) + units
  /\ SumFunctionOnSet(WorthOf(new), PositionIds)
       <= SumFunctionOnSet(WorthOf(dict), PositionIds) + units * FXP_32_ONE
  /\ \A x \in Assets :
       SumFunctionOnSet(BalanceOf(new, x), PositionIds)
         = SumFunctionOnSet(BalanceOf(dict, x), PositionIds) + (IF x = a THEN s ELSE 0)

\* The sums over a dictionary of well formed positions are integers.
LEMMA DictSums ==
  ASSUME MarketInv(market, funding_indices_table), NEW dict,
         DictInv(dict, market, funding_indices_table)
  PROVE  /\ \A p \in PositionIds : /\ IsFundable(dict[p], market)
                                   /\ CollateralOf(dict)[p] = FundedCollateral(dict[p], market)
                                   /\ CollateralOf(dict)[p] \in Int
                                   /\ WorthOf(dict)[p] = Worth(dict[p], market)
                                   /\ WorthOf(dict)[p] \in Int
         /\ \A x : \A p \in PositionIds :
              /\ BalanceOf(dict, x)[p] = position_get_asset_balance(dict[p], x)
              /\ BalanceOf(dict, x)[p] \in Int
         /\ SumFunctionOnSet(CollateralOf(dict), PositionIds) \in Int
         /\ SumFunctionOnSet(WorthOf(dict), PositionIds) \in Int
         /\ \A x : SumFunctionOnSet(BalanceOf(dict, x), PositionIds) \in Int
PROOF
  <1>1. \A p \in PositionIds : IsFundable(dict[p], market)
    BY PositionIsFundable DEF DictInv
  <1>2. \A p \in PositionIds : /\ CollateralOf(dict)[p] = FundedCollateral(dict[p], market)
                               /\ WorthOf(dict)[p] = Worth(dict[p], market)
    BY DEF CollateralOf, WorthOf
  <1>3. \A p \in PositionIds : CollateralOf(dict)[p] \in Int /\ WorthOf(dict)[p] \in Int
    BY <1>1, <1>2, FundedCollateralIsFloor
  <1>4. \A x : \A p \in PositionIds :
          BalanceOf(dict, x)[p] = position_get_asset_balance(dict[p], x)
    BY DEF BalanceOf
  <1>5. \A x : \A p \in PositionIds : BalanceOf(dict, x)[p] \in Int
    BY <1>1, <1>4, BalanceType DEF IsFundable
  <1>6. /\ SumFunctionOnSet(CollateralOf(dict), PositionIds) \in Int
        /\ SumFunctionOnSet(WorthOf(dict), PositionIds) \in Int
    BY <1>3, SumType, ConfigAssumption
  <1>7. \A x : SumFunctionOnSet(BalanceOf(dict, x), PositionIds) \in Int
    BY <1>5, SumType, ConfigAssumption
  <1> QED
    BY <1>1, <1>2, <1>3, <1>4, <1>5, <1>6, <1>7

\* Storing a position that gains changes the sums by what it gains.
LEMMA ReplaceMoves ==
  ASSUME MarketInv(market, funding_indices_table), NEW dict,
         DictInv(dict, market, funding_indices_table), NEW id \in PositionIds,
         NEW pos, PositionInv(pos, market, funding_indices_table),
         NEW units \in Int, NEW a, NEW s \in Int, Gains(pos, dict[id], market, units, a, s),
         NEW new, new = [dict EXCEPT ![id] = pos]
  PROVE  Moves(dict, new, {id}, units, a, s)
PROOF
  <1> DEFINE old == dict[id]
  <1>1. DictInv(new, market, funding_indices_table)
    BY ReplaceKeepsDict
  <1>2. new[id] = pos /\ \A p \in PositionIds \ {id} : new[p] = dict[p]
    BY DEF DictInv
  <1>3. /\ IsFundable(old, market) /\ FundedCollateral(old, market) \in Int
        /\ Worth(old, market) \in Int
        /\ FundedCollateral(old, market) * FXP_32_ONE <= Worth(old, market)
    BY DictSums, FundedCollateralIsFloor
  <1>4. /\ FundedCollateral(pos, market) = FundedCollateral(old, market) + units
        /\ Worth(pos, market) = (FundedCollateral(old, market) + units) * FXP_32_ONE
        /\ Worth(pos, market) % FXP_32_ONE = 0
    BY SettledOwesNothing DEF Gains
  <1>5. SumFunctionOnSet(CollateralOf(new), PositionIds)
          = SumFunctionOnSet(CollateralOf(dict), PositionIds) + units
    <2> DEFINE f == CollateralOf(dict)
               g == CollateralOf(new)
    <2>1. /\ \A p \in PositionIds : f[p] \in Int /\ f[p] = FundedCollateral(dict[p], market)
          /\ SumFunctionOnSet(f, PositionIds) \in Int
      BY DictSums
    <2>2. \A p \in PositionIds : g[p] \in Int /\ g[p] = FundedCollateral(new[p], market)
      BY <1>1, DictSums
    <2>3. /\ \A p \in PositionIds : f[p] \in Int /\ g[p] \in Int
          /\ \A p \in PositionIds \ {id} : g[p] = f[p]
          /\ SumFunctionOnSet(f, PositionIds) \in Int
          /\ g[id] = FundedCollateral(pos, market) /\ f[id] = FundedCollateral(old, market)
      <3> HIDE DEF f, g
      <3> QED
        BY <1>2, <2>1, <2>2
    <2> HIDE DEF f, g, old
    <2>4. SumFunctionOnSet(g, PositionIds) = SumFunctionOnSet(f, PositionIds) + (g[id] - f[id])
      BY <2>3, SumAfterChange, ConfigAssumption
    <2>5. SumFunctionOnSet(g, PositionIds) = SumFunctionOnSet(f, PositionIds) + units
      BY <1>3, <1>4, <2>3, <2>4
    <2> QED
      BY <2>5 DEF f, g
  <1>6. SumFunctionOnSet(WorthOf(new), PositionIds)
          <= SumFunctionOnSet(WorthOf(dict), PositionIds) + units * FXP_32_ONE
    <2> DEFINE f == WorthOf(dict)
               g == WorthOf(new)
               c == FundedCollateral(old, market)
    <2>1. /\ \A p \in PositionIds : f[p] \in Int /\ f[p] = Worth(dict[p], market)
          /\ SumFunctionOnSet(f, PositionIds) \in Int
      BY DictSums
    <2>2. \A p \in PositionIds : g[p] \in Int /\ g[p] = Worth(new[p], market)
      BY <1>1, DictSums
    <2>3. /\ \A p \in PositionIds : f[p] \in Int /\ g[p] \in Int
          /\ \A p \in PositionIds \ {id} : g[p] = f[p]
          /\ SumFunctionOnSet(f, PositionIds) \in Int
          /\ g[id] = Worth(pos, market) /\ f[id] = Worth(old, market)
      <3> HIDE DEF f, g
      <3> QED
        BY <1>2, <2>1, <2>2
    <2>4. c \in Int /\ g[id] = (c + units) * FXP_32_ONE /\ c * FXP_32_ONE <= f[id]
      BY <1>3, <1>4, <2>3
    <2> HIDE DEF f, g, old, c
    <2>5. (c + units) * FXP_32_ONE = c * FXP_32_ONE + units * FXP_32_ONE
          /\ c * FXP_32_ONE \in Int /\ units * FXP_32_ONE \in Int
      BY <2>4, BoundsAssumption
    <2>6. SumFunctionOnSet(g, PositionIds) = SumFunctionOnSet(f, PositionIds) + (g[id] - f[id])
      BY <2>3, SumAfterChange, ConfigAssumption
    <2>7. SumFunctionOnSet(g, PositionIds)
            <= SumFunctionOnSet(f, PositionIds) + units * FXP_32_ONE
      <3>1. f[id] \in Int /\ g[id] \in Int /\ SumFunctionOnSet(f, PositionIds) \in Int
        BY <2>3
      <3> DEFINE k == c * FXP_32_ONE
                 u == units * FXP_32_ONE
      <3>2. k \in Int /\ u \in Int /\ g[id] = k + u /\ k <= f[id]
        BY <2>4, <2>5
      <3> HIDE DEF k, u
      <3>3. SumFunctionOnSet(g, PositionIds) <= SumFunctionOnSet(f, PositionIds) + u
        BY <2>6, <3>1, <3>2
      <3> QED
        BY <3>3 DEF u
    <2> QED
      BY <2>7 DEF f, g
  <1>7. ASSUME NEW x \in Assets
        PROVE  SumFunctionOnSet(BalanceOf(new, x), PositionIds)
                 = SumFunctionOnSet(BalanceOf(dict, x), PositionIds) + (IF x = a THEN s ELSE 0)
    <2> DEFINE f == BalanceOf(dict, x)
               g == BalanceOf(new, x)
               d == IF x = a THEN s ELSE 0
    <2>1. /\ \A p \in PositionIds : f[p] \in Int /\ f[p] = position_get_asset_balance(dict[p], x)
          /\ SumFunctionOnSet(f, PositionIds) \in Int
      BY DictSums
    <2>2. \A p \in PositionIds : g[p] \in Int /\ g[p] = position_get_asset_balance(new[p], x)
      BY <1>1, DictSums
    <2>3. /\ \A p \in PositionIds : f[p] \in Int /\ g[p] \in Int
          /\ \A p \in PositionIds \ {id} : g[p] = f[p]
          /\ SumFunctionOnSet(f, PositionIds) \in Int
          /\ g[id] = position_get_asset_balance(pos, x) /\ f[id] = position_get_asset_balance(old, x)
      <3> HIDE DEF f, g
      <3> QED
        BY <1>2, <2>1, <2>2
    <2>4. d \in Int /\ g[id] = f[id] + d
      BY <2>3 DEF Gains
    <2> HIDE DEF f, g, d
    <2>5. SumFunctionOnSet(g, PositionIds) = SumFunctionOnSet(f, PositionIds) + (g[id] - f[id])
      BY <2>3, SumAfterChange, ConfigAssumption
    <2>6. SumFunctionOnSet(g, PositionIds) = SumFunctionOnSet(f, PositionIds) + d
      BY <2>3, <2>4, <2>5
    <2> QED
      BY <2>6 DEF f, g, d
  <1> QED
    BY <1>1, <1>2, <1>4, <1>5, <1>6, <1>7 DEF Moves

\* One change after another.
LEMMA MovesCompose ==
  ASSUME MarketInv(market, funding_indices_table), NEW first,
         DictInv(first, market, funding_indices_table),
         NEW second, NEW third, NEW P, NEW Q, NEW u \in Int, NEW v \in Int,
         NEW a, NEW s \in Int, NEW t \in Int,
         Moves(first, second, P, u, a, s), Moves(second, third, Q, v, a, t),
         P \subseteq PositionIds
  PROVE  Moves(first, third, P \cup Q, u + v, a, s + t)
PROOF
  <1>1. /\ DictInv(third, market, funding_indices_table)
        /\ \A p \in PositionIds \ (P \cup Q) : third[p] = first[p]
    BY DEF Moves
  <1>2. \A p \in P \cup Q : Worth(third[p], market) % FXP_32_ONE = 0
    BY DEF Moves
  <1>3. SumFunctionOnSet(CollateralOf(third), PositionIds)
          = SumFunctionOnSet(CollateralOf(first), PositionIds) + (u + v)
    BY DictSums DEF Moves
  <1>4. SumFunctionOnSet(WorthOf(third), PositionIds)
          <= SumFunctionOnSet(WorthOf(first), PositionIds) + (u + v) * FXP_32_ONE
    <2>1. /\ (u + v) * FXP_32_ONE = u * FXP_32_ONE + v * FXP_32_ONE
          /\ u * FXP_32_ONE \in Int /\ v * FXP_32_ONE \in Int
      BY BoundsAssumption
    <2> DEFINE k == u * FXP_32_ONE
               l == v * FXP_32_ONE
               w(dict) == SumFunctionOnSet(WorthOf(dict), PositionIds)
    <2>2. w(first) \in Int /\ w(second) \in Int /\ w(third) \in Int
      BY DictSums DEF Moves
    <2>3. w(second) <= w(first) + k /\ w(third) <= w(second) + l
      BY DEF Moves
    <2>4. k \in Int /\ l \in Int /\ (u + v) * FXP_32_ONE = k + l
      BY <2>1
    <2> HIDE DEF k, l, w
    <2>5. w(third) <= w(first) + (k + l)
      BY <2>2, <2>3, <2>4
    <2> QED
      BY <2>4, <2>5 DEF w
  <1>5. ASSUME NEW x \in Assets
        PROVE  SumFunctionOnSet(BalanceOf(third, x), PositionIds)
                 = SumFunctionOnSet(BalanceOf(first, x), PositionIds)
                     + (IF x = a THEN s + t ELSE 0)
    <2> DEFINE b(dict) == SumFunctionOnSet(BalanceOf(dict, x), PositionIds)
    <2>1. b(first) \in Int
      BY DictSums
    <2>2. /\ b(second) = b(first) + (IF x = a THEN s ELSE 0)
          /\ b(third) = b(second) + (IF x = a THEN t ELSE 0)
      BY DEF Moves
    <2> HIDE DEF b
    <2>3. b(third) = b(first) + (IF x = a THEN s + t ELSE 0)
      BY <2>1, <2>2
    <2> QED
      BY <2>3 DEF b
  <1> QED
    BY <1>1, <1>2, <1>3, <1>4, <1>5 DEF Moves

\* A change without synthetic assets is one of 0 of any asset.
LEMMA MovesNoAsset ==
  ASSUME NEW dict, NEW new, NEW parties, NEW units, NEW a,
         Moves(dict, new, parties, units, a, 0), NEW b
  PROVE  Moves(dict, new, parties, units, b, 0)
BY DEF Moves

\* One update moves what its request says, or settles the funding.
LEMMA UpdateMoves ==
  ASSUME MarketInv(market, funding_indices_table), NEW dict,
         DictInv(dict, market, funding_indices_table),
         NEW id \in PositionIds, NEW req \in Request,
         NEW result, result = update_position(dict[id], req, market), ~ Aborts(result)
  PROVE  /\ \A a : Moves(dict, [dict EXCEPT ![id] = result.funded_position], {id}, 0, a, 0)
         /\ Succeeds(result) =>
              Moves(dict, [dict EXCEPT ![id] = result.updated_position], {id},
                    req.collateral_delta, req.synthetic_asset_id, req.synthetic_delta)
         /\ ~ Succeeds(result) => result.updated_position = result.funded_position
PROOF
  <1> DEFINE pos == dict[id]
             units == req.collateral_delta
             asset == req.synthetic_asset_id
             s == req.synthetic_delta
             funded == result.funded_position
             updated == result.updated_position
  <1>1. units \in Int /\ s \in Int /\ 0 \in Int
    BY DEF Request
  <1>2. PositionInv(pos, market, funding_indices_table)
    BY DEF DictInv
  <1>3. /\ PositionInv(funded, market, funding_indices_table)
        /\ PositionInv(updated, market, funding_indices_table)
    BY <1>2, UpdateKeepsPosition
  <1>4. /\ \A a : Gains(funded, pos, market, 0, a, 0)
        /\ Succeeds(result) => Gains(updated, pos, market, units, asset, s)
        /\ ~ Succeeds(result) => updated = funded
    BY <1>2, UpdateGains
  <1> HIDE DEF units, asset, s, funded, updated
  <1>5. ASSUME NEW a PROVE Moves(dict, [dict EXCEPT ![id] = funded], {id}, 0, a, 0)
    <2> DEFINE new == [dict EXCEPT ![id] = funded]
    <2>1. new = [dict EXCEPT ![id] = funded]
      OBVIOUS
    <2> HIDE DEF new
    <2>2. Moves(dict, new, {id}, 0, a, 0)
      BY <1>1, <1>3, <1>4, <2>1, ReplaceMoves
    <2> QED
      BY <2>1, <2>2
  <1>6. ASSUME Succeeds(result)
        PROVE  Moves(dict, [dict EXCEPT ![id] = updated], {id}, units, asset, s)
    <2> DEFINE new == [dict EXCEPT ![id] = updated]
    <2>1. new = [dict EXCEPT ![id] = updated]
      OBVIOUS
    <2> HIDE DEF new
    <2>2. Moves(dict, new, {id}, units, asset, s)
      BY <1>1, <1>3, <1>4, <1>6, <2>1, ReplaceMoves
    <2> QED
      BY <2>1, <2>2
  <1> QED
    BY <1>4, <1>5, <1>6 DEF units, asset, s, funded, updated

\* A collateral request moves no synthetic asset.
LEMMA CollateralMoves ==
  ASSUME MarketInv(market, funding_indices_table), NEW dict,
         DictInv(dict, market, funding_indices_table),
         NEW id \in PositionIds, NEW key \in PublicKeys \cup {NoKey}, NEW delta \in Int,
         NEW result, result = update_position(dict[id], CollateralRequest(key, delta), market),
         Succeeds(result), NEW a
  PROVE  Moves(dict, [dict EXCEPT ![id] = result.updated_position], {id}, delta, a, 0)
PROOF
  <1> DEFINE req == CollateralRequest(key, delta)
             new == [dict EXCEPT ![id] = result.updated_position]
  <1>1. req \in Request /\ req.collateral_delta = delta /\ req.synthetic_delta = 0
    BY CollateralRequestType DEF CollateralRequest
  <1>2. ~ Aborts(result)
    BY DEF Aborts, Succeeds
  <1> HIDE DEF req
  <1>3. result = update_position(dict[id], req, market)
    BY DEF req
  <1>4. Moves(dict, new, {id}, req.collateral_delta, req.synthetic_asset_id, req.synthetic_delta)
    BY <1>1, <1>2, <1>3, UpdateMoves
  <1> HIDE DEF new
  <1>5. Moves(dict, new, {id}, delta, req.synthetic_asset_id, 0)
    BY <1>1, <1>4
  <1>6. Moves(dict, new, {id}, delta, a, 0)
    BY <1>5, MovesNoAsset
  <1> QED
    BY <1>6 DEF new

\* A party's order moves the collateral and the synthetic asset that change
\* hands: the fee only goes from the party to the fee position.
LEMMA LimitOrderMoves ==
  ASSUME MarketInv(market, funding_indices_table), NEW dict,
         DictInv(dict, market, funding_indices_table),
         NEW o \in LimitOrder, NEW c \in Int, NEW s \in Int, NEW f \in Int,
         NEW result, result = execute_limit_order(dict, o, c, s, f), result.success
  PROVE  Moves(dict, result.positions_dict, {FeePositionId} \cup {o.position_id},
               IF o.is_buying_synthetic THEN -c ELSE c, o.asset_id_synthetic,
               IF o.is_buying_synthetic THEN s ELSE -s)
PROOF
  <1> DEFINE fee_update == update_position(dict[FeePositionId],
                                           CollateralRequest(FeePublicKey, f), market)
             with_fee == [dict EXCEPT ![FeePositionId] = fee_update.updated_position]
             id == o.position_id
             req == LimitOrderRequest(o, c, s, f)
             update == update_position(with_fee[id], req, market)
             last == [with_fee EXCEPT ![id] = update.updated_position]
             units == IF o.is_buying_synthetic THEN -c ELSE c
             asset == o.asset_id_synthetic
             delta == IF o.is_buying_synthetic THEN s ELSE -s
  <1>1. /\ FeePositionId \in PositionIds /\ id \in PositionIds
        /\ FeePublicKey \in PublicKeys \cup {NoKey} /\ req \in Request
    BY ConfigAssumption, LimitOrderRequestType DEF LimitOrder
  <1>2. Succeeds(fee_update) /\ Succeeds(update) /\ result.positions_dict = last
    BY DEF execute_limit_order
  <1>3. /\ req.collateral_delta = units - f /\ req.synthetic_asset_id = asset
        /\ req.synthetic_delta = delta
    BY DEF LimitOrderRequest
  <1>4. units \in Int /\ delta \in Int
    BY DEF LimitOrder
  <1> HIDE DEF id, req, units, asset, delta
  <1>5. Moves(dict, with_fee, {FeePositionId}, f, asset, 0)
    <2> HIDE DEF update
    <2>1. PICK result1 : result1 = fee_update
      OBVIOUS
    <2>2. /\ result1 = update_position(dict[FeePositionId],
                                       CollateralRequest(FeePublicKey, f), market)
          /\ Succeeds(result1)
      BY <1>2, <2>1
    <2>3. Moves(dict, [dict EXCEPT ![FeePositionId] = result1.updated_position],
                {FeePositionId}, f, asset, 0)
      BY <1>1, <2>2, CollateralMoves
    <2> QED
      BY <2>1, <2>3
  <1>6. DictInv(with_fee, market, funding_indices_table)
    BY <1>5 DEF Moves
  <1> HIDE DEF with_fee
  <1>7. Moves(with_fee, last, {id}, units - f, asset, delta)
    <2>1. ~ Aborts(update)
      BY <1>2 DEF Aborts, Succeeds
    <2>2. Moves(with_fee, last, {id}, req.collateral_delta, req.synthetic_asset_id,
                req.synthetic_delta)
      BY <1>1, <1>2, <1>6, <2>1, UpdateMoves
    <2> HIDE DEF last
    <2> QED
      BY <1>3, <2>2
  <1> HIDE DEF last
  <1>8. Moves(dict, last, {FeePositionId} \cup {id}, f + (units - f), asset, 0 + delta)
    <2>1. units - f \in Int /\ 0 \in Int /\ {FeePositionId} \subseteq PositionIds
      BY <1>1, <1>4
    <2> QED
      BY <1>4, <1>5, <1>7, <2>1, MovesCompose
  <1>9. f + (units - f) = units /\ 0 + delta = delta
    BY <1>4
  <1>10. Moves(dict, last, {FeePositionId} \cup {id}, units, asset, delta)
    BY <1>8, <1>9
  <1> QED
    BY <1>2, <1>10 DEF id, units, asset, delta

-----------------------------------------------------------------------------
(* The transactions.  Each moves between positions, in or out what the     *)
(* vault gains, and as much of a synthetic asset to one as from another.   *)

Transacts(parties) ==
  /\ parties \subseteq PositionIds
  /\ Moves(positions_dict, positions_dict', parties, modifications' - modifications, NoAsset, 0)

\* Deposits and withdrawals.
LEMMA ChangeCollateralMoves ==
  ASSUME IndInv, NEW id \in PositionIds, NEW key \in PublicKeys \cup {NoKey}, NEW delta \in Int,
         ChangeCollateral(id, key, delta), modifications' = modifications + delta
  PROVE  Transacts({id})
PROOF
  <1> DEFINE update == update_position(positions_dict[id], CollateralRequest(key, delta), market)
  <1>1. MarketInv(market, funding_indices_table)
        /\ DictInv(positions_dict, market, funding_indices_table)
    BY MarketIsPublished DEF IndInv
  <1>2. Succeeds(update)
        /\ positions_dict' = [positions_dict EXCEPT ![id] = update.updated_position]
    BY DEF ChangeCollateral
  <1>3. PICK result : result = update
    OBVIOUS
  <1>4. /\ result = update_position(positions_dict[id], CollateralRequest(key, delta), market)
        /\ Succeeds(result)
        /\ positions_dict' = [positions_dict EXCEPT ![id] = result.updated_position]
    BY <1>2, <1>3
  <1>5. Moves(positions_dict, [positions_dict EXCEPT ![id] = result.updated_position],
              {id}, delta, NoAsset, 0)
    BY <1>1, <1>4, CollateralMoves
  <1>6. modifications' - modifications = delta
    BY DEF IndInv
  <1> QED
    BY <1>4, <1>5, <1>6 DEF Transacts

\* Transfers, conditional or not: what the sender loses the receiver gains.
LEMMA MoveCollateralMoves ==
  ASSUME IndInv, NEW tx \in SignedTransfer, MoveCollateral(tx)
  PROVE  Transacts({tx.sender_position_id} \cup {tx.receiver_position_id})
PROOF
  <1> DEFINE sender == tx.sender_position_id
             receiver == tx.receiver_position_id
             send == CollateralRequest(tx.public_key, -tx.amount)
             receive == CollateralRequest(tx.receiver_public_key, tx.amount)
             sent == update_position(positions_dict[sender], send, market)
             dict == [positions_dict EXCEPT ![sender] = sent.updated_position]
             received == update_position(dict[receiver], receive, market)
             last == [dict EXCEPT ![receiver] = received.updated_position]
  <1>1. MarketInv(market, funding_indices_table)
        /\ DictInv(positions_dict, market, funding_indices_table)
    BY MarketIsPublished DEF IndInv
  <1>2. /\ sender \in PositionIds /\ receiver \in PositionIds
        /\ tx.amount \in Int /\ -tx.amount \in Int /\ tx.public_key \in PublicKeys \cup {NoKey}
        /\ tx.receiver_public_key \in PublicKeys \cup {NoKey}
    BY DEF SignedTransfer
  <1>3. /\ Succeeds(sent) /\ Succeeds(received) /\ positions_dict' = last
        /\ modifications' = modifications
    BY DEF MoveCollateral, outputs
  <1> HIDE DEF sender, receiver
  <1>4. Moves(positions_dict, dict, {sender}, -tx.amount, NoAsset, 0)
    BY <1>1, <1>2, <1>3, CollateralMoves
  <1>5. DictInv(dict, market, funding_indices_table)
    BY <1>4 DEF Moves
  <1> HIDE DEF dict
  <1>6. Moves(dict, last, {receiver}, tx.amount, NoAsset, 0)
    BY <1>1, <1>2, <1>3, <1>5, CollateralMoves
  <1> HIDE DEF last
  <1>7. Moves(positions_dict, last, {sender} \cup {receiver}, -tx.amount + tx.amount, NoAsset, 0 + 0)
    <2>1. {sender} \subseteq PositionIds /\ 0 \in Int
      BY <1>2
    <2> QED
      BY <1>1, <1>2, <1>4, <1>6, <2>1, MovesCompose
  <1>8. -tx.amount + tx.amount = modifications' - modifications /\ 0 + 0 = 0
    BY <1>2, <1>3 DEF IndInv
  <1>9. Moves(positions_dict, positions_dict', {sender} \cup {receiver},
              modifications' - modifications, NoAsset, 0)
    BY <1>3, <1>7, <1>8
  <1> QED
    BY <1>2, <1>9 DEF Transacts, sender, receiver

\* Trades: the buyer's order and the seller's order cancel.
LEMMA TradeMoves ==
  ASSUME IndInv, NEW a \in LimitOrder, NEW b \in LimitOrder, NEW c \in Int, NEW s \in Int,
         NEW f \in Int, NEW g \in Int, Trade(a, b, c, s, f, g)
  PROVE  Transacts(({FeePositionId} \cup {a.position_id})
                     \cup ({FeePositionId} \cup {b.position_id}))
PROOF
  <1> DEFINE bought == execute_limit_order(positions_dict, a, c, s, f)
             dict == bought.positions_dict
             sold == execute_limit_order(dict, b, c, s, g)
             buyers == {FeePositionId} \cup {a.position_id}
             sellers == {FeePositionId} \cup {b.position_id}
             asset == a.asset_id_synthetic
  <1>1. MarketInv(market, funding_indices_table)
        /\ DictInv(positions_dict, market, funding_indices_table)
    BY MarketIsPublished DEF IndInv
  <1>2. /\ a.position_id \in PositionIds /\ b.position_id \in PositionIds
        /\ FeePositionId \in PositionIds
    BY ConfigAssumption DEF LimitOrder
  <1>3. /\ a.is_buying_synthetic /\ ~ b.is_buying_synthetic /\ b.asset_id_synthetic = asset
        /\ bought.success /\ sold.success /\ positions_dict' = sold.positions_dict
        /\ modifications' = modifications
    BY DEF Trade, outputs
  <1> HIDE DEF bought
  <1>4. Moves(positions_dict, dict, buyers, -c, asset, s)
    BY <1>1, <1>3, LimitOrderMoves DEF bought
  <1> HIDE DEF dict
  <1>5. DictInv(dict, market, funding_indices_table)
    BY <1>4 DEF Moves
  <1> HIDE DEF sold, asset
  <1>6. Moves(dict, sold.positions_dict, sellers, c, asset, -s)
    <2>1. Moves(dict, sold.positions_dict, sellers,
                IF b.is_buying_synthetic THEN -c ELSE c, b.asset_id_synthetic,
                IF b.is_buying_synthetic THEN s ELSE -s)
      BY <1>1, <1>3, <1>5, LimitOrderMoves DEF sold
    <2> HIDE DEF sellers
    <2> QED
      BY <1>3, <2>1
  <1> HIDE DEF buyers, sellers
  <1>7. Moves(positions_dict, positions_dict', buyers \cup sellers, -c + c, asset, s + -s)
    <2>1. buyers \subseteq PositionIds /\ -c \in Int /\ -s \in Int
      BY <1>2 DEF buyers
    <2> QED
      BY <1>1, <1>3, <1>4, <1>6, <2>1, MovesCompose
  <1>8. -c + c = modifications' - modifications /\ s + -s = 0
    BY <1>3 DEF IndInv
  <1>9. Moves(positions_dict, positions_dict', buyers \cup sellers,
              modifications' - modifications, NoAsset, 0)
    BY <1>7, <1>8, MovesNoAsset
  <1>10. buyers \cup sellers \subseteq PositionIds
    BY <1>2 DEF buyers, sellers
  <1> QED
    BY <1>9, <1>10 DEF Transacts, buyers, sellers

\* Forced withdrawals: an invalid one only settles the funding.
LEMMA ForcedWithdrawalMoves ==
  ASSUME IndInv, NEW tx \in Collateral, NEW is_valid \in BOOLEAN, ForcedWithdrawal(tx, is_valid)
  PROVE  Transacts({tx.position_id})
PROOF
  <1> DEFINE id == tx.position_id
             req == CollateralRequest(tx.public_key, -tx.amount)
             update == update_position(positions_dict[id], req, market)
  <1>1. MarketInv(market, funding_indices_table)
        /\ DictInv(positions_dict, market, funding_indices_table)
    BY MarketIsPublished DEF IndInv
  <1>2. /\ id \in PositionIds /\ tx.public_key \in PublicKeys \cup {NoKey}
        /\ tx.amount \in Int /\ -tx.amount \in Int /\ modifications \in Int
    BY DEF Collateral, IndInv
  <1>3. /\ ~ Aborts(update) /\ (is_valid <=> Succeeds(update))
        /\ positions_dict' = [positions_dict EXCEPT ![id] = update.updated_position]
        /\ modifications' = modifications - (IF is_valid THEN tx.amount ELSE 0)
    BY DEF ForcedWithdrawal
  <1>4. req \in Request
    BY <1>2, CollateralRequestType
  <1> HIDE DEF id
  <1>5. CASE is_valid
    <2>1. PICK result : result = update
      OBVIOUS
    <2>2. /\ result = update_position(positions_dict[id],
                                      CollateralRequest(tx.public_key, -tx.amount), market)
          /\ Succeeds(result)
          /\ positions_dict' = [positions_dict EXCEPT ![id] = result.updated_position]
      BY <1>3, <1>5, <2>1
    <2> HIDE DEF update, req
    <2>3. Moves(positions_dict, [positions_dict EXCEPT ![id] = result.updated_position],
                {id}, -tx.amount, NoAsset, 0)
      BY <1>1, <1>2, <2>2, CollateralMoves
    <2>4. modifications' - modifications = -tx.amount
      BY <1>2, <1>3, <1>5
    <2> QED
      BY <1>2, <2>2, <2>3, <2>4 DEF Transacts, id
  <1>6. CASE ~ is_valid
    <2> HIDE DEF req
    <2>1. PICK result : result = update
      OBVIOUS
    <2>2. /\ result = update_position(positions_dict[id], req, market) /\ ~ Aborts(result)
          /\ ~ Succeeds(result)
          /\ positions_dict' = [positions_dict EXCEPT ![id] = result.updated_position]
      BY <1>3, <1>6, <2>1
    <2> HIDE DEF update
    <2>3. /\ Moves(positions_dict, [positions_dict EXCEPT ![id] = result.funded_position],
                   {id}, 0, NoAsset, 0)
          /\ result.updated_position = result.funded_position
      BY <1>1, <1>2, <1>4, <2>2, UpdateMoves
    <2>4. modifications' - modifications = 0
      BY <1>2, <1>3, <1>6
    <2> QED
      BY <1>2, <2>2, <2>3, <2>4 DEF Transacts, id
  <1> QED
    BY <1>5, <1>6

\* Forced trades: both sides trade or both only settle their funding.
LEMMA ForcedTradeMoves ==
  ASSUME IndInv, NEW tx \in ForcedTrade, NEW is_valid \in BOOLEAN, ExecuteForcedTrade(tx, is_valid)
  PROVE  Transacts({tx.position_id_a} \cup {tx.position_id_b})
PROOF
  <1> DEFINE id_a == tx.position_id_a
             id_b == tx.position_id_b
             req_a == ForcedTradeRequest(tx, TRUE)
             req_b == ForcedTradeRequest(tx, FALSE)
             update_a == update_position(positions_dict[id_a], req_a, market)
             update_b == update_position(positions_dict[id_b], req_b, market)
             asset == tx.synthetic_asset_id
             c == req_a.collateral_delta
             s == req_a.synthetic_delta
             after_a == try_to_trade(update_a, update_b)
             after_b == try_to_trade(update_b, update_a)
             dict == [positions_dict EXCEPT ![id_a] = after_a]
             last == [dict EXCEPT ![id_b] = after_b]
  <1>1. MarketInv(market, funding_indices_table)
        /\ DictInv(positions_dict, market, funding_indices_table)
    BY MarketIsPublished DEF IndInv
  <1>2. id_a \in PositionIds /\ id_b \in PositionIds
    BY DEF ForcedTrade
  <1>3. req_a \in Request /\ req_b \in Request
    BY DEF ForcedTrade, ForcedTradeRequest, Request
  <1>4. /\ req_a.synthetic_asset_id = asset /\ req_b.synthetic_asset_id = asset
        /\ req_b.collateral_delta = -c /\ req_b.synthetic_delta = -s
    BY DEF ForcedTrade, ForcedTradeRequest
  <1>5. c \in Int /\ s \in Int /\ -c \in Int /\ -s \in Int
    <2>1. c \in Int /\ s \in Int
      BY <1>3 DEF Request
    <2> HIDE DEF c, s
    <2> QED
      BY <2>1
  <1>6. /\ id_a # id_b /\ ~ Aborts(update_a) /\ ~ Aborts(update_b)
        /\ positions_dict' = [positions_dict EXCEPT ![id_a] = after_a, ![id_b] = after_b]
        /\ modifications' = modifications
    BY DEF ExecuteForcedTrade, outputs
  <1>7. positions_dict' = last
    BY <1>6
  <1>8. modifications' - modifications = 0
    BY <1>6 DEF IndInv
  <1> HIDE DEF id_a, id_b, req_a, req_b, c, s, asset
  <1>9. PICK a, b : a = update_a /\ b = update_b
    OBVIOUS
  <1>10. /\ a = update_position(positions_dict[id_a], req_a, market) /\ ~ Aborts(a)
         /\ b = update_position(positions_dict[id_b], req_b, market) /\ ~ Aborts(b)
         /\ after_a = try_to_trade(a, b) /\ after_b = try_to_trade(b, a)
    BY <1>6, <1>9
  <1> HIDE DEF after_a, after_b, update_a, update_b, last
  <1>11. dict[id_b] = positions_dict[id_b]
    BY <1>1, <1>2, <1>6 DEF DictInv
  <1>12. ASSUME Succeeds(a), Succeeds(b)
         PROVE  Moves(positions_dict, last, {id_a} \cup {id_b}, 0, NoAsset, 0)
    <2>1. after_a = a.updated_position /\ after_b = b.updated_position
      BY <1>10, <1>12 DEF try_to_trade
    <2>2. Moves(positions_dict, dict, {id_a}, req_a.collateral_delta, req_a.synthetic_asset_id,
                req_a.synthetic_delta)
      BY <1>1, <1>2, <1>3, <1>10, <1>12, <2>1, UpdateMoves
    <2>3. Moves(positions_dict, dict, {id_a}, c, asset, s)
      <3> HIDE DEF dict
      <3> QED
        BY <1>4, <2>2 DEF c, s
    <2>4. DictInv(dict, market, funding_indices_table)
      BY <2>3 DEF Moves
    <2> HIDE DEF dict
    <2>5. b = update_position(dict[id_b], req_b, market)
      BY <1>10, <1>11
    <2>6. Moves(dict, [dict EXCEPT ![id_b] = b.updated_position], {id_b},
                req_b.collateral_delta, req_b.synthetic_asset_id, req_b.synthetic_delta)
      BY <1>1, <1>2, <1>3, <1>10, <1>12, <2>4, <2>5, UpdateMoves
    <2>7. Moves(dict, last, {id_b}, -c, asset, -s)
      BY <1>4, <2>1, <2>6 DEF last
    <2>8. {id_a} \subseteq PositionIds
      BY <1>2
    <2>9. Moves(positions_dict, last, {id_a} \cup {id_b}, c + -c, asset, s + -s)
      BY <1>1, <1>5, <2>3, <2>7, <2>8, MovesCompose
    <2>10. c + -c = 0 /\ s + -s = 0
      BY <1>5
    <2> QED
      BY <2>9, <2>10, MovesNoAsset
  <1>13. ASSUME ~ (Succeeds(a) /\ Succeeds(b))
         PROVE  Moves(positions_dict, last, {id_a} \cup {id_b}, 0, NoAsset, 0)
    <2>1. after_a = a.funded_position /\ after_b = b.funded_position
      BY <1>10, <1>13 DEF try_to_trade
    <2>2. Moves(positions_dict, dict, {id_a}, 0, NoAsset, 0)
      BY <1>1, <1>2, <1>3, <1>10, <2>1, UpdateMoves
    <2>3. DictInv(dict, market, funding_indices_table)
      BY <2>2 DEF Moves
    <2> HIDE DEF dict
    <2>4. b = update_position(dict[id_b], req_b, market)
      BY <1>10, <1>11
    <2>5. Moves(dict, [dict EXCEPT ![id_b] = b.funded_position], {id_b}, 0, NoAsset, 0)
      BY <1>1, <1>2, <1>3, <1>10, <2>3, <2>4, UpdateMoves
    <2>6. Moves(dict, last, {id_b}, 0, NoAsset, 0)
      BY <2>1, <2>5 DEF last
    <2>7. {id_a} \subseteq PositionIds /\ 0 \in Int
      BY <1>2
    <2>8. Moves(positions_dict, last, {id_a} \cup {id_b}, 0 + 0, NoAsset, 0 + 0)
      BY <1>1, <2>2, <2>6, <2>7, MovesCompose
    <2>9. 0 + 0 = 0
      OBVIOUS
    <2> QED
      BY <2>8, <2>9
  <1>14. Moves(positions_dict, positions_dict', {id_a} \cup {id_b},
               modifications' - modifications, NoAsset, 0)
    BY <1>7, <1>8, <1>12, <1>13
  <1> QED
    BY <1>2, <1>14 DEF Transacts, id_a, id_b

\* Liquidations: the liquidated position is the other side of the order.
LEMMA LiquidateMoves ==
  ASSUME IndInv, NEW o \in LimitOrder, NEW id \in PositionIds, NEW c \in Int, NEW s \in Int,
         NEW f \in Int, Liquidate(o, id, c, s, f)
  PROVE  Transacts({id} \cup ({FeePositionId} \cup {o.position_id}))
PROOF
  <1> DEFINE pos == positions_dict[id]
             funded == position_apply_funding(pos, market)
             req == LiquidatedRequest(funded, o, c, s)
             liquidated == update_position(funded, req, market)
             dict == [positions_dict EXCEPT ![id] = liquidated.updated_position]
             liquidator == execute_limit_order(dict, o, c, s, f)
             asset == o.asset_id_synthetic
             units == IF o.is_buying_synthetic THEN -c ELSE c
             delta == IF o.is_buying_synthetic THEN s ELSE -s
             buyers == {FeePositionId} \cup {o.position_id}
             last == liquidator.positions_dict
  <1>1. MarketInv(market, funding_indices_table)
        /\ DictInv(positions_dict, market, funding_indices_table)
    BY MarketIsPublished DEF IndInv
  <1>2. o.position_id \in PositionIds /\ FeePositionId \in PositionIds
    BY ConfigAssumption DEF LimitOrder
  <1>3. /\ CanFund(pos, market) /\ Succeeds(liquidated) /\ liquidator.success
        /\ positions_dict' = last /\ modifications' = modifications
    BY DEF Liquidate, outputs
  <1>4. PositionInv(pos, market, funding_indices_table) /\ IsFundable(pos, market)
    BY <1>1, DictSums DEF DictInv
  <1>5. PositionInv(funded, market, funding_indices_table)
    BY <1>1, <1>3, <1>4, FundingKeepsPosition
  <1>6. \A x : Gains(funded, pos, market, 0, x, 0)
    BY <1>1, <1>3, <1>4, FundingGains
  <1> HIDE DEF funded
  <1>7. req \in Request
    <2>1. funded.public_key \in PublicKeys \cup {NoKey}
      BY <1>5 DEF PositionInv, IsPosition
    <2> QED
      BY <2>1 DEF LiquidatedRequest, LimitOrder, Request
  <1>8. units \in Int /\ delta \in Int /\ -units \in Int /\ -delta \in Int
    BY DEF LimitOrder
  <1>9. /\ req.collateral_delta = -units /\ req.synthetic_asset_id = asset
        /\ req.synthetic_delta = -delta
    BY DEF LiquidatedRequest, LimitOrder
  <1> HIDE DEF req, units, delta, asset, pos
  <1>10. /\ PositionInv(liquidated.updated_position, market, funding_indices_table)
         /\ Gains(liquidated.updated_position, pos, market, -units, asset, -delta)
    <2>1. PICK result : result = liquidated
      OBVIOUS
    <2>2. result = update_position(funded, req, market) /\ Succeeds(result) /\ ~ Aborts(result)
      BY <1>3, <2>1 DEF Succeeds, Aborts
    <2>3. PositionInv(result.updated_position, market, funding_indices_table)
      BY <1>1, <1>5, <1>7, <2>2, UpdateKeepsPosition
    <2> DEFINE new == result.updated_position
    <2>4. Gains(new, funded, market, req.collateral_delta, req.synthetic_asset_id,
                req.synthetic_delta)
      BY <1>1, <1>5, <1>7, <2>2, UpdateGains
    <2> HIDE DEF new
    <2>5. Gains(new, funded, market, -units, asset, -delta)
      BY <1>9, <2>4
    <2>6. Gains(new, pos, market, -units, asset, -delta)
      BY <1>4, <1>6, <2>5, GainsAfterFunding
    <2> QED
      BY <2>1, <2>3, <2>6 DEF new
  <1>11. Moves(positions_dict, dict, {id}, -units, asset, -delta)
    <2> DEFINE new == liquidated.updated_position
    <2>1. /\ PositionInv(new, market, funding_indices_table)
          /\ Gains(new, positions_dict[id], market, -units, asset, -delta)
      BY <1>10 DEF pos
    <2>2. dict = [positions_dict EXCEPT ![id] = new]
      OBVIOUS
    <2> HIDE DEF new, dict
    <2> QED
      BY <1>1, <1>8, <2>1, <2>2, ReplaceMoves
  <1>12. DictInv(dict, market, funding_indices_table)
    BY <1>11 DEF Moves
  <1> HIDE DEF dict, liquidated
  <1>13. Moves(dict, last, buyers, units, asset, delta)
    BY <1>1, <1>3, <1>12, LimitOrderMoves DEF units, asset, delta
  <1> HIDE DEF last, buyers
  <1>14. Moves(positions_dict, last, {id} \cup buyers, -units + units, asset, -delta + delta)
    <2>1. {id} \subseteq PositionIds
      OBVIOUS
    <2> QED
      BY <1>1, <1>8, <1>11, <1>13, <2>1, MovesCompose
  <1>15. -units + units = modifications' - modifications /\ -delta + delta = 0
    BY <1>3, <1>8 DEF IndInv
  <1>16. Moves(positions_dict, positions_dict', {id} \cup buyers,
               modifications' - modifications, NoAsset, 0)
    BY <1>3, <1>14, <1>15, MovesNoAsset
  <1>17. {id} \cup buyers \subseteq PositionIds
    BY <1>2 DEF buyers
  <1> QED
    BY <1>16, <1>17 DEF Transacts, buyers

\* Deleverages: the deleverager takes what the deleveraged position gives.
LEMMA DeleverageMoves ==
  ASSUME IndInv, NEW id \in PositionIds, NEW other \in PositionIds, NEW a \in Assets,
         NEW buying \in BOOLEAN, NEW c \in Int, NEW s \in Int,
         Deleverage(id, other, a, buying, c, s)
  PROVE  Transacts({id} \cup {other})
PROOF
  <1> DEFINE req == KeylessRequest(a, ~ buying, c, s)
             other_req == KeylessRequest(a, buying, c, s)
             deleveragable == update_position(positions_dict[id], req, market)
             dict == [positions_dict EXCEPT ![id] = deleveragable.updated_position]
             deleverager == update_position(dict[other], other_req, market)
             last == [dict EXCEPT ![other] = deleverager.updated_position]
             units == IF buying THEN c ELSE -c
             delta == IF buying THEN -s ELSE s
  <1>1. MarketInv(market, funding_indices_table)
        /\ DictInv(positions_dict, market, funding_indices_table)
    BY MarketIsPublished DEF IndInv
  <1>2. /\ Succeeds(deleveragable) /\ Succeeds(deleverager)
        /\ positions_dict' = last /\ modifications' = modifications
    BY DEF Deleverage, outputs
  <1>3. req \in Request /\ other_req \in Request
    BY DEF KeylessRequest, Request
  <1>4. /\ req.synthetic_asset_id = a /\ other_req.synthetic_asset_id = a
        /\ req.collateral_delta = units /\ req.synthetic_delta = delta
        /\ other_req.collateral_delta = -units /\ other_req.synthetic_delta = -delta
    BY DEF KeylessRequest
  <1>5. units \in Int /\ delta \in Int /\ -units \in Int /\ -delta \in Int
    OBVIOUS
  <1> HIDE DEF req, other_req, units, delta
  <1>6. Moves(positions_dict, dict, {id}, units, a, delta)
    <2>1. ~ Aborts(deleveragable)
      BY <1>2 DEF Succeeds, Aborts
    <2>2. Moves(positions_dict, dict, {id}, req.collateral_delta, req.synthetic_asset_id,
                req.synthetic_delta)
      BY <1>1, <1>2, <1>3, <2>1, UpdateMoves
    <2> HIDE DEF dict
    <2> QED
      BY <1>4, <2>2
  <1>7. DictInv(dict, market, funding_indices_table)
    BY <1>6 DEF Moves
  <1> HIDE DEF dict
  <1>8. Moves(dict, last, {other}, -units, a, -delta)
    <2>1. ~ Aborts(deleverager)
      BY <1>2 DEF Succeeds, Aborts
    <2>2. Moves(dict, last, {other}, other_req.collateral_delta, other_req.synthetic_asset_id,
                other_req.synthetic_delta)
      BY <1>1, <1>2, <1>3, <1>7, <2>1, UpdateMoves
    <2> HIDE DEF last
    <2> QED
      BY <1>4, <2>2
  <1> HIDE DEF last
  <1>9. Moves(positions_dict, last, {id} \cup {other}, units + -units, a, delta + -delta)
    <2>1. {id} \subseteq PositionIds
      OBVIOUS
    <2> QED
      BY <1>1, <1>5, <1>6, <1>8, <2>1, MovesCompose
  <1>10. units + -units = modifications' - modifications /\ delta + -delta = 0
    BY <1>2, <1>5 DEF IndInv
  <1>11. Moves(positions_dict, positions_dict', {id} \cup {other},
               modifications' - modifications, NoAsset, 0)
    BY <1>2, <1>9, <1>10, MovesNoAsset
  <1> QED
    BY <1>11 DEF Transacts

\* Every user transaction is such a move, within one market.
LEMMA UserTransactionMoves ==
  ASSUME IndInv, UserTransaction
  PROVE  (\E parties : Transacts(parties)) /\ market' = market
PROOF
  <1> USE RequestsAssumption
  <1>1. ASSUME NEW tx \in Deposits, Deposit(tx) PROVE \E parties : Transacts(parties)
    BY <1>1, ChangeCollateralMoves DEF Deposit, Collateral
  <1>2. ASSUME NEW tx \in Withdrawals, Withdrawal(tx) PROVE \E parties : Transacts(parties)
    <2>1. tx \in SignedWithdrawal
      OBVIOUS
    <2>2. /\ tx.position_id \in PositionIds /\ tx.public_key \in PublicKeys \cup {NoKey}
          /\ tx.amount \in Int /\ -tx.amount \in Int
      BY <2>1 DEF SignedWithdrawal
    <2>3. modifications' = modifications + -tx.amount
      BY <1>2, <2>2 DEF Withdrawal, IndInv
    <2> QED
      BY <1>2, <2>2, <2>3, ChangeCollateralMoves DEF Withdrawal
  <1>3. ASSUME NEW tx \in SignedTransfer, MoveCollateral(tx) PROVE \E parties : Transacts(parties)
    BY <1>3, MoveCollateralMoves
  <1>4. ASSUME NEW tx \in ForcedWithdrawals, NEW is_valid \in BOOLEAN,
               ForcedWithdrawal(tx, is_valid)
        PROVE  \E parties : Transacts(parties)
    BY <1>4, ForcedWithdrawalMoves
  <1>5. ASSUME AnyTrade PROVE \E parties : Transacts(parties)
    <2>1. PICK a \in LimitOrders, b \in LimitOrders, c \in CollateralAmounts,
               s \in SyntheticAmounts, f \in Fees, g \in Fees : Trade(a, b, c, s, f, g)
      BY <1>5 DEF AnyTrade
    <2> QED
      BY <2>1, TradeMoves
  <1>6. ASSUME AnyForcedTrade PROVE \E parties : Transacts(parties)
    <2>1. PICK tx \in ForcedTrades, is_valid \in BOOLEAN : ExecuteForcedTrade(tx, is_valid)
      BY <1>6 DEF AnyForcedTrade
    <2> QED
      BY <2>1, ForcedTradeMoves
  <1>7. ASSUME AnyLiquidate PROVE \E parties : Transacts(parties)
    <2>1. PICK o \in LimitOrders, id \in PositionIds, c \in CollateralAmounts,
               s \in SyntheticAmounts, f \in Fees : Liquidate(o, id, c, s, f)
      BY <1>7 DEF AnyLiquidate
    <2> QED
      BY <2>1, LiquidateMoves
  <1>8. ASSUME AnyDeleverage PROVE \E parties : Transacts(parties)
    <2>1. PICK id \in PositionIds, other \in PositionIds, a \in Assets, buying \in BOOLEAN,
               c \in CollateralAmounts, s \in SyntheticAmounts :
                 Deleverage(id, other, a, buying, c, s)
      BY <1>8 DEF AnyDeleverage
    <2> QED
      BY <2>1, DeleverageMoves
  <1>9. market' = market
    BY UserTransactionSettles DEF globals, market
  <1> QED
    BY <1>1, <1>2, <1>3, <1>4, <1>5, <1>6, <1>7, <1>8, <1>9
    DEF UserTransaction, Transfer, ConditionalTransfer

-----------------------------------------------------------------------------
(* The ticks.                                                              *)

\* A claim reads the market's indices, not its prices.
LEMMA WorthReadsIndices ==
  ASSUME NEW pos, NEW m, NEW n, m.indices = n.indices
  PROVE  Worth(pos, m) = Worth(pos, n)
BY DEF Worth, FundingDue

\* What a tick makes position p pay for each asset of the previous indices.
Paid(p, new) ==
  [a \in DOMAIN global_funding_indices.indices |->
     (new.indices[a] - global_funding_indices.indices[a])
       * position_get_asset_balance(positions_dict[p], a)]

\* The indices before and after a tick, and the balances they multiply.
LEMMA PaidType ==
  ASSUME IndInv, NEW new, IsFundingIndicesInfo(new), FundingTick(new)
  PROVE  LET D == DOMAIN global_funding_indices.indices
         IN  /\ D \subseteq Assets /\ IsFiniteSet(D) /\ D \subseteq DOMAIN new.indices
             /\ \A a \in D : /\ new.indices[a] \in Int
                             /\ global_funding_indices.indices[a] \in Int
                             /\ new.indices[a] - global_funding_indices.indices[a] \in Int
             /\ \A p \in PositionIds : \A a \in D : Paid(p, new)[a] \in Int
PROOF
  <1> DEFINE D == DOMAIN global_funding_indices.indices
  <1>1. D \subseteq Assets /\ \A a \in D : global_funding_indices.indices[a] \in Int
    BY DEF IndInv, GlobalsInv, IsFundingIndicesInfo, IsPartial
  <1>2. IsFiniteSet(D)
    BY <1>1, NamesAssumption, FS_Subset
  <1>3. D \subseteq DOMAIN new.indices
    BY DEF FundingTick, validate_funding_tick
  <1>4. \A a \in D : new.indices[a] \in Int
    BY <1>3 DEF IsFundingIndicesInfo, IsPartial
  <1>5. ASSUME NEW p \in PositionIds, NEW a \in D PROVE Paid(p, new)[a] \in Int
    <2>1. position_get_asset_balance(positions_dict[p], a) \in Int
      BY BalanceType DEF IndInv, DictInv, PositionInv
    <2> DEFINE x == new.indices[a]
               y == global_funding_indices.indices[a]
               b == position_get_asset_balance(positions_dict[p], a)
    <2>2. x \in Int /\ y \in Int /\ b \in Int
      BY <1>1, <1>4, <2>1
    <2>3. Paid(p, new)[a] = (x - y) * b
      BY DEF Paid
    <2> HIDE DEF x, y, b
    <2> QED
      BY <2>2, <2>3
  <1>6. \A a \in D : new.indices[a] - global_funding_indices.indices[a] \in Int
    BY <1>1, <1>4
  <1> QED
    BY <1>1, <1>2, <1>3, <1>4, <1>5, <1>6

\* A tick takes from each claim what the position has to pay.
LEMMA TickTakesPaid ==
  ASSUME IndInv, NEW new, IsFundingIndicesInfo(new), FundingTick(new), NEW p \in PositionIds
  PROVE  Worth(positions_dict[p], market')
           = Worth(positions_dict[p], market)
               - SumFunctionOnSet(Paid(p, new), DOMAIN global_funding_indices.indices)
PROOF
  <1> DEFINE pos == positions_dict[p]
             D == DOMAIN global_funding_indices.indices
             f == [a \in Held(pos) |-> Due(pos, market, a)]
             h == [a \in Held(pos) |-> Due(pos, market', a)]
             paid == Paid(p, new)
  <1>1. IndInv' /\ positions_dict' = positions_dict /\ market'.indices = new.indices
        /\ market.indices = global_funding_indices.indices
    BY FundingTickKeepsInv DEF FundingTick, market
  <1>2. IsFundable(pos, market)
    BY MarketIsPublished, PositionIsFundable DEF IndInv, DictInv
  <1>3. IsFundable(pos, market')
    <2>1. IsMarket(market')
      BY <1>1 DEF IndInv, GlobalsInv, IsFundingIndicesInfo, IsMarket, market
    <2>2. Held(pos) \subseteq D
      BY <1>1, <1>2 DEF IsFundable
    <2>3. D \subseteq DOMAIN market'.indices
      BY <1>1, PaidType
    <2> QED
      BY <1>2, <2>1, <2>2, <2>3 DEF IsFundable
  <1>4. /\ IsFiniteSet(Held(pos)) /\ \A a \in Held(pos) : f[a] \in Int
        /\ FundingDue(pos, market) = SumFunctionOnSet(f, Held(pos))
        /\ FundingDue(pos, market) \in Int
    BY <1>2, FundingDueType
  <1>5. /\ FundingDue(pos, market') = SumFunctionOnSet(h, Held(pos))
        /\ FundingDue(pos, market') \in Int
    BY <1>3, FundingDueType
  <1>6. Held(pos) \subseteq D /\ IsFiniteSet(D) /\ \A a \in D : paid[a] \in Int
    BY <1>1, <1>2, PaidType DEF IsFundable
  <1>7. \A a \in Held(pos) : h[a] = f[a] + paid[a]
    <2> SUFFICES ASSUME NEW a \in Held(pos)
                 PROVE  Due(pos, market', a) = Due(pos, market, a) + paid[a]
      OBVIOUS
    <2> DEFINE x == new.indices[a]
               y == global_funding_indices.indices[a]
               z == pos.assets[a].cached_funding_index
               b == pos.assets[a].balance
    <2>1. x \in Int /\ y \in Int
      BY <1>6, PaidType
    <2>2. z \in Int /\ b \in Int
      BY <1>2 DEF IsFundable, IsPosition, IsPartial, PositionAsset, Held
    <2>3. /\ Due(pos, market', a) = (x - z) * b /\ Due(pos, market, a) = (y - z) * b
      BY <1>1 DEF Due
    <2>4. paid[a] = (x - y) * b
      BY <1>6 DEF Paid, position_get_asset_balance
    <2> HIDE DEF x, y, z, b, paid
    <2>5. (x - z) * b = (y - z) * b + (x - y) * b
      BY <2>1, <2>2
    <2> QED
      BY <2>3, <2>4, <2>5
  <1>8. \A a \in D \ Held(pos) : paid[a] = 0
    <2> SUFFICES ASSUME NEW a \in D \ Held(pos) PROVE paid[a] = 0
      OBVIOUS
    <2>1. new.indices[a] - global_funding_indices.indices[a] \in Int
      BY PaidType
    <2>2. paid[a] = (new.indices[a] - global_funding_indices.indices[a]) * 0
      BY DEF Paid, position_get_asset_balance
    <2> DEFINE x == new.indices[a] - global_funding_indices.indices[a]
    <2>3. x \in Int /\ paid[a] = x * 0
      BY <2>1, <2>2
    <2> HIDE DEF x
    <2> QED
      BY <2>3
  <1> HIDE DEF f, h, paid
  <1>9. SumFunctionOnSet(paid, D) = SumFunctionOnSet(paid, Held(pos))
    BY <1>6, <1>8, SumWithoutZeros
  <1>10. SumFunctionOnSet(h, Held(pos))
           = SumFunctionOnSet(f, Held(pos)) + SumFunctionOnSet(paid, Held(pos))
    BY <1>4, <1>6, <1>7, SumAdds
  <1>11. SumFunctionOnSet(paid, D) \in Int
    BY <1>6, SumType
  <1>12. FundingDue(pos, market') = FundingDue(pos, market) + SumFunctionOnSet(paid, D)
    BY <1>4, <1>5, <1>9, <1>10
  <1> DEFINE w == pos.collateral_balance * FXP_32_ONE
             d == FundingDue(pos, market)
             e == FundingDue(pos, market')
             t == SumFunctionOnSet(paid, D)
  <1>13. w \in Int /\ d \in Int /\ t \in Int /\ e = d + t
    <2>1. pos.collateral_balance \in Int
      BY <1>2 DEF IsFundable, IsPosition
    <2> QED
      BY <1>4, <1>11, <1>12, <2>1, BoundsAssumption
  <1>14. Worth(pos, market') = w - e /\ Worth(pos, market) = w - d
    BY DEF Worth
  <1> HIDE DEF w, d, e, t
  <1>15. Worth(pos, market') = Worth(pos, market) - t
    BY <1>13, <1>14
  <1> QED
    BY <1>15 DEF t, paid

\* All positions together pay nothing: what one pays another receives.
LEMMA TickPaysNothing ==
  ASSUME IndInv, SyntheticsNetToZero, NEW new, IsFundingIndicesInfo(new), FundingTick(new),
         NEW row, \A p \in PositionIds :
           row[p] = SumFunctionOnSet(Paid(p, new), DOMAIN global_funding_indices.indices)
  PROVE  /\ \A p \in PositionIds : row[p] \in Int
         /\ SumFunctionOnSet(row, PositionIds) = 0
PROOF
  <1> DEFINE D == DOMAIN global_funding_indices.indices
             table == [p \in PositionIds |-> Paid(p, new)]
             turned == [a \in D |-> [p \in PositionIds |-> table[p][a]]]
             column == [a \in D |-> SumFunctionOnSet(turned[a], PositionIds)]
  <1>1. /\ D \subseteq Assets /\ IsFiniteSet(D)
        /\ \A p \in PositionIds : \A a \in D : table[p][a] \in Int
    BY PaidType
  <1>2. \A p \in PositionIds : row[p] = SumFunctionOnSet(table[p], D)
    OBVIOUS
  <1>3. \A a \in D : /\ column[a] = SumFunctionOnSet(turned[a], PositionIds)
                     /\ \A p \in PositionIds : turned[a][p] = table[p][a]
    OBVIOUS
  <1>4. \A a \in D : column[a] = 0
    <2> SUFFICES ASSUME NEW a \in D PROVE column[a] = 0
      OBVIOUS
    <2> DEFINE x == new.indices[a] - global_funding_indices.indices[a]
               b == BalanceOf(positions_dict, a)
               e == [p \in PositionIds |-> table[p][a]]
               z == [p \in PositionIds |-> 0]
    <2>1. x \in Int
      BY PaidType
    <2>2. \A p \in PositionIds : b[p] \in Int /\ b[p] = position_get_asset_balance(positions_dict[p], a)
      BY MarketIsPublished, DictSums DEF IndInv
    <2>3. \A p \in PositionIds : e[p] = x * b[p]
      BY <2>2 DEF Paid
    <2>4. SumFunctionOnSet(b, PositionIds) = 0
      BY <1>1 DEF SyntheticsNetToZero, SumFunction, BalanceOf
    <2>5. \A p \in PositionIds : z[p] \in Int /\ z[p] = 0
      OBVIOUS
    <2>6. column[a] = SumFunctionOnSet(e, PositionIds)
      OBVIOUS
    <2> HIDE DEF x, b, e, z, column, turned, table
    <2>7. SumFunctionOnSet(z, PositionIds) = 0
      BY <2>5, ConfigAssumption, SumOfZeros
    <2>8. \A p \in PositionIds : z[p] \in Int /\ b[p] \in Int /\ e[p] = z[p] + x * b[p]
      <3> SUFFICES ASSUME NEW p \in PositionIds PROVE e[p] = z[p] + x * b[p]
        BY <2>2, <2>5
      <3>1. x * b[p] \in Int
        BY <2>1, <2>2
      <3> QED
        BY <2>3, <2>5, <3>1
    <2>9. SumFunctionOnSet(e, PositionIds)
            = SumFunctionOnSet(z, PositionIds) + x * SumFunctionOnSet(b, PositionIds)
      BY <2>1, <2>8, ConfigAssumption, SumIsLinear
    <2> QED
      BY <2>1, <2>4, <2>6, <2>7, <2>9
  <1> HIDE DEF D, table, turned, column
  <1>5. SumFunctionOnSet(row, PositionIds) = SumFunctionOnSet(column, D)
    <2>1. IsFiniteSet(PositionIds) /\ IsFiniteSet(D)
      BY <1>1, ConfigAssumption
    <2>2. Transposes(turned, table, PositionIds, D)
      BY <1>1, <1>3 DEF Transposes
    <2>3. SumsRows(row, table, PositionIds, D) /\ SumsRows(column, turned, D, PositionIds)
      BY <1>2, <1>3 DEF SumsRows
    <2> QED
      BY <2>1, <2>2, <2>3, SumByColumns
  <1>6. SumFunctionOnSet(column, D) = 0
    BY <1>1, <1>4, SumOfZeros
  <1>7. \A p \in PositionIds : row[p] \in Int
    BY <1>1, <1>2, SumType
  <1> QED
    BY <1>5, <1>6, <1>7

\* So a tick leaves the sum of the claims as it is.
LEMMA TickKeepsWorth ==
  ASSUME IndInv, SyntheticsNetToZero, NEW new, IsFundingIndicesInfo(new), FundingTick(new)
  PROVE  SumFunctionOnSet(WorthOf(positions_dict), PositionIds)'
           = SumFunctionOnSet(WorthOf(positions_dict), PositionIds)
PROOF
  <1> DEFINE row == [p \in PositionIds |->
                       SumFunctionOnSet(Paid(p, new), DOMAIN global_funding_indices.indices)]
             f == WorthOf(positions_dict)
             h == WorthOf(positions_dict)'
  <1>1. IndInv' /\ positions_dict' = positions_dict
    BY FundingTickKeepsInv DEF FundingTick
  <1>2. (\A p \in PositionIds : row[p] \in Int) /\ SumFunctionOnSet(row, PositionIds) = 0
    <2>1. \A p \in PositionIds :
            row[p] = SumFunctionOnSet(Paid(p, new), DOMAIN global_funding_indices.indices)
      OBVIOUS
    <2> HIDE DEF row
    <2> QED
      BY <2>1, TickPaysNothing
  <1>3. \A p \in PositionIds : f[p] \in Int /\ f[p] = Worth(positions_dict[p], market)
    BY MarketIsPublished, DictSums DEF IndInv
  <1>4. \A p \in PositionIds : h[p] = Worth(positions_dict[p], market')
    BY <1>1 DEF WorthOf
  <1>5. \A p \in PositionIds : h[p] = f[p] - row[p]
    BY <1>3, <1>4, TickTakesPaid
  <1> HIDE DEF row, f, h
  <1>6. \A p \in PositionIds : h[p] \in Int /\ row[p] \in Int /\ f[p] = h[p] + row[p]
    BY <1>2, <1>3, <1>5
  <1>7. SumFunctionOnSet(f, PositionIds)
          = SumFunctionOnSet(h, PositionIds) + SumFunctionOnSet(row, PositionIds)
    BY <1>6, ConfigAssumption, SumAdds
  <1>8. SumFunctionOnSet(h, PositionIds) \in Int
    BY <1>6, ConfigAssumption, SumType
  <1>9. SumFunctionOnSet(f, PositionIds) = SumFunctionOnSet(h, PositionIds)
    BY <1>2, <1>7, <1>8
  <1> QED
    BY <1>9 DEF f, h

-----------------------------------------------------------------------------
(* The invariants of the ledger.  FundingNeverMints is not inductive: it   *)
(* takes that the synthetic assets net to zero, so that a funding tick     *)
(* makes no claim, and the invariant of the positions, so that settling a  *)
(* position only loses it the fraction of a unit.                          *)

LedgerInv == IndInv /\ SyntheticsNetToZero /\ FundingNeverMints

\* The invariants in terms of sums over a set.
LEMMA InvariantsAreSums ==
  /\ SyntheticsNetToZero <=>
       \A a \in Assets : SumFunctionOnSet(BalanceOf(positions_dict, a), PositionIds) = 0
  /\ FundingNeverMints <=>
       SumFunctionOnSet(WorthOf(positions_dict), PositionIds) <= modifications * FXP_32_ONE
BY DEF SyntheticsNetToZero, FundingNeverMints, SumFunction, BalanceOf, WorthOf, Claim, Worth

\* And after a step.
LEMMA NextInvariantsAreSums ==
  /\ SyntheticsNetToZero' <=>
       \A a \in Assets : SumFunctionOnSet(BalanceOf(positions_dict', a), PositionIds) = 0
  /\ FundingNeverMints' <=>
       SumFunctionOnSet(WorthOf(positions_dict)', PositionIds) <= modifications' * FXP_32_ONE
BY DEF SyntheticsNetToZero, FundingNeverMints, SumFunction, BalanceOf, WorthOf, Claim, Worth

\* An exchange without positions has no claims and no balances.
LEMMA EmptyLedger ==
  ASSUME Init, NEW p \in PositionIds
  PROVE  /\ Worth(positions_dict[p], market) = 0
         /\ \A a : position_get_asset_balance(positions_dict[p], a) = 0
PROOF
  <1>1. positions_dict[p] = EmptyPosition
    BY DEF Init
  <1>2. Held(EmptyPosition) = {} /\ EmptyPosition.collateral_balance = 0
    BY DEF EmptyPosition, NoAssets, Held
  <1>3. Worth(EmptyPosition, market) = 0
    BY <1>2, BoundsAssumption DEF Worth, FundingDue
  <1> QED
    BY <1>1, <1>2, <1>3 DEF position_get_asset_balance

LEMMA InitLedger ==
  ASSUME Init
  PROVE  LedgerInv
PROOF
  <1>1. SumFunctionOnSet(WorthOf(positions_dict), PositionIds) = 0
    <2>1. \A p \in PositionIds : WorthOf(positions_dict)[p] = 0
      BY EmptyLedger DEF WorthOf
    <2> QED
      BY <2>1, ConfigAssumption, SumOfZeros
  <1>2. ASSUME NEW a \in Assets
        PROVE  SumFunctionOnSet(BalanceOf(positions_dict, a), PositionIds) = 0
    <2>1. \A p \in PositionIds : BalanceOf(positions_dict, a)[p] = 0
      BY EmptyLedger DEF BalanceOf
    <2> QED
      BY <2>1, ConfigAssumption, SumOfZeros
  <1>3. 0 <= modifications * FXP_32_ONE
    BY BoundsAssumption DEF Init
  <1> QED
    BY <1>1, <1>2, <1>3, InitHolds, InvariantsAreSums DEF LedgerInv

\* Transactions keep the sums in balance.
LEMMA TransactionKeepsLedger ==
  ASSUME LedgerInv, NEW parties, Transacts(parties), market' = market, modifications' \in Int
  PROVE  SyntheticsNetToZero' /\ FundingNeverMints'
PROOF
  <1> DEFINE units == modifications' - modifications
             new == positions_dict'
             w(dict) == SumFunctionOnSet(WorthOf(dict), PositionIds)
             b(dict, a) == SumFunctionOnSet(BalanceOf(dict, a), PositionIds)
  <1>1. Moves(positions_dict, new, parties, units, NoAsset, 0)
    BY DEF Transacts
  <1>2. MarketInv(market, funding_indices_table)
        /\ DictInv(positions_dict, market, funding_indices_table)
        /\ DictInv(new, market, funding_indices_table)
    BY <1>1, MarketIsPublished DEF LedgerInv, IndInv, Moves
  <1>3. SumFunctionOnSet(WorthOf(positions_dict)', PositionIds) = w(new)
    BY DEF WorthOf
  <1>4. /\ w(positions_dict) \in Int /\ w(new) \in Int
        /\ w(positions_dict) <= modifications * FXP_32_ONE
        /\ w(new) <= w(positions_dict) + units * FXP_32_ONE
    BY <1>1, <1>2, DictSums, InvariantsAreSums DEF LedgerInv, Moves
  <1>5. w(new) <= modifications' * FXP_32_ONE
    <2> DEFINE k == units * FXP_32_ONE
               l == modifications * FXP_32_ONE
    <2>1. modifications \in Int /\ k \in Int /\ l \in Int
      BY BoundsAssumption DEF LedgerInv, IndInv
    <2>2. modifications' * FXP_32_ONE = l + k
      BY <2>1, BoundsAssumption
    <2>3. w(new) <= w(positions_dict) + k /\ w(positions_dict) <= l
      BY <1>4
    <2> HIDE DEF k, l, w
    <2> QED
      BY <1>4, <2>1, <2>2, <2>3
  <1>6. ASSUME NEW a \in Assets PROVE b(new, a) = 0
    <2>1. b(positions_dict, a) = 0
      BY InvariantsAreSums DEF LedgerInv
    <2>2. b(new, a) = b(positions_dict, a) + (IF a = NoAsset THEN 0 ELSE 0)
      BY <1>1 DEF Moves
    <2> HIDE DEF b
    <2> QED
      BY <2>1, <2>2
  <1> QED
    BY <1>3, <1>5, <1>6, NextInvariantsAreSums

\* So does a tick of the funding, in which the claims change.
LEMMA FundingTickKeepsLedger ==
  ASSUME LedgerInv, NEW new, IsFundingIndicesInfo(new), FundingTick(new)
  PROVE  SyntheticsNetToZero' /\ FundingNeverMints'
PROOF
  <1>1. positions_dict' = positions_dict /\ modifications' = modifications
    BY DEF FundingTick
  <1>2. SumFunctionOnSet(WorthOf(positions_dict)', PositionIds)
          = SumFunctionOnSet(WorthOf(positions_dict), PositionIds)
    BY TickKeepsWorth DEF LedgerInv
  <1>3. SyntheticsNetToZero'
    BY <1>1 DEF LedgerInv, SyntheticsNetToZero
  <1>4. FundingNeverMints'
    BY <1>1, <1>2, InvariantsAreSums, NextInvariantsAreSums DEF LedgerInv
  <1> QED
    BY <1>3, <1>4

\* A step that keeps the positions, the indices and the vault keeps the claims.
LEMMA ClaimsReadIndices ==
  ASSUME UNCHANGED <<positions_dict, global_funding_indices, modifications>>
  PROVE  /\ \A p \in PositionIds : Worth(positions_dict'[p], market')
                                     = Worth(positions_dict[p], market)
         /\ WorthOf(positions_dict)' = WorthOf(positions_dict)
         /\ SyntheticsNetToZero' <=> SyntheticsNetToZero
         /\ FundingNeverMints' <=> FundingNeverMints
PROOF
  <1>1. market'.indices = market.indices
    BY DEF market
  <1>2. \A p \in PositionIds : Worth(positions_dict'[p], market') = Worth(positions_dict[p], market)
    BY <1>1, WorthReadsIndices
  <1>3. WorthOf(positions_dict)' = WorthOf(positions_dict)
    BY <1>2 DEF WorthOf
  <1>4. SyntheticsNetToZero' <=> SyntheticsNetToZero
    BY DEF SyntheticsNetToZero
  <1>5. FundingNeverMints' <=> FundingNeverMints
    BY <1>3, InvariantsAreSums, NextInvariantsAreSums
  <1> QED
    BY <1>2, <1>3, <1>4, <1>5

\* What a tick is: one of the funding, or one of the prices that the ledger
\* does not see.
LEMMA TickIsFundingOrPrices ==
  ASSUME Tick
  PROVE  \/ \E new : IsFundingIndicesInfo(new) /\ FundingTick(new)
         \/ UNCHANGED <<positions_dict, global_funding_indices, modifications>>
PROOF
  <1>1. PICK assets \in SUBSET Assets, time \in 0 .. MaxTime :
          \/ \E indices \in [assets -> FundingIndexValues] :
               FundingTick([indices |-> indices, funding_timestamp |-> time])
          \/ \E prices \in [assets -> PriceValues] : OraclePricesTick(prices, time)
    BY DEF Tick
  <1>2. CASE \E indices \in [assets -> FundingIndexValues] :
               FundingTick([indices |-> indices, funding_timestamp |-> time])
    <2>1. PICK indices \in [assets -> FundingIndexValues] :
            FundingTick([indices |-> indices, funding_timestamp |-> time])
      BY <1>2
    <2>2. IsFundingIndicesInfo([indices |-> indices, funding_timestamp |-> time])
      <3>1. time \in Nat
        BY <1>1, ConfigAssumption
      <3> QED
        BY <2>1, <3>1, RequestsAssumption DEF IsFundingIndicesInfo, IsPartial
    <2> QED
      BY <2>1, <2>2
  <1>3. CASE \E prices \in [assets -> PriceValues] : OraclePricesTick(prices, time)
    BY <1>3 DEF OraclePricesTick, outputs
  <1> QED
    BY <1>1, <1>2, <1>3

\* Every step keeps the ledger in balance.
LEMMA NextKeepsLedger ==
  ASSUME LedgerInv, [Next]_vars
  PROVE  LedgerInv'
PROOF
  <1>1. IndInv'
    BY NextKeepsInv DEF LedgerInv
  <1>2. CASE UserTransaction
    BY <1>1, <1>2, UserTransactionMoves, UserTransactionSettles, TransactionKeepsLedger
    DEF LedgerInv
  <1>3. CASE Tick
    <2>1. CASE \E new : IsFundingIndicesInfo(new) /\ FundingTick(new)
      BY <1>1, <2>1, FundingTickKeepsLedger DEF LedgerInv
    <2>2. CASE UNCHANGED <<positions_dict, global_funding_indices, modifications>>
      BY <1>1, <2>2, ClaimsReadIndices DEF LedgerInv
    <2> QED
      BY <1>3, <2>1, <2>2, TickIsFundingOrPrices
  <1>4. CASE UNCHANGED vars
    BY <1>1, <1>4, ClaimsReadIndices DEF LedgerInv, vars, globals, outputs
  <1> QED
    BY <1>2, <1>3, <1>4 DEF Next

\* The claims never exceed the collateral, and the synthetic assets net to zero,
\* in every reachable state.
THEOREM LedgerInvariant == Spec => []LedgerInv
PROOF
  <1>1. Init => LedgerInv
    BY InitLedger
  <1>2. LedgerInv /\ [Next]_vars => LedgerInv'
    BY NextKeepsLedger
  <1> QED
    BY <1>1, <1>2, PTL DEF Spec

\* Whatever one position is long others are short, for any number of positions:
\* trades, liquidations, deleverages and forced trades move equal and opposite
\* amounts.
THEOREM SyntheticAssetsNetToZero == Spec => []SyntheticsNetToZero
PROOF
  <1>1. LedgerInv => SyntheticsNetToZero
    BY DEF LedgerInv
  <1> QED
    BY <1>1, LedgerInvariant, PTL

\* funding.cairo:107-113: however late each position settles its funding, and
\* in whatever order, rounding never makes collateral.
THEOREM FundingMintsNothing == Spec => []FundingNeverMints
PROOF
  <1>1. LedgerInv => FundingNeverMints
    BY DEF LedgerInv
  <1> QED
    BY <1>1, LedgerInvariant, PTL

-----------------------------------------------------------------------------
(* The exchange implements the ledger in which everyone pays at once.      *)

claims == [p \in PositionIds |-> Claim(p)]
synthetics == [p \in PositionIds |->
                 [a \in Assets |-> position_get_asset_balance(positions_dict[p], a)]]

\* The ledger sums as the exchange does.
LEMMA LedgerSumsAlike == \A f : Ledger!SumFunction(f) = SumFunction(f)
BY DEF Ledger!SumFunction, Ledger!SumFunctionOnSet, Ledger!FoldFunctionOnSet,
       Ledger!MapThenFoldSet, SumFunction, SumFunctionOnSet, FoldFunctionOnSet, MapThenFoldSet

\* The refinement mapping, and its values after a step.
LEMMA MappedValues ==
  /\ \A p \in PositionIds : claims[p] = Worth(positions_dict[p], market)
  /\ \A p \in PositionIds : claims'[p] = Worth(positions_dict'[p], market')
  /\ \A p \in PositionIds : \A a \in Assets :
       /\ synthetics[p][a] = position_get_asset_balance(positions_dict[p], a)
       /\ synthetics'[p][a] = position_get_asset_balance(positions_dict'[p], a)
BY DEF claims, synthetics, Claim, Worth

\* It starts as the ledger does.
LEMMA RefinesInit ==
  ASSUME Init
  PROVE  Ledger!Init
PROOF
  <1>1. \A p \in PositionIds : claims[p] = 0 /\ \A a \in Assets : synthetics[p][a] = 0
    BY EmptyLedger, MappedValues
  <1>2. claims = [p \in PositionIds |-> 0]
    BY <1>1 DEF claims
  <1>3. synthetics = [p \in PositionIds |-> [a \in Assets |-> 0]]
    BY <1>1 DEF synthetics
  <1> QED
    BY <1>2, <1>3 DEF Init, NoIndices, Ledger!Init, claims, synthetics

\* A transaction is one of the ledger's: the whole units that the positions gain
\* are what the vault gains.
LEMMA RefinesTransact ==
  ASSUME IndInv, NEW parties, Transacts(parties), market' = market,
         UNCHANGED global_funding_indices, modifications \in Int, modifications' \in Int
  PROVE  Ledger!Transact(parties)
PROOF
  <1> DEFINE new == positions_dict'
             units == modifications' - modifications
             gained == [p \in PositionIds |-> claims'[p] \div FXP_32_ONE - claims[p] \div FXP_32_ONE]
             moved(a) == [p \in PositionIds |-> synthetics'[p][a] - synthetics[p][a]]
  <1>1. Moves(positions_dict, new, parties, units, NoAsset, 0) /\ parties \subseteq PositionIds
    BY DEF Transacts
  <1>2. MarketInv(market, funding_indices_table)
        /\ DictInv(positions_dict, market, funding_indices_table)
        /\ DictInv(new, market, funding_indices_table)
    BY <1>1, MarketIsPublished DEF IndInv, Moves
  <1>3. \A p \in PositionIds : /\ claims[p] = Worth(positions_dict[p], market)
                               /\ claims'[p] = Worth(new[p], market)
    BY MappedValues
  <1>4. \A p \in parties : claims'[p] % FXP_32_ONE = 0
    BY <1>1, <1>3 DEF Moves
  <1>5. \A p \in PositionIds \ parties :
          claims'[p] = claims[p] /\ synthetics'[p] = synthetics[p]
    <2>1. \A p \in PositionIds \ parties : new[p] = positions_dict[p]
      BY <1>1 DEF Moves
    <2> QED
      BY <1>3, <2>1 DEF synthetics
  <1>6. SumFunction(gained) = units
    <2> DEFINE f == CollateralOf(positions_dict)
               h == CollateralOf(new)
    <2>1. /\ \A p \in PositionIds : f[p] \in Int /\ h[p] \in Int
          /\ SumFunctionOnSet(f, PositionIds) \in Int
          /\ \A p \in PositionIds : /\ f[p] = FundedCollateral(positions_dict[p], market)
                                    /\ h[p] = FundedCollateral(new[p], market)
      BY <1>2, DictSums
    <2>2. \A p \in PositionIds : /\ f[p] = claims[p] \div FXP_32_ONE
                                 /\ h[p] = claims'[p] \div FXP_32_ONE
      BY <1>2, <1>3, <2>1, DictSums, FundedCollateralIsFloor
    <2>3. SumFunctionOnSet(h, PositionIds) = SumFunctionOnSet(f, PositionIds) + units
      BY <1>1 DEF Moves
    <2>4. \A p \in PositionIds : gained[p] = h[p] - f[p]
      BY <2>2
    <2>5. SumFunction(gained) = SumFunctionOnSet(gained, PositionIds)
      BY DEF SumFunction
    <2> HIDE DEF f, h, gained, units
    <2>6. \A p \in PositionIds : f[p] \in Int /\ gained[p] \in Int /\ h[p] = f[p] + gained[p]
      BY <2>1, <2>4
    <2>7. SumFunctionOnSet(h, PositionIds)
            = SumFunctionOnSet(f, PositionIds) + SumFunctionOnSet(gained, PositionIds)
      BY <2>6, ConfigAssumption, SumAdds
    <2>8. SumFunctionOnSet(gained, PositionIds) \in Int
      BY <2>6, ConfigAssumption, SumType
    <2>9. units \in Int /\ SumFunctionOnSet(f, PositionIds) \in Int
      BY <2>1 DEF units
    <2>10. \A x, y, z \in Int : x + y = x + z => y = z
      OBVIOUS
    <2>11. SumFunctionOnSet(f, PositionIds) + units
             = SumFunctionOnSet(f, PositionIds) + SumFunctionOnSet(gained, PositionIds)
      BY <2>3, <2>7
    <2>12. SumFunctionOnSet(gained, PositionIds) = units
      BY <2>8, <2>9, <2>10, <2>11
    <2> QED
      BY <2>5, <2>12
  <1>7. ASSUME NEW a \in Assets PROVE SumFunction(moved(a)) = 0
    <2> DEFINE f == BalanceOf(positions_dict, a)
               h == BalanceOf(new, a)
               g == moved(a)
    <2>1. /\ \A p \in PositionIds : f[p] \in Int /\ h[p] \in Int
          /\ SumFunctionOnSet(f, PositionIds) \in Int
          /\ \A p \in PositionIds : /\ f[p] = position_get_asset_balance(positions_dict[p], a)
                                    /\ h[p] = position_get_asset_balance(new[p], a)
      BY <1>2, DictSums
    <2>2. SumFunctionOnSet(h, PositionIds)
            = SumFunctionOnSet(f, PositionIds) + (IF a = NoAsset THEN 0 ELSE 0)
      BY <1>1 DEF Moves
    <2>3. \A p \in PositionIds : g[p] = h[p] - f[p]
      BY <2>1, MappedValues
    <2>4. SumFunction(moved(a)) = SumFunctionOnSet(g, PositionIds)
      BY DEF SumFunction
    <2> HIDE DEF f, h, g, moved
    <2>5. \A p \in PositionIds : f[p] \in Int /\ g[p] \in Int /\ h[p] = f[p] + g[p]
      BY <2>1, <2>3
    <2>6. SumFunctionOnSet(h, PositionIds)
            = SumFunctionOnSet(f, PositionIds) + SumFunctionOnSet(g, PositionIds)
      BY <2>5, ConfigAssumption, SumAdds
    <2>7. SumFunctionOnSet(g, PositionIds) \in Int
      BY <2>5, ConfigAssumption, SumType
    <2> QED
      BY <2>1, <2>2, <2>4, <2>6, <2>7
  <1> QED
    BY <1>1, <1>4, <1>5, <1>6, <1>7, LedgerSumsAlike
    DEF Ledger!Transact, Ledger!UnitsGained, claims, synthetics

\* A tick of the funding is the moment when everyone pays.
LEMMA RefinesAccrue ==
  ASSUME IndInv, NEW new, IsFundingIndicesInfo(new), FundingTick(new)
  PROVE  Ledger!Accrue
PROOF
  <1> DEFINE D == DOMAIN global_funding_indices.indices
             pays(p) == SumFunction([a \in D |->
                          (new.indices[a] - global_funding_indices.indices[a]) * synthetics[p][a]])
  <1>1. /\ positions_dict' = positions_dict /\ modifications' = modifications
        /\ global_funding_indices' = new /\ D \subseteq DOMAIN new.indices
    BY PaidType DEF FundingTick
  <1>2. ASSUME NEW p \in PositionIds PROVE claims'[p] = claims[p] - pays(p)
    <2>1. Paid(p, new) = [a \in D |-> (new.indices[a] - global_funding_indices.indices[a])
                                         * synthetics[p][a]]
      BY PaidType, MappedValues DEF Paid
    <2>2. pays(p) = SumFunctionOnSet(Paid(p, new), D)
      BY <2>1 DEF SumFunction
    <2>3. /\ claims[p] = Worth(positions_dict[p], market)
          /\ claims'[p] = Worth(positions_dict[p], market')
      BY <1>1, MappedValues
    <2>4. Worth(positions_dict[p], market')
            = Worth(positions_dict[p], market) - SumFunctionOnSet(Paid(p, new), D)
      BY TickTakesPaid
    <2> HIDE DEF D, pays
    <2> QED
      BY <2>2, <2>3, <2>4
  <1>3. claims' = [p \in PositionIds |-> claims[p] - pays(p)]
    <2> HIDE DEF pays
    <2>1. claims' = [p \in PositionIds |-> claims'[p]]
      BY DEF claims
    <2> QED
      BY <1>2, <2>1
  <1>4. synthetics' = synthetics
    BY <1>1 DEF synthetics
  <1> QED
    BY <1>1, <1>3, <1>4, LedgerSumsAlike DEF Ledger!Accrue, claims, synthetics

\* A step that the ledger does not see.
LEMMA RefinesStutter ==
  ASSUME UNCHANGED <<positions_dict, global_funding_indices, modifications>>
  PROVE  UNCHANGED <<claims, synthetics, global_funding_indices.indices, modifications>>
PROOF
  <1>1. claims' = claims
    BY ClaimsReadIndices, MappedValues DEF claims
  <1> QED
    BY <1>1 DEF synthetics

LEMMA RefinesNext ==
  ASSUME IndInv, [Next]_vars
  PROVE  [Ledger!Next]_<<claims, synthetics, global_funding_indices.indices, modifications>>
PROOF
  <1>1. CASE UserTransaction
    <2>1. PICK parties : Transacts(parties)
      BY <1>1, UserTransactionMoves
    <2>2. /\ market' = market /\ UNCHANGED global_funding_indices
          /\ modifications \in Int /\ modifications' \in Int
      BY <1>1, UserTransactionMoves, UserTransactionSettles DEF globals, IndInv
    <2>3. Ledger!Transact(parties)
      BY <2>1, <2>2, RefinesTransact
    <2>4. parties \in SUBSET PositionIds
      BY <2>1 DEF Transacts
    <2> QED
      BY <2>3, <2>4 DEF Ledger!Next
  <1>2. CASE Tick
    <2>1. CASE \E new : IsFundingIndicesInfo(new) /\ FundingTick(new)
      BY <2>1, RefinesAccrue DEF Ledger!Next
    <2>2. CASE UNCHANGED <<positions_dict, global_funding_indices, modifications>>
      BY <2>2, RefinesStutter
    <2> QED
      BY <1>2, <2>1, <2>2, TickIsFundingOrPrices
  <1>3. CASE UNCHANGED vars
    BY <1>3, RefinesStutter DEF vars, globals, outputs
  <1> QED
    BY <1>1, <1>2, <1>3 DEF Next

\* funding.cairo:30-31: settling funding late, one position at a time, is the
\* same as settling every position's at every tick.
THEOREM LateFundingIsLedger == Spec => ImplementsFundedLedger
PROOF
  <1>1. Init => Ledger!Init
    BY RefinesInit
  <1>2. IndInv /\ [Next]_vars =>
          [Ledger!Next]_<<claims, synthetics, global_funding_indices.indices, modifications>>
    BY RefinesNext
  <1> QED
    BY <1>1, <1>2, InductiveInvariant, PTL
    DEF Spec, ImplementsFundedLedger, Ledger!Spec, claims, synthetics

-----------------------------------------------------------------------------
(* Margin: what the total value and the total risk of a position say, and   *)
(* what a step may do to a position without its owner's agreement.          *)

-----------------------------------------------------------------------------
(* The status of one position.                                             *)

\* What one asset adds to the total value and to the total risk.
ValueOf(pos, m, a) == m.prices[a] * pos.assets[a].balance
RiskOf(pos, m, a) ==
  m.prices[a] * abs_value(pos.assets[a].balance)
              * get_risk_factor(a, abs_value(pos.assets[a].balance), m.prices[a])

\* general_config.cairo:48-85: a risk factor is positive and below one.
LEMMA RiskFactorRange ==
  ASSUME NEW a \in Assets, NEW balance, NEW price, HasRiskFactor(a, balance, price)
  PROVE  get_risk_factor(a, balance, price) \in 1 .. FXP_32_ONE - 1
PROOF
  <1> DEFINE segments == RiskSegments[a]
             i == CHOOSE j \in DOMAIN segments : IsRiskSegment(a, j, balance, price)
  <1>1. i \in DOMAIN segments
    BY DEF HasRiskFactor
  <1>2. segments[i].risk \in 1 .. FXP_32_ONE - 1
    BY <1>1, RiskAssumption DEF validate_risk_factor_function
  <1> QED
    BY <1>2 DEF get_risk_factor

\* Prices are positive, so an asset adds a risk unless there is nothing of it.
LEMMA RiskOfType ==
  ASSUME NEW pos, NEW m, IsPosition(pos), IsMarket(m), HasStatus(pos, m.prices),
         NEW a \in Held(pos)
  PROVE  /\ pos.assets[a].balance \in Int
         /\ ValueOf(pos, m, a) \in Int
         /\ RiskOf(pos, m, a) \in Nat
         /\ RiskOf(pos, m, a) = 0 <=> pos.assets[a].balance = 0
PROOF
  <1> DEFINE b == pos.assets[a].balance
             price == m.prices[a]
             risk == get_risk_factor(a, abs_value(b), price)
  <1>1. b \in Int /\ a \in Assets
    BY DEF IsPosition, IsPartial, PositionAsset, Held
  <1>2. price \in Nat \ {0}
    BY DEF HasStatus, IsMarket, IsPartial
  <1>3. risk \in Nat \ {0}
    BY <1>1, RiskFactorRange, BoundsAssumption DEF HasStatus
  <1>4. abs_value(b) \in Nat /\ (abs_value(b) = 0 <=> b = 0)
    BY <1>1 DEF abs_value
  <1>5. RiskOf(pos, m, a) = price * abs_value(b) * risk /\ ValueOf(pos, m, a) = price * b
    BY DEF RiskOf, ValueOf
  <1> HIDE DEF b, price, risk
  <1> DEFINE x == abs_value(b)
  <1>6. x \in Nat /\ (x = 0 <=> b = 0)
    BY <1>4
  <1> HIDE DEF x
  <1>7. price * x \in Nat /\ (price * x = 0 <=> x = 0)
    BY <1>2, <1>6
  <1>8. (price * x) * risk \in Nat /\ ((price * x) * risk = 0 <=> price * x = 0)
    BY <1>3, <1>7
  <1>9. price * b \in Int
    BY <1>1, <1>2 DEF b
  <1> QED
    BY <1>1, <1>5, <1>6, <1>7, <1>8, <1>9 DEF x, b

\* A position whose assets have prices.
IsPriced(pos, m) == IsPosition(pos) /\ IsMarket(m) /\ Held(pos) \subseteq DOMAIN m.prices

\* The value of its synthetic assets, in fixed point.
SyntheticValue(pos, m) == SumFunction([a \in Held(pos) |-> m.prices[a] * pos.assets[a].balance])

\* The total value is an integer.
LEMMA ValueType ==
  ASSUME NEW pos, NEW m, IsPriced(pos, m)
  PROVE  /\ pos.collateral_balance \in Int
         /\ SyntheticValue(pos, m) \in Int
         /\ TotalValue(pos, m.prices) = pos.collateral_balance * FXP_32_ONE + SyntheticValue(pos, m)
         /\ TotalValue(pos, m.prices) \in Int
PROOF
  <1> DEFINE value == [a \in Held(pos) |-> m.prices[a] * pos.assets[a].balance]
  <1>1. IsFiniteSet(Held(pos)) /\ pos.collateral_balance \in Int
    BY NamesAssumption, FS_Subset DEF IsPriced, IsPosition, IsPartial, Held
  <1>2. ASSUME NEW a \in Held(pos) PROVE value[a] \in Int
    <2>1. m.prices[a] \in Int /\ pos.assets[a].balance \in Int
      BY DEF IsPriced, IsPosition, IsMarket, IsPartial, PositionAsset, Held
    <2> QED
      BY <2>1
  <1>3. /\ SyntheticValue(pos, m) = SumFunctionOnSet(value, Held(pos))
        /\ TotalValue(pos, m.prices) = pos.collateral_balance * FXP_32_ONE + SyntheticValue(pos, m)
    BY DEF TotalValue, SyntheticValue, SumFunction
  <1> HIDE DEF value
  <1>4. SyntheticValue(pos, m) \in Int
    BY <1>1, <1>2, <1>3, SumType
  <1>5. pos.collateral_balance * FXP_32_ONE \in Int
    BY <1>1, BoundsAssumption
  <1> QED
    BY <1>1, <1>3, <1>4, <1>5

\* The total risk is a natural number.
LEMMA RiskType ==
  ASSUME NEW pos, NEW m, IsPosition(pos), IsMarket(m), HasStatus(pos, m.prices)
  PROVE  /\ IsFiniteSet(Held(pos))
         /\ IsPriced(pos, m)
         /\ TotalRisk(pos, m.prices) \in Nat
         /\ TotalRisk(pos, m.prices)
              = SumFunctionOnSet([a \in Held(pos) |-> RiskOf(pos, m, a)], Held(pos))
PROOF
  <1> DEFINE risk == [a \in Held(pos) |-> RiskOf(pos, m, a)]
  <1>1. IsFiniteSet(Held(pos)) /\ IsPriced(pos, m)
    BY NamesAssumption, FS_Subset DEF IsPosition, IsPartial, Held, HasStatus, IsPriced
  <1>2. \A a \in Held(pos) : risk[a] \in Nat
    BY RiskOfType
  <1>3. TotalRisk(pos, m.prices) = SumFunctionOnSet(risk, Held(pos))
    BY DEF TotalRisk, RiskOf, SumFunction
  <1> HIDE DEF risk
  <1>4. SumFunctionOnSet(risk, Held(pos)) \in Nat
    BY <1>1, <1>2, SumOfNaturals
  <1> QED
    BY <1>1, <1>3, <1>4 DEF risk

\* The status reads the balances and nothing else of a position, and each unit
\* of collateral is worth one unit in fixed point.
LEMMA StatusReadsBalances ==
  ASSUME NEW pos, NEW new, NEW m, IsPriced(pos, m), NEW units \in Int,
         new.collateral_balance = pos.collateral_balance + units,
         Held(new) = Held(pos),
         \A a \in Held(pos) : new.assets[a].balance = pos.assets[a].balance
  PROVE  /\ TotalValue(new, m.prices) = TotalValue(pos, m.prices) + units * FXP_32_ONE
         /\ TotalRisk(new, m.prices) = TotalRisk(pos, m.prices)
         /\ HasStatus(new, m.prices) <=> HasStatus(pos, m.prices)
PROOF
  <1> DEFINE value == SyntheticValue(pos, m)
             c == pos.collateral_balance
             total == TotalValue(pos, m.prices)
             new_total == TotalValue(new, m.prices)
  <1>1. TotalRisk(new, m.prices) = TotalRisk(pos, m.prices)
    BY DEF TotalRisk
  <1>2. HasStatus(new, m.prices) <=> HasStatus(pos, m.prices)
    BY DEF HasStatus
  <1>3. c \in Int /\ value \in Int /\ total = c * FXP_32_ONE + value
    BY ValueType
  <1>4. new_total = (c + units) * FXP_32_ONE + value
    BY DEF TotalValue, SyntheticValue
  <1> HIDE DEF value, c, total, new_total
  <1>5. (c + units) * FXP_32_ONE = c * FXP_32_ONE + units * FXP_32_ONE
    BY <1>3, BoundsAssumption
  <1> DEFINE x == c * FXP_32_ONE
             y == units * FXP_32_ONE
  <1>6. x \in Int /\ y \in Int
    BY <1>3, BoundsAssumption
  <1>7. total = x + value /\ new_total = (x + y) + value
    BY <1>3, <1>4, <1>5
  <1> HIDE DEF x, y
  <1>8. new_total = total + y
    BY <1>3, <1>6, <1>7
  <1> QED
    BY <1>1, <1>2, <1>8 DEF y, total, new_total

\* validate_state_transition.cairo:75-77: a position that is no larger than one
\* without risk has no risk.
LEMMA NoRiskStaysNone ==
  ASSUME NEW new, NEW old, NEW m, IsPosition(new), IsPosition(old), IsMarket(m),
         HasStatus(new, m.prices), HasStatus(old, m.prices),
         check_smaller_in_synthetic_holdings(new, old), TotalRisk(old, m.prices) = 0
  PROVE  TotalRisk(new, m.prices) = 0
PROOF
  <1> DEFINE before == [a \in Held(old) |-> RiskOf(old, m, a)]
             after == [a \in Held(new) |-> RiskOf(new, m, a)]
  <1>1. ASSUME NEW a \in Held(new) PROVE after[a] = 0
    <2>1. a \in Held(old)
      BY DEF check_smaller_in_synthetic_holdings
    <2>2. \A x \in Held(old) : before[x] \in Nat
      BY RiskOfType
    <2>3. IsFiniteSet(Held(old)) /\ SumFunctionOnSet(before, Held(old)) = 0
      BY RiskType
    <2>4. before[a] = RiskOf(old, m, a)
      BY <2>1
    <2>5. before[a] = 0
      <3> HIDE DEF before
      <3>1. before[a] <= 0 /\ before[a] \in Nat
        BY <2>1, <2>2, <2>3, SumOfNaturals
      <3> QED
        BY <3>1
    <2>6. old.assets[a].balance = 0
      BY <2>1, <2>4, <2>5, RiskOfType
    <2>7. abs_value(new.assets[a].balance) <= 0 /\ new.assets[a].balance \in Int
      BY <2>6, RiskOfType DEF check_smaller_in_synthetic_holdings, abs_value
    <2>8. new.assets[a].balance = 0
      BY <2>7 DEF abs_value
    <2> QED
      BY <2>8, RiskOfType
  <1>2. IsFiniteSet(Held(new)) /\ TotalRisk(new, m.prices) = SumFunctionOnSet(after, Held(new))
    BY RiskType
  <1> HIDE DEF after
  <1> QED
    BY <1>1, <1>2, SumOfZeros

-----------------------------------------------------------------------------
(* Well leveraged positions.                                               *)

\* With F of value for each unit of risk, a ratio of value to risk that does
\* not fall stays above F.
LEMMA RatioStaysAbove ==
  ASSUME NEW F \in Nat \ {0}, NEW v \in Int, NEW w \in Int, NEW r \in Nat \ {0}, NEW q \in Nat,
         r <= v * F, v * q <= w * r
  PROVE  q <= w * F
PROOF
  <1>1. v * F \in Int /\ v * q \in Int /\ w * r \in Int /\ w * F \in Int
    OBVIOUS
  <1>2. v >= 1
    <2> SUFFICES ASSUME v <= 0 PROVE FALSE
      OBVIOUS
    <2>1. v * F <= 0
      OBVIOUS
    <2> QED
      BY <1>1, <2>1
  <1>3. w >= 0
    <2> SUFFICES ASSUME w <= -1 PROVE FALSE
      OBVIOUS
    <2>1. w * r <= -r
      OBVIOUS
    <2>2. v * q >= 0
      BY <1>2
    <2> QED
      BY <1>1, <2>1, <2>2
  <1>4. w * r <= w * (v * F)
    BY <1>1, <1>3
  <1>5. w * (v * F) = v * (w * F)
    OBVIOUS
  <1>6. v * q <= v * (w * F)
    <2>1. v * (w * F) \in Int
      BY <1>1
    <2> QED
      BY <1>1, <1>4, <1>5, <2>1
  <1> QED
    <2> SUFFICES ASSUME q >= w * F + 1 PROVE FALSE
      BY <1>1
    <2>1. v * q >= v * (w * F + 1)
      BY <1>1, <1>2
    <2>2. v * (w * F + 1) = v * (w * F) + v
      BY <1>1
    <2>3. v * (w * F) \in Int
      BY <1>1
    <2> QED
      BY <1>1, <1>2, <1>6, <2>1, <2>2, <2>3

\* validate_state_transition.cairo:12-19: a legal update leaves a well leveraged
\* position well leveraged, whichever rule makes it legal.
LEMMA LegalKeepsMargin ==
  ASSUME NEW new, NEW old, NEW m, IsPosition(new), IsPosition(old), IsMarket(m),
         TransitionIsDefined(new, old, m.prices), check_valid_transition(new, old, m.prices),
         WellLeveraged(old, m.prices)
  PROVE  WellLeveraged(new, m.prices)
PROOF
  <1> SUFFICES ASSUME ~ WellLeveraged(new, m.prices) PROVE FALSE
    OBVIOUS
  <1> DEFINE tv0 == TotalValue(old, m.prices)
             tr0 == TotalRisk(old, m.prices)
             tv1 == TotalValue(new, m.prices)
             tr1 == TotalRisk(new, m.prices)
  <1>1. /\ HasStatus(new, m.prices) /\ HasStatus(old, m.prices)
        /\ check_smaller_in_synthetic_holdings(new, old) /\ RatioKept(new, old, m.prices)
    BY DEF TransitionIsDefined, check_valid_transition
  <1>2. tv0 \in Int /\ tv1 \in Int /\ tr0 \in Nat /\ tr1 \in Nat
    BY <1>1, RiskType, ValueType
  <1>3. tr0 <= tv0 * FXP_32_ONE /\ tv0 * tr1 <= tv1 * tr0 /\ (tr0 = 0 => tv0 <= tv1)
    BY <1>1 DEF WellLeveraged, RatioKept
  <1>4. tr0 = 0 => tr1 = 0
    BY <1>1, NoRiskStaysNone
  <1> HIDE DEF tv0, tr0, tv1, tr1
  <1>5. tr1 <= tv1 * FXP_32_ONE
    <2>1. CASE tr0 = 0
      <3>1. tv0 >= 0
        <4> SUFFICES ASSUME tv0 <= -1 PROVE FALSE
          BY <1>2
        <4>1. tv0 * FXP_32_ONE <= -1 /\ tv0 * FXP_32_ONE \in Int
          BY <1>2, BoundsAssumption
        <4> QED
          BY <1>3, <2>1, <4>1
      <3>2. tv1 \in Nat
        BY <1>2, <1>3, <2>1, <3>1
      <3>3. tv1 * FXP_32_ONE >= 0
        BY <3>2, BoundsAssumption
      <3> QED
        BY <1>4, <2>1, <3>3
    <2>2. CASE tr0 # 0
      BY <1>2, <1>3, <2>2, BoundsAssumption, RatioStaysAbove
    <2> QED
      BY <2>1, <2>2
  <1> QED
    BY <1>5 DEF tr1, tv1, WellLeveraged

\* Whether a position is well leveraged once it has settled its funding.
Margin(pos, m) == WellLeveraged(position_apply_funding(pos, m), m.prices)

\* The positions of the inductive invariant have prices and can be funded.
LEMMA PositionIsPriced ==
  ASSUME NEW pos, NEW m, NEW table, MarketInv(m, table), PositionInv(pos, m, table)
  PROVE  IsPriced(pos, m) /\ IsFundable(pos, m) /\ IsMarket(m) /\ IsPosition(pos)
BY DEF MarketInv, PositionInv, IsPriced, IsFundable

\* Settling the funding again changes nothing.
LEMMA SettlingAgain ==
  ASSUME NEW pos, NEW m, IsPriced(pos, m), IsFundable(pos, m),
         \A a \in Held(pos) : pos.assets[a].cached_funding_index = m.indices[a]
  PROVE  /\ TotalValue(position_apply_funding(pos, m), m.prices) = TotalValue(pos, m.prices)
         /\ TotalRisk(position_apply_funding(pos, m), m.prices) = TotalRisk(pos, m.prices)
         /\ Margin(pos, m) <=> WellLeveraged(pos, m.prices)
PROOF
  <1> DEFINE new == position_apply_funding(pos, m)
             v == TotalValue(pos, m.prices)
             w == TotalValue(new, m.prices)
  <1>1. FundedCollateral(pos, m) = pos.collateral_balance /\ pos.collateral_balance \in Int
    BY SettledOwesNothing, ValueType
  <1>2. /\ new.collateral_balance = pos.collateral_balance + 0
        /\ Held(new) = Held(pos)
        /\ \A a \in Held(pos) : new.assets[a].balance = pos.assets[a].balance
    BY <1>1 DEF position_apply_funding, Held
  <1>3. v \in Int
    BY ValueType
  <1> HIDE DEF v
  <1>4. Margin(pos, m) <=> WellLeveraged(new, m.prices)
    BY DEF Margin
  <1> HIDE DEF new
  <1>5. w = v + 0 * FXP_32_ONE /\ TotalRisk(new, m.prices) = TotalRisk(pos, m.prices)
    BY <1>2, StatusReadsBalances DEF v
  <1>6. w = v
    BY <1>3, <1>5, BoundsAssumption
  <1> QED
    BY <1>4, <1>5, <1>6 DEF v, new, WellLeveraged

\* What an update comes to: its funding settled, and the target if it succeeds.
LEMMA UpdateOutcome ==
  ASSUME NEW pos, NEW m, NEW table, MarketInv(m, table), PositionInv(pos, m, table),
         NEW req \in Request, NEW result, result = update_position(pos, req, m),
         ~ Aborts(result)
  PROVE  /\ CanFund(pos, m)
         /\ result.funded_position = position_apply_funding(pos, m)
         /\ PositionInv(result.funded_position, m, table)
         /\ PositionInv(result.updated_position, m, table)
         /\ \A a \in Held(result.funded_position) :
              result.funded_position.assets[a].cached_funding_index = m.indices[a]
         /\ \A a \in Held(result.updated_position) :
              result.updated_position.assets[a].cached_funding_index = m.indices[a]
         /\ \/ /\ result.updated_position = result.funded_position
               /\ Succeeds(result) => IsNoChange(result.funded_position, req)
            \/ /\ Succeeds(result)
               /\ result.updated_position = Target(result.funded_position, req, m)
               /\ TransitionIsDefined(result.updated_position, result.funded_position, m.prices)
               /\ check_valid_transition(result.updated_position, result.funded_position, m.prices)
PROOF
  <1> DEFINE funded == position_apply_funding(pos, m)
  <1>1. CanFund(pos, m) /\ result = UpdateFunded(funded, req, m)
    BY DEF update_position, Aborts
  <1>2. PositionInv(result.funded_position, m, table) /\ PositionInv(result.updated_position, m, table)
    BY UpdateKeepsPosition
  <1> HIDE DEF funded
  <1>3. /\ result.funded_position = funded
        /\ \/ /\ result.updated_position = funded
              /\ Succeeds(result) => IsNoChange(funded, req)
           \/ /\ Succeeds(result)
              /\ result.updated_position = Target(funded, req, m)
              /\ TransitionIsDefined(result.updated_position, funded, m.prices)
              /\ check_valid_transition(result.updated_position, funded, m.prices)
    BY <1>1 DEF UpdateFunded, Succeeds
  <1>4. \A a \in Held(result.funded_position) :
          result.funded_position.assets[a].cached_funding_index = m.indices[a]
    BY UpdateGains DEF Gains
  <1>5. \A a \in Held(result.updated_position) :
          result.updated_position.assets[a].cached_funding_index = m.indices[a]
    BY <1>4, UpdateGains DEF Gains
  <1> QED
    BY <1>1, <1>2, <1>3, <1>4, <1>5 DEF funded

\* update_position, whatever its outcome, keeps a position in margin.
LEMMA UpdateKeepsMargin ==
  ASSUME NEW pos, NEW m, NEW table, MarketInv(m, table), PositionInv(pos, m, table),
         NEW req \in Request, NEW result, result = update_position(pos, req, m),
         Margin(pos, m)
  PROVE  Margin(result.updated_position, m) /\ Margin(result.funded_position, m)
PROOF
  <1>1. CASE Aborts(result)
    <2>1. CASE CanFund(pos, m) /\ (req.synthetic_asset_id = NoAsset => req.synthetic_delta = 0)
      <3> DEFINE funded == position_apply_funding(pos, m)
      <3>1. result = UpdateFunded(funded, req, m)
        BY <2>1 DEF update_position
      <3>2. PositionInv(funded, m, table) /\ WellLeveraged(funded, m.prices)
        BY <2>1, FundingKeepsPosition DEF Margin
      <3>3. \A a \in Held(funded) : funded.assets[a].cached_funding_index = m.indices[a]
        BY DEF position_apply_funding, Held
      <3> HIDE DEF funded
      <3>4. result.updated_position = funded /\ result.funded_position = funded
        BY <1>1, <3>1 DEF UpdateFunded, Aborts
      <3>5. Margin(funded, m)
        BY <3>2, <3>3, PositionIsPriced, SettlingAgain
      <3> QED
        BY <3>4, <3>5
    <2>2. CASE ~ (CanFund(pos, m) /\ (req.synthetic_asset_id = NoAsset => req.synthetic_delta = 0))
      BY <2>2 DEF update_position
    <2> QED
      BY <2>1, <2>2
  <1>2. CASE ~ Aborts(result)
    <2> DEFINE funded == result.funded_position
               updated == result.updated_position
    <2>1. /\ PositionInv(funded, m, table) /\ PositionInv(updated, m, table)
          /\ \A a \in Held(funded) : funded.assets[a].cached_funding_index = m.indices[a]
          /\ \A a \in Held(updated) : updated.assets[a].cached_funding_index = m.indices[a]
          /\ WellLeveraged(funded, m.prices)
      BY <1>2, UpdateOutcome DEF Margin
    <2>2. \/ updated = funded
          \/ /\ TransitionIsDefined(updated, funded, m.prices)
             /\ check_valid_transition(updated, funded, m.prices)
      BY <1>2, UpdateOutcome
    <2> HIDE DEF funded, updated
    <2>3. WellLeveraged(updated, m.prices)
      BY <2>1, <2>2, PositionIsPriced, LegalKeepsMargin
    <2>4. Margin(updated, m) /\ Margin(funded, m)
      BY <2>1, <2>3, PositionIsPriced, SettlingAgain
    <2> QED
      BY <2>4 DEF updated, funded
  <1> QED
    BY <1>1, <1>2

-----------------------------------------------------------------------------
(* The dictionary, from one transaction's update to the next.              *)

\* Every position in margin stays so.
KeepsMargins(dict, new) ==
  /\ DictInv(new, market, funding_indices_table)
  /\ \A p \in PositionIds : Margin(dict[p], market) => Margin(new[p], market)

\* The state before a transaction.
MarginState(dict) ==
  MarketInv(market, funding_indices_table) /\ DictInv(dict, market, funding_indices_table)

\* Storing a position that is in margin where one was.
LEMMA ReplaceKeepsMargins ==
  ASSUME NEW dict, MarginState(dict), NEW id \in PositionIds,
         NEW pos, PositionInv(pos, market, funding_indices_table),
         Margin(dict[id], market) => Margin(pos, market)
  PROVE  KeepsMargins(dict, [dict EXCEPT ![id] = pos])
PROOF
  <1> DEFINE new == [dict EXCEPT ![id] = pos]
  <1>1. DictInv(new, market, funding_indices_table)
    BY ReplaceKeepsDict DEF MarginState
  <1>2. new[id] = pos /\ \A p \in PositionIds \ {id} : new[p] = dict[p]
    BY DEF MarginState, DictInv
  <1> HIDE DEF new
  <1>3. KeepsMargins(dict, new)
    BY <1>1, <1>2 DEF KeepsMargins
  <1> QED
    BY <1>3 DEF new

\* One change after another.
LEMMA KeepsMarginsTwice ==
  ASSUME NEW first, NEW second, NEW third,
         KeepsMargins(first, second), KeepsMargins(second, third)
  PROVE  KeepsMargins(first, third)
BY DEF KeepsMargins

\* One update, whichever of its positions the transaction stores.
LEMMA UpdateKeepsMargins ==
  ASSUME NEW dict, MarginState(dict), NEW id \in PositionIds, NEW req \in Request,
         NEW result, result = update_position(dict[id], req, market)
  PROVE  /\ KeepsMargins(dict, [dict EXCEPT ![id] = result.updated_position])
         /\ KeepsMargins(dict, [dict EXCEPT ![id] = result.funded_position])
         /\ PositionInv(result.updated_position, market, funding_indices_table)
         /\ PositionInv(result.funded_position, market, funding_indices_table)
         /\ Margin(dict[id], market) => /\ Margin(result.updated_position, market)
                                        /\ Margin(result.funded_position, market)
PROOF
  <1> DEFINE pos == dict[id]
             updated == result.updated_position
             funded == result.funded_position
  <1>1. PositionInv(pos, market, funding_indices_table) /\ MarketInv(market, funding_indices_table)
    BY DEF MarginState, DictInv
  <1>2. /\ PositionInv(updated, market, funding_indices_table)
        /\ PositionInv(funded, market, funding_indices_table)
    BY <1>1, UpdateKeepsPosition
  <1>3. Margin(pos, market) => Margin(updated, market) /\ Margin(funded, market)
    BY <1>1, UpdateKeepsMargin
  <1> HIDE DEF updated, funded
  <1>4. /\ KeepsMargins(dict, [dict EXCEPT ![id] = updated])
        /\ KeepsMargins(dict, [dict EXCEPT ![id] = funded])
    BY <1>2, <1>3, ReplaceKeepsMargins
  <1> QED
    BY <1>2, <1>3, <1>4 DEF updated, funded

\* A party's order, with the fee.
LEMMA LimitOrderKeepsMargins ==
  ASSUME NEW dict, MarginState(dict), NEW o \in LimitOrder, NEW c \in Int, NEW s \in Int,
         NEW f \in Int
  PROVE  KeepsMargins(dict, execute_limit_order(dict, o, c, s, f).positions_dict)
PROOF
  <1> DEFINE fee_req == CollateralRequest(FeePublicKey, f)
             fee_update == update_position(dict[FeePositionId], fee_req, market)
             with_fee == [dict EXCEPT ![FeePositionId] = fee_update.updated_position]
             id == o.position_id
             req == LimitOrderRequest(o, c, s, f)
             update == update_position(with_fee[id], req, market)
             last == [with_fee EXCEPT ![id] = update.updated_position]
  <1>1. /\ FeePositionId \in PositionIds /\ id \in PositionIds
        /\ fee_req \in Request /\ req \in Request
    BY ConfigAssumption, CollateralRequestType, LimitOrderRequestType DEF LimitOrder
  <1>2. execute_limit_order(dict, o, c, s, f).positions_dict = last
    BY DEF execute_limit_order
  <1> HIDE DEF fee_req, id, req
  <1>3. KeepsMargins(dict, with_fee)
    BY <1>1, UpdateKeepsMargins
  <1>4. MarginState(with_fee)
    BY <1>3 DEF KeepsMargins, MarginState
  <1> HIDE DEF with_fee
  <1>5. KeepsMargins(with_fee, last)
    BY <1>1, <1>4, UpdateKeepsMargins
  <1> HIDE DEF last
  <1> QED
    BY <1>2, <1>3, <1>5, KeepsMarginsTwice

-----------------------------------------------------------------------------
(* The transactions.                                                       *)

TransactionKeepsMargins == KeepsMargins(positions_dict, positions_dict')

\* The inductive invariant holds where a transaction starts.
LEMMA StartsFromInv == IndInv => MarginState(positions_dict)
BY MarketIsPublished DEF IndInv, MarginState

\* Transactions that change the collateral of one position.
LEMMA CollateralKeepsMargins ==
  ASSUME IndInv, NEW id \in PositionIds, NEW req \in Request,
         positions_dict' = [positions_dict EXCEPT ![id] =
                              update_position(positions_dict[id], req, market).updated_position]
  PROVE  TransactionKeepsMargins
BY StartsFromInv, UpdateKeepsMargins DEF TransactionKeepsMargins

\* Transfers, conditional or not.
LEMMA MoveCollateralKeepsMargins ==
  ASSUME IndInv, NEW tx \in SignedTransfer, MoveCollateral(tx)
  PROVE  TransactionKeepsMargins
PROOF
  <1> DEFINE sender == tx.sender_position_id
             receiver == tx.receiver_position_id
             send == CollateralRequest(tx.public_key, -tx.amount)
             receive == CollateralRequest(tx.receiver_public_key, tx.amount)
             sent == update_position(positions_dict[sender], send, market)
             dict == [positions_dict EXCEPT ![sender] = sent.updated_position]
             received == update_position(dict[receiver], receive, market)
             last == [dict EXCEPT ![receiver] = received.updated_position]
  <1>1. MarginState(positions_dict)
    BY StartsFromInv
  <1>2. /\ sender \in PositionIds /\ receiver \in PositionIds
        /\ send \in Request /\ receive \in Request
    BY CollateralRequestType DEF SignedTransfer
  <1>3. positions_dict' = last
    BY DEF MoveCollateral
  <1> HIDE DEF sender, receiver, send, receive
  <1>4. KeepsMargins(positions_dict, dict)
    BY <1>1, <1>2, UpdateKeepsMargins
  <1>5. MarginState(dict)
    BY <1>1, <1>4 DEF KeepsMargins, MarginState
  <1> HIDE DEF dict
  <1>6. KeepsMargins(dict, last)
    BY <1>2, <1>5, UpdateKeepsMargins
  <1> HIDE DEF last
  <1> QED
    BY <1>3, <1>4, <1>6, KeepsMarginsTwice DEF TransactionKeepsMargins

\* Trades.
LEMMA TradeKeepsMargins ==
  ASSUME IndInv, NEW a \in LimitOrder, NEW b \in LimitOrder, NEW c \in Int, NEW s \in Int,
         NEW f \in Int, NEW g \in Int, Trade(a, b, c, s, f, g)
  PROVE  TransactionKeepsMargins
PROOF
  <1> DEFINE dict == execute_limit_order(positions_dict, a, c, s, f).positions_dict
             last == execute_limit_order(dict, b, c, s, g).positions_dict
  <1>1. MarginState(positions_dict)
    BY StartsFromInv
  <1>2. positions_dict' = last
    BY DEF Trade
  <1>3. KeepsMargins(positions_dict, dict)
    BY <1>1, LimitOrderKeepsMargins
  <1>4. MarginState(dict)
    BY <1>1, <1>3 DEF KeepsMargins, MarginState
  <1> HIDE DEF dict
  <1>5. KeepsMargins(dict, last)
    BY <1>4, LimitOrderKeepsMargins
  <1> HIDE DEF last
  <1> QED
    BY <1>2, <1>3, <1>5, KeepsMarginsTwice DEF TransactionKeepsMargins

\* Forced trades, executed or shown to be invalid.
LEMMA ForcedTradeKeepsMargins ==
  ASSUME IndInv, NEW tx \in ForcedTrade, NEW is_valid \in BOOLEAN, ExecuteForcedTrade(tx, is_valid)
  PROVE  TransactionKeepsMargins
PROOF
  <1> DEFINE id_a == tx.position_id_a
             id_b == tx.position_id_b
             req_a == ForcedTradeRequest(tx, TRUE)
             req_b == ForcedTradeRequest(tx, FALSE)
             update_a == update_position(positions_dict[id_a], req_a, market)
             update_b == update_position(positions_dict[id_b], req_b, market)
             after_a == try_to_trade(update_a, update_b)
             after_b == try_to_trade(update_b, update_a)
             dict == [positions_dict EXCEPT ![id_a] = after_a]
             last == [dict EXCEPT ![id_b] = after_b]
  <1>1. MarginState(positions_dict)
    BY StartsFromInv
  <1>2. id_a \in PositionIds /\ id_b \in PositionIds /\ req_a \in Request /\ req_b \in Request
    BY DEF ForcedTrade, ForcedTradeRequest, Request
  <1>3. id_a # id_b /\ positions_dict' = last
    BY DEF ExecuteForcedTrade
  <1> HIDE DEF id_a, id_b, req_a, req_b
  <1>4. ASSUME NEW id \in PositionIds, NEW req \in Request, NEW result, NEW other,
               result = update_position(positions_dict[id], req, market)
        PROVE  /\ PositionInv(try_to_trade(result, other), market, funding_indices_table)
               /\ Margin(positions_dict[id], market) =>
                    Margin(try_to_trade(result, other), market)
    <2> DEFINE pos == positions_dict[id]
    <2>1. /\ PositionInv(pos, market, funding_indices_table)
          /\ MarketInv(market, funding_indices_table)
          /\ result = update_position(pos, req, market)
      BY <1>1, <1>4 DEF MarginState, DictInv
    <2> HIDE DEF pos
    <2>2. /\ PositionInv(result.updated_position, market, funding_indices_table)
          /\ PositionInv(result.funded_position, market, funding_indices_table)
          /\ Margin(pos, market) => /\ Margin(result.updated_position, market)
                                    /\ Margin(result.funded_position, market)
      BY <2>1, UpdateKeepsPosition, UpdateKeepsMargin
    <2>3. try_to_trade(result, other) \in {result.updated_position, result.funded_position}
      BY DEF try_to_trade
    <2> QED
      BY <2>2, <2>3 DEF pos
  <1>5. /\ PositionInv(after_a, market, funding_indices_table)
        /\ Margin(positions_dict[id_a], market) => Margin(after_a, market)
        /\ PositionInv(after_b, market, funding_indices_table)
        /\ Margin(positions_dict[id_b], market) => Margin(after_b, market)
    BY <1>2, <1>4
  <1> HIDE DEF after_a, after_b
  <1>6. KeepsMargins(positions_dict, dict)
    BY <1>1, <1>2, <1>5, ReplaceKeepsMargins
  <1>7. MarginState(dict)
    BY <1>1, <1>6 DEF KeepsMargins, MarginState
  <1>8. dict[id_b] = positions_dict[id_b]
    BY <1>1, <1>2, <1>3 DEF MarginState, DictInv
  <1> HIDE DEF dict
  <1>9. KeepsMargins(dict, last)
    BY <1>2, <1>5, <1>7, <1>8, ReplaceKeepsMargins
  <1> HIDE DEF last
  <1> QED
    BY <1>3, <1>6, <1>9, KeepsMarginsTwice DEF TransactionKeepsMargins

\* Liquidations: the liquidated position is funded before its update.
LEMMA LiquidateKeepsMargins ==
  ASSUME IndInv, NEW o \in LimitOrder, NEW id \in PositionIds, NEW c \in Int, NEW s \in Int,
         NEW f \in Int, Liquidate(o, id, c, s, f)
  PROVE  TransactionKeepsMargins
PROOF
  <1> DEFINE pos == positions_dict[id]
             funded == position_apply_funding(pos, market)
             req == LiquidatedRequest(funded, o, c, s)
             liquidated == update_position(funded, req, market)
             dict == [positions_dict EXCEPT ![id] = liquidated.updated_position]
             last == execute_limit_order(dict, o, c, s, f).positions_dict
  <1>1. MarginState(positions_dict)
    BY StartsFromInv
  <1>2. CanFund(pos, market) /\ positions_dict' = last
    BY DEF Liquidate
  <1>3. PositionInv(pos, market, funding_indices_table) /\ MarketInv(market, funding_indices_table)
    BY <1>1 DEF MarginState, DictInv
  <1>4. PositionInv(funded, market, funding_indices_table)
    BY <1>2, <1>3, FundingKeepsPosition
  <1>5. Margin(pos, market) => Margin(funded, market)
    <2>1. \A a \in Held(funded) : funded.assets[a].cached_funding_index = market.indices[a]
      BY DEF position_apply_funding, Held
    <2>2. Margin(pos, market) <=> WellLeveraged(funded, market.prices)
      BY DEF Margin
    <2> HIDE DEF funded
    <2> QED
      BY <1>3, <1>4, <2>1, <2>2, PositionIsPriced, SettlingAgain
  <1> HIDE DEF funded
  <1>6. req \in Request
    <2>1. funded.public_key \in PublicKeys \cup {NoKey}
      BY <1>4 DEF PositionInv, IsPosition
    <2> QED
      BY <2>1 DEF LiquidatedRequest, LimitOrder, Request
  <1> HIDE DEF req
  <1>7. /\ PositionInv(liquidated.updated_position, market, funding_indices_table)
        /\ Margin(pos, market) => Margin(liquidated.updated_position, market)
    <2>1. PICK result : result = liquidated
      OBVIOUS
    <2>2. result = update_position(funded, req, market)
      BY <2>1
    <2>3. PositionInv(result.updated_position, market, funding_indices_table)
      BY <1>3, <1>4, <1>6, <2>2, UpdateKeepsPosition
    <2>4. Margin(pos, market) => Margin(result.updated_position, market)
      BY <1>3, <1>4, <1>5, <1>6, <2>2, UpdateKeepsMargin
    <2> QED
      BY <2>1, <2>3, <2>4
  <1> HIDE DEF liquidated
  <1>8. KeepsMargins(positions_dict, dict)
    BY <1>1, <1>7, ReplaceKeepsMargins
  <1>9. MarginState(dict)
    BY <1>1, <1>8 DEF KeepsMargins, MarginState
  <1> HIDE DEF dict
  <1>10. KeepsMargins(dict, last)
    BY <1>9, LimitOrderKeepsMargins
  <1> HIDE DEF last
  <1> QED
    BY <1>2, <1>8, <1>10, KeepsMarginsTwice DEF TransactionKeepsMargins

\* Deleverages.
LEMMA DeleverageKeepsMargins ==
  ASSUME IndInv, NEW id \in PositionIds, NEW other \in PositionIds, NEW a \in Assets,
         NEW buying \in BOOLEAN, NEW c \in Int, NEW s \in Int,
         Deleverage(id, other, a, buying, c, s)
  PROVE  TransactionKeepsMargins
PROOF
  <1> DEFINE req == KeylessRequest(a, ~ buying, c, s)
             other_req == KeylessRequest(a, buying, c, s)
             deleveragable == update_position(positions_dict[id], req, market)
             dict == [positions_dict EXCEPT ![id] = deleveragable.updated_position]
             deleverager == update_position(dict[other], other_req, market)
             last == [dict EXCEPT ![other] = deleverager.updated_position]
  <1>1. MarginState(positions_dict)
    BY StartsFromInv
  <1>2. positions_dict' = last
    BY DEF Deleverage
  <1>3. req \in Request /\ other_req \in Request
    BY DEF KeylessRequest, Request
  <1> HIDE DEF req, other_req
  <1>4. KeepsMargins(positions_dict, dict)
    BY <1>1, <1>3, UpdateKeepsMargins
  <1>5. MarginState(dict)
    BY <1>1, <1>4 DEF KeepsMargins, MarginState
  <1> HIDE DEF dict
  <1>6. KeepsMargins(dict, last)
    BY <1>3, <1>5, UpdateKeepsMargins
  <1> HIDE DEF last
  <1> QED
    BY <1>2, <1>4, <1>6, KeepsMarginsTwice DEF TransactionKeepsMargins

\* Every user transaction keeps the margins.
LEMMA UserTransactionKeepsMargins ==
  ASSUME IndInv, UserTransaction
  PROVE  TransactionKeepsMargins
PROOF
  <1> USE RequestsAssumption
  <1>1. ASSUME NEW tx \in Deposits, Deposit(tx) PROVE TransactionKeepsMargins
    BY <1>1, CollateralRequestType, CollateralKeepsMargins DEF Deposit, ChangeCollateral, Collateral
  <1>2. ASSUME NEW tx \in Withdrawals, Withdrawal(tx) PROVE TransactionKeepsMargins
    <2>1. /\ tx.position_id \in PositionIds
          /\ CollateralRequest(tx.public_key, -tx.amount) \in Request
      BY CollateralRequestType DEF SignedWithdrawal
    <2> QED
      BY <1>2, <2>1, CollateralKeepsMargins DEF Withdrawal, ChangeCollateral
  <1>3. ASSUME NEW tx \in SignedTransfer, MoveCollateral(tx) PROVE TransactionKeepsMargins
    BY <1>3, MoveCollateralKeepsMargins
  <1>4. ASSUME NEW tx \in ForcedWithdrawals, NEW is_valid \in BOOLEAN,
               ForcedWithdrawal(tx, is_valid)
        PROVE  TransactionKeepsMargins
    <2>1. /\ tx.position_id \in PositionIds
          /\ CollateralRequest(tx.public_key, -tx.amount) \in Request
      BY CollateralRequestType DEF Collateral
    <2> QED
      BY <1>4, <2>1, CollateralKeepsMargins DEF ForcedWithdrawal
  <1>5. ASSUME AnyTrade PROVE TransactionKeepsMargins
    <2>1. PICK a \in LimitOrders, b \in LimitOrders, c \in CollateralAmounts,
               s \in SyntheticAmounts, f \in Fees, g \in Fees : Trade(a, b, c, s, f, g)
      BY <1>5 DEF AnyTrade
    <2> QED
      BY <2>1, TradeKeepsMargins
  <1>6. ASSUME AnyForcedTrade PROVE TransactionKeepsMargins
    <2>1. PICK tx \in ForcedTrades, is_valid \in BOOLEAN : ExecuteForcedTrade(tx, is_valid)
      BY <1>6 DEF AnyForcedTrade
    <2> QED
      BY <2>1, ForcedTradeKeepsMargins
  <1>7. ASSUME AnyLiquidate PROVE TransactionKeepsMargins
    <2>1. PICK o \in LimitOrders, id \in PositionIds, c \in CollateralAmounts,
               s \in SyntheticAmounts, f \in Fees : Liquidate(o, id, c, s, f)
      BY <1>7 DEF AnyLiquidate
    <2> QED
      BY <2>1, LiquidateKeepsMargins
  <1>8. ASSUME AnyDeleverage PROVE TransactionKeepsMargins
    <2>1. PICK id \in PositionIds, other \in PositionIds, a \in Assets, buying \in BOOLEAN,
               c \in CollateralAmounts, s \in SyntheticAmounts :
                 Deleverage(id, other, a, buying, c, s)
      BY <1>8 DEF AnyDeleverage
    <2> QED
      BY <2>1, DeleverageKeepsMargins
  <1> QED
    BY <1>1, <1>2, <1>3, <1>4, <1>5, <1>6, <1>7, <1>8
    DEF UserTransaction, Transfer, ConditionalTransfer

\* TransactionsKeepMargin, as a fact about one step from the invariant.
LEMMA StepKeepsMargin ==
  ASSUME IndInv, [Next]_vars, UNCHANGED globals
  PROVE  \A p \in PositionIds : MarginIsKept(p) => MarginIsKept(p)'
PROOF
  <1>1. market' = market
    BY DEF globals, market
  <1>2. CASE UserTransaction
    <2>1. \A p \in PositionIds : Margin(positions_dict[p], market) => Margin(positions_dict'[p], market)
      BY <1>2, UserTransactionKeepsMargins DEF TransactionKeepsMargins, KeepsMargins
    <2> QED
      BY <1>1, <2>1 DEF MarginIsKept, Settled, Margin, market
  <1>3. CASE Tick \/ UNCHANGED vars
    <2>1. positions_dict' = positions_dict
      BY <1>3 DEF Tick, FundingTick, OraclePricesTick, vars
    <2> QED
      BY <1>1, <2>1 DEF MarginIsKept, Settled, globals, market
  <1> QED
    BY <1>2, <1>3 DEF Next

\* validate_state_transition.cairo:12-19: no transaction, of its owner or of
\* others, makes a well leveraged position risky; only the market does.
THEOREM MarginsAreKept == Spec => TransactionsKeepMargin
PROOF
  <1>1. IndInv /\ [Next]_vars =>
          [UNCHANGED globals => \A p \in PositionIds : MarginIsKept(p) => MarginIsKept(p)']_vars
    BY StepKeepsMargin
  <1> QED
    BY <1>1, InductiveInvariant, PTL DEF Spec, TransactionsKeepMargin

-----------------------------------------------------------------------------
(* Deleverages: the ratio is tight.                                        *)

\* The assets that a well formed position holds are those of which it has any.
LEMMA HeldAreBalances ==
  ASSUME NEW pos, NEW m, NEW table, PositionInv(pos, m, table)
  PROVE  /\ Held(pos) \subseteq Assets
         /\ \A a \in Held(pos) : /\ pos.assets[a].balance = position_get_asset_balance(pos, a)
                                 /\ pos.assets[a].balance # 0
         /\ \A a : a \in Held(pos) <=> position_get_asset_balance(pos, a) # 0
BY DEF PositionInv, IsPosition, IsPartial, PositionWithinLimits, Held, position_get_asset_balance

\* An empty position is worth nothing.
LEMMA EmptyIsWorthless ==
  ASSUME NEW pos, NEW prices, IsEmpty(pos)
  PROVE  TotalValue(pos, prices) = 0
PROOF
  <1> DEFINE value == [a \in Held(pos) |-> prices[a] * pos.assets[a].balance]
  <1>1. Held(pos) = {} /\ pos.collateral_balance = 0
    BY DEF IsEmpty
  <1>2. TotalValue(pos, prices) = 0 * FXP_32_ONE + SumFunctionOnSet(value, {})
    BY <1>1 DEF TotalValue, SumFunction
  <1> HIDE DEF value
  <1> QED
    BY <1>2, SumOfNothing, BoundsAssumption

\* A unit of collateral less in the request is a unit less in the position.
LEMMA UnitLess ==
  ASSUME NEW pos, NEW m, NEW table, MarketInv(m, table), PositionInv(pos, m, table),
         NEW a, NEW s \in Int, NEW units \in Int,
         NEW new, PositionInv(new, m, table), Gains(new, pos, m, units, a, s),
         NEW less, PositionInv(less, m, table), Gains(less, pos, m, units - 1, a, s)
  PROVE  /\ TotalValue(new, m.prices) \in Int
         /\ TotalValue(less, m.prices) = TotalValue(new, m.prices) - FXP_32_ONE
         /\ TotalRisk(less, m.prices) = TotalRisk(new, m.prices)
PROOF
  <1>1. FundedCollateral(pos, m) \in Int
    BY PositionIsPriced, FundedCollateralIsFloor
  <1>2. less.collateral_balance = new.collateral_balance + (-1)
    BY <1>1 DEF Gains
  <1>3. \A x \in Assets : position_get_asset_balance(less, x) = position_get_asset_balance(new, x)
    BY DEF Gains
  <1>4. Held(less) = Held(new)
    BY <1>3, HeldAreBalances
  <1>5. \A x \in Held(new) : less.assets[x].balance = new.assets[x].balance
    BY <1>3, <1>4, HeldAreBalances
  <1>6. IsPriced(new, m) /\ TotalValue(new, m.prices) \in Int
    BY PositionIsPriced, ValueType
  <1>7. /\ TotalValue(less, m.prices) = TotalValue(new, m.prices) + (-1) * FXP_32_ONE
        /\ TotalRisk(less, m.prices) = TotalRisk(new, m.prices)
    BY <1>2, <1>4, <1>5, <1>6, StatusReadsBalances
  <1> QED
    BY <1>6, <1>7, BoundsAssumption

\* With a negative value before, a tight ratio is above the one that a unit of
\* collateral less would give, and that one is not well leveraged.
LEMMA TightArithmetic ==
  ASSUME NEW F \in Nat \ {0}, NEW v \in Int, v < 0, NEW r \in Nat, NEW w \in Int, NEW q \in Nat,
         v * q > (w - F) * r
  PROVE  /\ ~ q <= (w - F) * F
         /\ w < F
PROOF
  <1> DEFINE x == w - F
  <1>1. x \in Int /\ v * q > x * r
    OBVIOUS
  <1>2. v * q <= 0 /\ v * q \in Int
    OBVIOUS
  <1>3. x * r \in Int
    BY <1>1
  <1>4. x < 0
    <2> SUFFICES ASSUME x >= 0 PROVE FALSE
      BY <1>1
    <2> HIDE DEF x
    <2>1. x * r >= 0
      BY <1>1
    <2> QED
      BY <1>1, <1>2, <1>3, <2>1
  <1>5. x * F < 0 /\ x * F \in Int
    <2> HIDE DEF x
    <2> QED
      BY <1>1, <1>4
  <1>6. w < F
    BY <1>4
  <1> QED
    BY <1>5, <1>6

\* deleverage.cairo:141-144, for one position.
LEMMA TightRefusesUnitLess ==
  ASSUME NEW pos, NEW m, NEW table, MarketInv(m, table), PositionInv(pos, m, table),
         NEW req \in Request, NEW result, result = update_position(pos, req, m), Succeeds(result),
         HasStatus(result.funded_position, m.prices),
         HasStatus(result.updated_position, m.prices),
         TotalValue(result.funded_position, m.prices) < 0,
         DeleverageRatioIsTight(result.funded_position, result.updated_position, m.prices),
         NEW less, less = [req EXCEPT !.collateral_delta = @ - 1],
         NEW other, other = update_position(pos, less, m)
  PROVE  ~ Succeeds(other)
PROOF
  <1> SUFFICES ASSUME Succeeds(other) PROVE FALSE
    OBVIOUS
  <1> DEFINE old == result.funded_position
             new == result.updated_position
             last == other.updated_position
             units == req.collateral_delta
             a == req.synthetic_asset_id
             s == req.synthetic_delta
  <1>1. /\ less \in Request /\ less.collateral_delta = units - 1
        /\ less.synthetic_asset_id = a /\ less.synthetic_delta = s
        /\ units \in Int /\ s \in Int
    BY DEF Request
  <1>2. ~ Aborts(result) /\ ~ Aborts(other)
    BY DEF Succeeds, Aborts
  <1>3. /\ PositionInv(old, m, table) /\ PositionInv(new, m, table) /\ PositionInv(last, m, table)
        /\ other.funded_position = old
    BY <1>1, <1>2, UpdateOutcome
  <1>4. Gains(new, pos, m, units, a, s) /\ Gains(last, pos, m, units - 1, a, s)
    <2>1. Gains(last, pos, m, less.collateral_delta, less.synthetic_asset_id, less.synthetic_delta)
      BY <1>1, <1>2, UpdateGains
    <2> QED
      BY <1>1, <1>2, <2>1, UpdateGains
  <1>5. old.public_key # NoKey
    <2>1. ~ IsEmpty(old)
      BY EmptyIsWorthless
    <2> QED
      BY <1>3, <2>1 DEF PositionInv
  <1>6. check_valid_transition(last, old, m.prices)
    <2>1. ~ IsNoChange(old, less)
      BY <1>5 DEF IsNoChange
    <2> QED
      BY <1>1, <1>2, <1>3, <2>1, UpdateOutcome
  <1> DEFINE v == TotalValue(old, m.prices)
             r == TotalRisk(old, m.prices)
             w == TotalValue(new, m.prices)
             q == TotalRisk(new, m.prices)
  <1>7. /\ w \in Int /\ TotalValue(last, m.prices) = w - FXP_32_ONE
        /\ TotalRisk(last, m.prices) = q
    <2> HIDE DEF new, last, units, a, s
    <2> QED
      BY <1>1, <1>3, <1>4, UnitLess
  <1>8. v \in Int /\ r \in Nat /\ q \in Nat
    BY <1>3, PositionIsPriced, ValueType, RiskType
  <1>9. v < 0 /\ v * q > (w - FXP_32_ONE) * r
    BY DEF DeleverageRatioIsTight
  <1>10. \/ q <= (w - FXP_32_ONE) * FXP_32_ONE
         \/ v * q <= (w - FXP_32_ONE) * r
    BY <1>6, <1>7 DEF check_valid_transition, WellLeveraged, RatioKept
  <1> HIDE DEF v, r, w, q
  <1>11. ~ q <= (w - FXP_32_ONE) * FXP_32_ONE
    BY <1>7, <1>8, <1>9, BoundsAssumption, TightArithmetic
  <1>12. v * q \in Int /\ (w - FXP_32_ONE) * r \in Int
    BY <1>7, <1>8, BoundsAssumption
  <1> QED
    BY <1>9, <1>10, <1>11, <1>12

\* DeleverageIsTight, as a fact about one deleveraging.
LEMMA DeleverageTight ==
  ASSUME IndInv, NEW id \in PositionIds, NEW other \in PositionIds, NEW a \in Assets,
         NEW buying \in BOOLEAN, NEW c \in Int, NEW s \in Int,
         Deleverage(id, other, a, buying, c, s),
         NEW request, request = KeylessRequest(a, ~ buying, c, s)
  PROVE  ~ Succeeds(update_position(positions_dict[id],
                                    [request EXCEPT !.collateral_delta = @ - 1], market))
PROOF
  <1> DEFINE pos == positions_dict[id]
             prices == market.prices
             result == update_position(pos, request, market)
             old == result.funded_position
             new == result.updated_position
  <1>1. MarketInv(market, funding_indices_table) /\ PositionInv(pos, market, funding_indices_table)
    BY StartsFromInv DEF MarginState, DictInv
  <1>2. request \in Request
    BY DEF KeylessRequest, Request
  <1>3. /\ Succeeds(result) /\ HasStatus(old, prices) /\ HasStatus(new, prices)
        /\ TotalValue(old, prices) < 0 /\ DeleverageRatioIsTight(old, new, prices)
    BY DEF Deleverage, market
  <1>4. PICK p, m, update : p = pos /\ m = market /\ update = result
    OBVIOUS
  <1>5. /\ MarketInv(m, funding_indices_table) /\ PositionInv(p, m, funding_indices_table)
        /\ update = update_position(p, request, m) /\ Succeeds(update)
        /\ HasStatus(update.funded_position, m.prices)
        /\ HasStatus(update.updated_position, m.prices)
        /\ TotalValue(update.funded_position, m.prices) < 0
        /\ DeleverageRatioIsTight(update.funded_position, update.updated_position, m.prices)
    BY <1>1, <1>3, <1>4
  <1> HIDE DEF pos, result
  <1>6. ~ Succeeds(update_position(p, [request EXCEPT !.collateral_delta = @ - 1], m))
    BY <1>2, <1>5, TightRefusesUnitLess
  <1> QED
    BY <1>4, <1>6 DEF pos

\* deleverage.cairo:141-144: if the deleveraged position got one unit of
\* collateral less, its update would be refused.
THEOREM DeleveragesAreTight == Spec => DeleverageIsTight
PROOF
  <1> DEFINE Tight ==
        \A id, other \in PositionIds, a \in Assets, buying \in BOOLEAN,
           c \in CollateralAmounts, s \in SyntheticAmounts :
          Deleverage(id, other, a, buying, c, s) =>
            LET request == KeylessRequest(a, ~ buying, c, s)
            IN  ~ Succeeds(update_position(positions_dict[id],
                                           [request EXCEPT !.collateral_delta = @ - 1], market))
  <1>1. IndInv => Tight
    BY DeleverageTight, RequestsAssumption
  <1>2. IndInv /\ [Next]_vars => [UNCHANGED <<orders, globals, outputs>> => Tight]_vars
    BY <1>1
  <1> QED
    BY <1>2, InductiveInvariant, PTL DEF Spec, DeleverageIsTight

-----------------------------------------------------------------------------
(* Synthetic balances, position by position.                               *)

\* From one dictionary to another, only one balance changed, by delta.
BalanceMoves(dict, new, id, asset, delta) ==
  \A p \in PositionIds, x \in Assets :
    position_get_asset_balance(new[p], x)
      = position_get_asset_balance(dict[p], x) + (IF p = id /\ x = asset THEN delta ELSE 0)

\* No balance changed.
BalancesStay(dict, new) ==
  \A p \in PositionIds, x \in Assets :
    position_get_asset_balance(new[p], x) = position_get_asset_balance(dict[p], x)

\* Balances are integers.
LEMMA DictBalances ==
  ASSUME NEW dict, MarginState(dict)
  PROVE  \A p \in PositionIds, x \in Assets : position_get_asset_balance(dict[p], x) \in Int
BY BalanceType DEF MarginState, DictInv, PositionInv

\* One update changes what its request says, or nothing.
LEMMA UpdateBalances ==
  ASSUME NEW dict, MarginState(dict), NEW id \in PositionIds, NEW req \in Request,
         NEW result, result = update_position(dict[id], req, market), ~ Aborts(result)
  PROVE  /\ BalancesStay(dict, [dict EXCEPT ![id] = result.funded_position])
         /\ ~ Succeeds(result) => result.updated_position = result.funded_position
         /\ Succeeds(result) =>
              BalanceMoves(dict, [dict EXCEPT ![id] = result.updated_position], id,
                           req.synthetic_asset_id, req.synthetic_delta)
PROOF
  <1> DEFINE pos == dict[id]
             updated == result.updated_position
             funded == result.funded_position
             asset == req.synthetic_asset_id
             delta == req.synthetic_delta
             bal(p, x) == position_get_asset_balance(p, x)
  <1>1. PositionInv(pos, market, funding_indices_table) /\ MarketInv(market, funding_indices_table)
    BY DEF MarginState, DictInv
  <1>2. \A p \in PositionIds, x \in Assets : bal(dict[p], x) \in Int
    BY DictBalances
  <1>3. \A x \in Assets : bal(funded, x) = bal(pos, x)
    <2>1. Gains(funded, pos, market, 0, NoAsset, 0)
      BY <1>1, UpdateGains
    <2> HIDE DEF funded
    <2> QED
      BY <1>2, <2>1 DEF Gains
  <1>4. /\ ~ Succeeds(result) => updated = funded
        /\ Succeeds(result) => Gains(updated, pos, market, req.collateral_delta, asset, delta)
    BY <1>1, UpdateGains
  <1>5. Succeeds(result) =>
          \A x \in Assets : bal(updated, x) = bal(pos, x) + (IF x = asset THEN delta ELSE 0)
    BY <1>4 DEF Gains
  <1>6. ASSUME NEW new PROVE /\ [dict EXCEPT ![id] = new][id] = new
                             /\ \A p \in PositionIds \ {id} : [dict EXCEPT ![id] = new][p] = dict[p]
    BY DEF MarginState, DictInv
  <1> HIDE DEF updated, funded, asset, delta
  <1>7. BalancesStay(dict, [dict EXCEPT ![id] = funded])
    BY <1>3, <1>6 DEF BalancesStay
  <1>8. ASSUME Succeeds(result)
        PROVE  BalanceMoves(dict, [dict EXCEPT ![id] = updated], id, asset, delta)
    <2> DEFINE new == [dict EXCEPT ![id] = updated]
    <2>1. new[id] = updated /\ \A p \in PositionIds \ {id} : new[p] = dict[p]
      BY <1>6
    <2> HIDE DEF new
    <2>2. ASSUME NEW p \in PositionIds, NEW x \in Assets
          PROVE  bal(new[p], x) = bal(dict[p], x) + (IF p = id /\ x = asset THEN delta ELSE 0)
      <3>1. CASE p = id
        BY <1>5, <1>8, <2>1, <3>1
      <3>2. CASE p # id
        <4>1. new[p] = dict[p] /\ bal(dict[p], x) \in Int
          BY <1>2, <2>1, <3>2
        <4> HIDE DEF bal
        <4> QED
          BY <3>2, <4>1
      <3> QED
        BY <3>1, <3>2
    <2> QED
      BY <2>2 DEF BalanceMoves, new
  <1> QED
    BY <1>4, <1>7, <1>8 DEF updated, funded, asset, delta

\* A collateral request changes no balance, whatever its outcome.
LEMMA CollateralBalances ==
  ASSUME NEW dict, MarginState(dict), NEW id \in PositionIds,
         NEW key \in PublicKeys \cup {NoKey}, NEW delta \in Int,
         NEW result, result = update_position(dict[id], CollateralRequest(key, delta), market),
         ~ Aborts(result)
  PROVE  BalancesStay(dict, [dict EXCEPT ![id] = result.updated_position])
PROOF
  <1> DEFINE req == CollateralRequest(key, delta)
             new == [dict EXCEPT ![id] = result.updated_position]
  <1>1. req \in Request /\ req.synthetic_asset_id = NoAsset
    BY CollateralRequestType DEF CollateralRequest
  <1> HIDE DEF req
  <1>2. result = update_position(dict[id], req, market)
    BY DEF req
  <1>3. CASE ~ Succeeds(result)
    <2>1. /\ BalancesStay(dict, [dict EXCEPT ![id] = result.funded_position])
          /\ result.updated_position = result.funded_position
      BY <1>1, <1>2, <1>3, UpdateBalances
    <2> QED
      BY <2>1
  <1>4. CASE Succeeds(result)
    <2>1. BalanceMoves(dict, new, id, NoAsset, req.synthetic_delta)
      BY <1>1, <1>2, <1>4, UpdateBalances
    <2>2. \A p \in PositionIds, x \in Assets : position_get_asset_balance(dict[p], x) \in Int
      BY DictBalances
    <2> HIDE DEF new
    <2>3. BalancesStay(dict, new)
      BY <2>1, <2>2, NamesAssumption DEF BalanceMoves, BalancesStay
    <2> QED
      BY <2>3 DEF new
  <1> QED
    BY <1>3, <1>4

\* A party's order changes the party's balance of the order's asset.
LEMMA LimitOrderBalances ==
  ASSUME NEW dict, MarginState(dict), NEW o \in LimitOrder, NEW c \in Int, NEW s \in Int,
         NEW f \in Int, NEW result, result = execute_limit_order(dict, o, c, s, f), result.success
  PROVE  /\ MarginState(result.positions_dict)
         /\ BalanceMoves(dict, result.positions_dict, o.position_id, o.asset_id_synthetic,
                         IF o.is_buying_synthetic THEN s ELSE -s)
PROOF
  <1> DEFINE fee_req == CollateralRequest(FeePublicKey, f)
             fee_update == update_position(dict[FeePositionId], fee_req, market)
             with_fee == [dict EXCEPT ![FeePositionId] = fee_update.updated_position]
             id == o.position_id
             req == LimitOrderRequest(o, c, s, f)
             update == update_position(with_fee[id], req, market)
             last == [with_fee EXCEPT ![id] = update.updated_position]
             asset == o.asset_id_synthetic
             delta == IF o.is_buying_synthetic THEN s ELSE -s
  <1>1. /\ FeePositionId \in PositionIds /\ id \in PositionIds
        /\ FeePublicKey \in PublicKeys \cup {NoKey} /\ req \in Request /\ fee_req \in Request
        /\ req.synthetic_asset_id = asset /\ req.synthetic_delta = delta
    BY ConfigAssumption, CollateralRequestType, LimitOrderRequestType
    DEF LimitOrder, LimitOrderRequest
  <1>2. /\ result.positions_dict = last /\ Succeeds(fee_update) /\ Succeeds(update)
        /\ ~ Aborts(fee_update) /\ ~ Aborts(update)
    BY DEF execute_limit_order, Succeeds, Aborts
  <1> HIDE DEF id, req, asset, delta
  <1>3. BalancesStay(dict, with_fee)
    BY <1>1, <1>2, CollateralBalances
  <1>4. MarginState(with_fee)
    <2> HIDE DEF fee_req
    <2>1. KeepsMargins(dict, with_fee)
      BY <1>1, UpdateKeepsMargins
    <2> QED
      BY <2>1 DEF KeepsMargins, MarginState
  <1> HIDE DEF with_fee
  <1>5. BalanceMoves(with_fee, last, id, req.synthetic_asset_id, req.synthetic_delta)
    BY <1>1, <1>2, <1>4, UpdateBalances
  <1>6. MarginState(last)
    <2>1. KeepsMargins(with_fee, last)
      BY <1>1, <1>4, UpdateKeepsMargins
    <2> QED
      BY <1>4, <2>1 DEF KeepsMargins, MarginState
  <1> HIDE DEF last
  <1>7. BalanceMoves(dict, last, id, asset, delta)
    BY <1>1, <1>3, <1>5 DEF BalancesStay, BalanceMoves
  <1> QED
    BY <1>2, <1>6, <1>7 DEF id, asset, delta

-----------------------------------------------------------------------------
(* SeizureOnlyShrinks.                                                     *)

\* What SeizureOnlyShrinks says of one balance in one step.
SeizesLittle(p, a) ==
  LET before == position_get_asset_balance(positions_dict[p], a)
      after == position_get_asset_balance(positions_dict'[p], a)
  IN  before # after /\ ~ Agreed(p) =>
        \/ Shrinks(before, after)
        \/ /\ TotalValue(Settled(p), oracle_prices) < 0
           /\ WellLeveraged(positions_dict'[p], oracle_prices)
           /\ TotalValue(positions_dict'[p], oracle_prices) < FXP_32_ONE

SeizesLittleOfAll == \A p \in PositionIds, a \in Assets : SeizesLittle(p, a)

\* Nothing is seized where no balance changes.
LEMMA NothingSeized ==
  ASSUME BalancesStay(positions_dict, positions_dict')
  PROVE  SeizesLittleOfAll
BY DEF BalancesStay, SeizesLittleOfAll, SeizesLittle

\* A size that the balance covers takes it towards 0.
LEMMA CoveredSizeShrinks ==
  ASSUME NEW pos, NEW a, NEW is_counterparty_buying \in BOOLEAN, NEW s \in Int,
         position_get_asset_balance(pos, a) \in Int, Covers(pos, a, is_counterparty_buying, s),
         NEW after, after = position_get_asset_balance(pos, a)
                              + (IF is_counterparty_buying THEN -s ELSE s),
         after # position_get_asset_balance(pos, a)
  PROVE  Shrinks(position_get_asset_balance(pos, a), after)
PROOF
  <1> DEFINE before == position_get_asset_balance(pos, a)
  <1>1. before \in Int /\ after \in Int /\ s \in 0 .. (IF is_counterparty_buying THEN before ELSE -before)
    BY DEF Covers
  <1> HIDE DEF before
  <1>2. after = before + (IF is_counterparty_buying THEN -s ELSE s) /\ after # before
    BY DEF before
  <1>3. CASE is_counterparty_buying
    <2>1. 0 <= after /\ after < before
      BY <1>1, <1>2, <1>3
    <2>2. before * after >= 0
      BY <1>1, <2>1
    <2> QED
      BY <1>1, <2>1, <2>2 DEF Shrinks, abs_value, before
  <1>4. CASE ~ is_counterparty_buying
    <2>1. before < after /\ after <= 0
      BY <1>1, <1>2, <1>4
    <2> DEFINE x == -before
               y == -after
    <2>2. x \in Nat /\ y \in Nat
      BY <1>1, <2>1
    <2>3. before = -x /\ after = -y
      BY <1>1
    <2> HIDE DEF x, y
    <2>4. (-x) * (-y) = x * y /\ x * y >= 0
      BY <2>2
    <2>5. before * after >= 0
      BY <2>3, <2>4
    <2> QED
      BY <1>1, <2>1, <2>5 DEF Shrinks, abs_value, before
  <1> QED
    BY <1>3, <1>4

\* A position that comes out smaller has all its balances shrunk.
LEMMA SmallerShrinks ==
  ASSUME NEW new, NEW old, NEW m, NEW table, PositionInv(new, m, table), PositionInv(old, m, table),
         check_smaller_in_synthetic_holdings(new, old), NEW a \in Assets,
         NEW before, before = position_get_asset_balance(old, a),
         NEW after, after = position_get_asset_balance(new, a), before # after
  PROVE  Shrinks(before, after)
PROOF
  <1>1. before \in Int /\ after \in Int
    BY BalanceType DEF PositionInv
  <1>2. CASE a \in Held(new)
    <2>1. /\ before = old.assets[a].balance /\ after = new.assets[a].balance
          /\ after * before >= 0 /\ abs_value(after) <= abs_value(before)
      BY <1>2 DEF check_smaller_in_synthetic_holdings, position_get_asset_balance
    <2>2. before * after = after * before
      BY <1>1
    <2>3. abs_value(after) # abs_value(before)
      <3> SUFFICES ASSUME abs_value(after) = abs_value(before) PROVE FALSE
        OBVIOUS
      <3>1. after = -before /\ before # 0
        BY <1>1 DEF abs_value
      <3>2. before * before > 0
        BY <1>1, <3>1
      <3>3. (-before) * before = -(before * before)
        BY <1>1
      <3> QED
        BY <1>1, <2>1, <3>1, <3>2, <3>3
    <2> QED
      BY <1>1, <2>1, <2>2, <2>3 DEF Shrinks, abs_value
  <1>3. CASE a \notin Held(new)
    <2>1. after = 0 /\ before # 0
      BY <1>3 DEF position_get_asset_balance
    <2> QED
      BY <1>1, <2>1 DEF Shrinks, abs_value
  <1> QED
    BY <1>2, <1>3

\* Deposits, withdrawals and forced withdrawals seize nothing.
LEMMA CollateralSeizesNothing ==
  ASSUME IndInv, NEW id \in PositionIds, NEW key \in PublicKeys \cup {NoKey}, NEW delta \in Int,
         NEW result, result = update_position(positions_dict[id], CollateralRequest(key, delta), market),
         ~ Aborts(result),
         positions_dict' = [positions_dict EXCEPT ![id] = result.updated_position]
  PROVE  SeizesLittleOfAll
BY StartsFromInv, CollateralBalances, NothingSeized

\* Nor do transfers.
LEMMA MoveCollateralSeizesNothing ==
  ASSUME IndInv, NEW tx \in SignedTransfer, MoveCollateral(tx)
  PROVE  SeizesLittleOfAll
PROOF
  <1> DEFINE sender == tx.sender_position_id
             receiver == tx.receiver_position_id
             send == CollateralRequest(tx.public_key, -tx.amount)
             receive == CollateralRequest(tx.receiver_public_key, tx.amount)
             sent == update_position(positions_dict[sender], send, market)
             dict == [positions_dict EXCEPT ![sender] = sent.updated_position]
             received == update_position(dict[receiver], receive, market)
             last == [dict EXCEPT ![receiver] = received.updated_position]
  <1>1. MarginState(positions_dict)
    BY StartsFromInv
  <1>2. /\ sender \in PositionIds /\ receiver \in PositionIds
        /\ tx.amount \in Int /\ -tx.amount \in Int /\ tx.public_key \in PublicKeys \cup {NoKey}
        /\ tx.receiver_public_key \in PublicKeys \cup {NoKey}
        /\ send \in Request /\ receive \in Request
    BY CollateralRequestType DEF SignedTransfer
  <1>3. /\ ~ Aborts(sent) /\ ~ Aborts(received) /\ positions_dict' = last
    BY DEF MoveCollateral, Succeeds, Aborts
  <1> HIDE DEF sender, receiver
  <1>4. BalancesStay(positions_dict, dict)
    BY <1>1, <1>2, <1>3, CollateralBalances
  <1>5. MarginState(dict)
    <2> HIDE DEF send
    <2>1. KeepsMargins(positions_dict, dict)
      BY <1>1, <1>2, UpdateKeepsMargins
    <2> QED
      BY <1>1, <2>1 DEF KeepsMargins, MarginState
  <1> HIDE DEF dict
  <1>6. BalancesStay(dict, last)
    BY <1>2, <1>3, <1>5, CollateralBalances
  <1> HIDE DEF last
  <1>7. BalancesStay(positions_dict, positions_dict')
    BY <1>3, <1>4, <1>6 DEF BalancesStay
  <1> QED
    BY <1>7, NothingSeized

\* An order that is being filled agrees for its position.
LEMMA FilledOrderAgrees ==
  ASSUME IndInv, NEW a \in LimitOrders, NEW b \in OrderIds, NEW s \in Int, s >= 1,
         orders_dict' = update_order_fulfillment(
                          update_order_fulfillment(orders_dict, b, s), a.order_id, s)
           \/ orders_dict' = update_order_fulfillment(
                               update_order_fulfillment(orders_dict, a.order_id, s), b, s)
           \/ orders_dict' = update_order_fulfillment(orders_dict, a.order_id, s)
  PROVE  Agreed(a.position_id)
PROOF
  <1>1. a.order_id \in OrderIds /\ orders_dict \in [OrderIds -> Int]
    BY RequestsAssumption DEF IndInv, OrdersInv, LimitOrder
  <1>2. orders_dict'[a.order_id] \in {orders_dict[a.order_id] + s, orders_dict[a.order_id] + s + s}
    BY <1>1 DEF update_order_fulfillment
  <1>3. orders_dict'[a.order_id] # orders_dict[a.order_id]
    BY <1>1, <1>2
  <1> QED
    BY <1>3 DEF Agreed

\* A trade changes the balances of its two orders' positions.
LEMMA TradeSeizesNothing ==
  ASSUME IndInv, NEW a \in LimitOrders, NEW b \in LimitOrders, NEW c \in Int, NEW s \in Int,
         NEW f \in Int, NEW g \in Int, Trade(a, b, c, s, f, g)
  PROVE  SeizesLittleOfAll
PROOF
  <1> DEFINE bought == execute_limit_order(positions_dict, a, c, s, f)
             dict == bought.positions_dict
             sold == execute_limit_order(dict, b, c, s, g)
             last == sold.positions_dict
             d == IF a.is_buying_synthetic THEN s ELSE -s
             e == IF b.is_buying_synthetic THEN s ELSE -s
  <1>1. MarginState(positions_dict) /\ a \in LimitOrder /\ b \in LimitOrder
        /\ a.order_id \in OrderIds /\ b.order_id \in OrderIds
    BY StartsFromInv, RequestsAssumption DEF LimitOrder
  <1>2. /\ bought.success /\ sold.success /\ positions_dict' = last /\ s >= 1
        /\ orders_dict' = update_order_fulfillment(
                            update_order_fulfillment(orders_dict, a.order_id, s), b.order_id, s)
    BY DEF Trade, CanFillLimitOrder
  <1>3. /\ MarginState(dict)
        /\ BalanceMoves(positions_dict, dict, a.position_id, a.asset_id_synthetic, d)
    <2> HIDE DEF bought
    <2>1. bought = execute_limit_order(positions_dict, a, c, s, f)
      BY DEF bought
    <2> QED
      BY <1>1, <1>2, <2>1, LimitOrderBalances
  <1> HIDE DEF dict
  <1>4. BalanceMoves(dict, last, b.position_id, b.asset_id_synthetic, e)
    <2> HIDE DEF sold
    <2>1. sold = execute_limit_order(dict, b, c, s, g)
      BY DEF sold
    <2> QED
      BY <1>1, <1>2, <1>3, <2>1, LimitOrderBalances
  <1> HIDE DEF last
  <1>5. Agreed(a.position_id) /\ Agreed(b.position_id)
    BY <1>1, <1>2, FilledOrderAgrees
  <1> HIDE DEF d, e
  <1> SUFFICES ASSUME NEW p \in PositionIds, NEW x \in Assets, ~ Agreed(p)
               PROVE  position_get_asset_balance(positions_dict'[p], x)
                        = position_get_asset_balance(positions_dict[p], x)
    BY DEF SeizesLittleOfAll, SeizesLittle
  <1>6. p # a.position_id /\ p # b.position_id
    BY <1>5
  <1>7. position_get_asset_balance(positions_dict[p], x) \in Int
    BY <1>1, DictBalances
  <1>8. position_get_asset_balance(dict[p], x) = position_get_asset_balance(positions_dict[p], x)
    BY <1>3, <1>6, <1>7 DEF BalanceMoves
  <1> QED
    BY <1>2, <1>4, <1>6, <1>7, <1>8 DEF BalanceMoves

\* A forced trade that is executed was agreed by both sides, and one that is not
\* changes no balance.
LEMMA ForcedTradeSeizesNothing ==
  ASSUME IndInv, NEW tx \in ForcedTrades, NEW is_valid \in BOOLEAN,
         ExecuteForcedTrade(tx, is_valid)
  PROVE  SeizesLittleOfAll
PROOF
  <1> DEFINE id_a == tx.position_id_a
             id_b == tx.position_id_b
             req_a == ForcedTradeRequest(tx, TRUE)
             req_b == ForcedTradeRequest(tx, FALSE)
             a == update_position(positions_dict[id_a], req_a, market)
             b == update_position(positions_dict[id_b], req_b, market)
             after_a == try_to_trade(a, b)
             after_b == try_to_trade(b, a)
             dict == [positions_dict EXCEPT ![id_a] = after_a]
             last == [dict EXCEPT ![id_b] = after_b]
  <1>1. MarginState(positions_dict)
    BY StartsFromInv
  <1>2. id_a \in PositionIds /\ id_b \in PositionIds /\ req_a \in Request /\ req_b \in Request
    BY RequestsAssumption DEF ForcedTrade, ForcedTradeRequest, Request
  <1>3. /\ id_a # id_b /\ positions_dict' = last /\ ~ Aborts(a) /\ ~ Aborts(b)
        /\ is_valid <=> Succeeds(a) /\ Succeeds(b)
    BY DEF ExecuteForcedTrade
  <1>4. \A p \in PositionIds \ {id_a, id_b} : positions_dict'[p] = positions_dict[p]
    BY <1>1, <1>2, <1>3 DEF MarginState, DictInv
  <1>5. CASE is_valid
    <2>1. Agreed(id_a) /\ Agreed(id_b)
      BY <1>5 DEF Agreed
    <2> HIDE DEF id_a, id_b
    <2> QED
      BY <1>4, <2>1 DEF SeizesLittleOfAll, SeizesLittle
  <1>6. CASE ~ is_valid
    <2>1. after_a = a.funded_position /\ after_b = b.funded_position
      BY <1>3, <1>6 DEF try_to_trade
    <2> HIDE DEF id_a, id_b, req_a, req_b, after_a, after_b
    <2>2. BalancesStay(positions_dict, dict) /\ KeepsMargins(positions_dict, dict)
      BY <1>1, <1>2, <1>3, <2>1, UpdateBalances, UpdateKeepsMargins
    <2>3. MarginState(dict)
      BY <1>1, <2>2 DEF KeepsMargins, MarginState
    <2>4. dict[id_b] = positions_dict[id_b]
      BY <1>1, <1>2, <1>3 DEF MarginState, DictInv
    <2>5. b = update_position(dict[id_b], req_b, market)
      BY <2>4
    <2> HIDE DEF dict, b
    <2>6. BalancesStay(dict, last)
      BY <1>2, <1>3, <2>1, <2>3, <2>5, UpdateBalances
    <2> HIDE DEF last
    <2>7. BalancesStay(positions_dict, positions_dict')
      BY <1>3, <2>2, <2>6 DEF BalancesStay
    <2> QED
      BY <2>7, NothingSeized
  <1> QED
    BY <1>5, <1>6

\* A liquidation takes the liquidated position's balance towards 0; the
\* liquidator agreed by the order.
LEMMA LiquidateSeizesLittle ==
  ASSUME IndInv, NEW o \in LimitOrders, NEW id \in PositionIds, NEW c \in Int, NEW s \in Int,
         NEW f \in Int, Liquidate(o, id, c, s, f)
  PROVE  SeizesLittleOfAll
PROOF
  <1> DEFINE pos == positions_dict[id]
             funded == position_apply_funding(pos, market)
             settled == [positions_dict EXCEPT ![id] = funded]
             req == LiquidatedRequest(funded, o, c, s)
             liquidated == update_position(funded, req, market)
             dict == [settled EXCEPT ![id] = liquidated.updated_position]
             filled == execute_limit_order(dict, o, c, s, f)
             last == filled.positions_dict
             asset == o.asset_id_synthetic
             buying == o.is_buying_synthetic
  <1>1. MarginState(positions_dict) /\ o \in LimitOrder /\ buying \in BOOLEAN
    BY StartsFromInv, RequestsAssumption DEF LimitOrder
  <1>2. /\ PositionInv(pos, market, funding_indices_table)
        /\ MarketInv(market, funding_indices_table)
        /\ positions_dict = [p \in PositionIds |-> positions_dict[p]]
    BY <1>1 DEF MarginState, DictInv
  <1>3. /\ CanFund(pos, market) /\ Covers(funded, asset, buying, s) /\ Succeeds(liquidated)
        /\ o.position_id # id /\ s >= 1
        /\ orders_dict' = update_order_fulfillment(orders_dict, o.order_id, s)
    BY DEF Liquidate, CanFillLimitOrder
  <1>4. filled.success /\ positions_dict' = last
    <2>1. dict = [positions_dict EXCEPT ![id] = liquidated.updated_position]
      BY <1>2
    <2> HIDE DEF liquidated, dict
    <2> QED
      BY <2>1 DEF Liquidate, liquidated
  <1>5. PositionInv(funded, market, funding_indices_table)
    BY <1>2, <1>3, FundingKeepsPosition
  <1>6. BalancesStay(positions_dict, settled)
    <2>1. \A x \in Assets : position_get_asset_balance(funded, x) = position_get_asset_balance(pos, x)
      BY DEF position_apply_funding, position_get_asset_balance, Held
    <2>2. settled[id] = funded /\ \A p \in PositionIds \ {id} : settled[p] = positions_dict[p]
      BY <1>2
    <2> HIDE DEF settled, funded
    <2> QED
      BY <2>1, <2>2 DEF BalancesStay
  <1>7. req \in Request /\ req.synthetic_asset_id = asset
        /\ req.synthetic_delta = (IF buying THEN -s ELSE s)
    <2>1. funded.public_key \in PublicKeys \cup {NoKey}
      BY <1>5 DEF PositionInv, IsPosition
    <2> HIDE DEF funded
    <2> QED
      BY <1>1, <2>1 DEF LiquidatedRequest, LimitOrder, Request
  <1>8. MarginState(settled) /\ settled[id] = funded
    <2>1. DictInv(settled, market, funding_indices_table)
      <3> HIDE DEF funded
      <3> QED
        BY <1>1, <1>5, ReplaceKeepsDict DEF MarginState
    <2> QED
      BY <1>2, <2>1 DEF MarginState
  <1> HIDE DEF settled, funded, req
  <1>9. /\ MarginState(dict) /\ ~ Aborts(liquidated)
        /\ BalanceMoves(settled, dict, id, asset, IF buying THEN -s ELSE s)
    <2>1. PICK result : result = liquidated
      OBVIOUS
    <2>2. result = update_position(settled[id], req, market) /\ Succeeds(result) /\ ~ Aborts(result)
      BY <1>3, <1>8, <2>1 DEF Succeeds, Aborts
    <2>3. /\ KeepsMargins(settled, [settled EXCEPT ![id] = result.updated_position])
          /\ BalanceMoves(settled, [settled EXCEPT ![id] = result.updated_position], id,
                          req.synthetic_asset_id, req.synthetic_delta)
      BY <1>7, <1>8, <2>2, UpdateBalances, UpdateKeepsMargins
    <2> HIDE DEF liquidated
    <2>4. dict = [settled EXCEPT ![id] = result.updated_position]
      BY <2>1
    <2> HIDE DEF dict
    <2> QED
      BY <1>7, <1>8, <2>1, <2>2, <2>3, <2>4 DEF KeepsMargins, MarginState
  <1> HIDE DEF dict, liquidated
  <1>10. BalanceMoves(dict, last, o.position_id, asset, IF buying THEN s ELSE -s)
    <2>1. PICK result : result = filled
      OBVIOUS
    <2>2. result = execute_limit_order(dict, o, c, s, f) /\ result.success
      BY <1>4, <2>1
    <2> QED
      BY <1>1, <1>9, <2>1, <2>2, LimitOrderBalances
  <1> HIDE DEF filled, last
  <1>11. Agreed(o.position_id)
    BY <1>1, <1>3, FilledOrderAgrees, RequestsAssumption DEF LimitOrder
  <1> SUFFICES ASSUME NEW p \in PositionIds, NEW x \in Assets, ~ Agreed(p),
                      NEW before, before = position_get_asset_balance(positions_dict[p], x),
                      NEW after, after = position_get_asset_balance(positions_dict'[p], x),
                      before # after
               PROVE  Shrinks(before, after)
    BY DEF SeizesLittleOfAll, SeizesLittle
  <1>12. p # o.position_id
    BY <1>11
  <1>13. before \in Int /\ before = position_get_asset_balance(settled[p], x)
    BY <1>1, <1>6, DictBalances DEF BalancesStay
  <1>14. position_get_asset_balance(dict[p], x)
           = before + (IF p = id /\ x = asset THEN (IF buying THEN -s ELSE s) ELSE 0)
    BY <1>9, <1>13 DEF BalanceMoves
  <1>15. after = position_get_asset_balance(dict[p], x) + 0
    BY <1>4, <1>10, <1>12 DEF BalanceMoves
  <1> HIDE DEF asset, buying
  <1>16. p = id /\ x = asset /\ after = before + (IF buying THEN -s ELSE s)
    BY <1>1, <1>13, <1>14, <1>15
  <1>17. before = position_get_asset_balance(funded, asset)
    BY <1>8, <1>13, <1>16
  <1> QED
    BY <1>1, <1>3, <1>13, <1>16, <1>17, CoveredSizeShrinks

\* The position that is deleveraged: what it was worth, and what it comes to.
LEMMA DeleveragedShrinks ==
  ASSUME NEW pos, NEW m, NEW table, MarketInv(m, table), PositionInv(pos, m, table),
         NEW req \in Request, NEW result, result = update_position(pos, req, m), Succeeds(result),
         HasStatus(result.funded_position, m.prices),
         HasStatus(result.updated_position, m.prices),
         TotalValue(result.funded_position, m.prices) < 0,
         DeleverageRatioIsTight(result.funded_position, result.updated_position, m.prices),
         NEW x \in Assets,
         NEW before, before = position_get_asset_balance(result.funded_position, x),
         NEW after, after = position_get_asset_balance(result.updated_position, x),
         before # after
  PROVE  \/ Shrinks(before, after)
         \/ /\ TotalValue(position_apply_funding(pos, m), m.prices) < 0
            /\ WellLeveraged(result.updated_position, m.prices)
            /\ TotalValue(result.updated_position, m.prices) < FXP_32_ONE
PROOF
  <1> DEFINE old == result.funded_position
             new == result.updated_position
  <1>1. ~ Aborts(result)
    BY DEF Succeeds, Aborts
  <1>2. /\ PositionInv(old, m, table) /\ PositionInv(new, m, table)
        /\ old = position_apply_funding(pos, m)
        /\ check_valid_transition(new, old, m.prices)
    BY <1>1, UpdateOutcome
  <1>3. CASE check_smaller_in_synthetic_holdings(new, old)
    <2> HIDE DEF old, new
    <2>1. before = position_get_asset_balance(old, x) /\ after = position_get_asset_balance(new, x)
      BY DEF old, new
    <2> QED
      BY <1>2, <1>3, <2>1, SmallerShrinks
  <1>4. CASE WellLeveraged(new, m.prices)
    <2> DEFINE v == TotalValue(old, m.prices)
               r == TotalRisk(old, m.prices)
               w == TotalValue(new, m.prices)
               q == TotalRisk(new, m.prices)
    <2>1. v \in Int /\ r \in Nat /\ w \in Int /\ q \in Nat
      BY <1>2, PositionIsPriced, ValueType, RiskType
    <2>2. v < 0 /\ v * q > (w - FXP_32_ONE) * r
      BY DEF DeleverageRatioIsTight
    <2> HIDE DEF v, r, w, q
    <2>3. w < FXP_32_ONE
      BY <2>1, <2>2, TightArithmetic, BoundsAssumption
    <2> QED
      BY <1>2, <1>4, <2>2, <2>3 DEF v, w
  <1> QED
    BY <1>2, <1>3, <1>4 DEF check_valid_transition

\* A deleveraging takes the deleverager's balance towards 0.
LEMMA DeleverageSeizesLittle ==
  ASSUME IndInv, NEW id \in PositionIds, NEW other \in PositionIds, NEW a \in Assets,
         NEW buying \in BOOLEAN, NEW c \in Int, NEW s \in Int,
         Deleverage(id, other, a, buying, c, s)
  PROVE  SeizesLittleOfAll
PROOF
  <1> DEFINE pos == positions_dict[id]
             req == KeylessRequest(a, ~ buying, c, s)
             other_req == KeylessRequest(a, buying, c, s)
             deleveragable == update_position(pos, req, market)
             dict == [positions_dict EXCEPT ![id] = deleveragable.updated_position]
             deleverager == update_position(dict[other], other_req, market)
             last == [dict EXCEPT ![other] = deleverager.updated_position]
             prices == market.prices
  <1>1. /\ MarginState(positions_dict)
        /\ MarketInv(market, funding_indices_table)
        /\ PositionInv(pos, market, funding_indices_table)
    BY StartsFromInv DEF MarginState, DictInv
  <1>2. req \in Request /\ other_req \in Request
    BY DEF KeylessRequest, Request
  <1>3. /\ other_req.synthetic_asset_id = a
        /\ other_req.synthetic_delta = (IF buying THEN s ELSE -s)
    BY DEF KeylessRequest
  <1>4. /\ positions_dict' = last /\ id # other /\ Succeeds(deleveragable) /\ Succeeds(deleverager)
        /\ Covers(deleverager.funded_position, a, ~ buying, s)
        /\ HasStatus(deleveragable.funded_position, prices)
        /\ HasStatus(deleveragable.updated_position, prices)
        /\ TotalValue(deleveragable.funded_position, prices) < 0
        /\ DeleverageRatioIsTight(deleveragable.funded_position,
                                  deleveragable.updated_position, prices)
    BY DEF Deleverage, market
  <1>5. ~ Aborts(deleveragable) /\ ~ Aborts(deleverager)
    BY <1>4 DEF Succeeds, Aborts
  <1>6. /\ dict[id] = deleveragable.updated_position
        /\ \A p \in PositionIds \ {id} : dict[p] = positions_dict[p]
        /\ last[id] = dict[id]
        /\ \A p \in PositionIds \ {id, other} : last[p] = positions_dict[p]
    BY <1>1, <1>4 DEF MarginState, DictInv
  <1> HIDE DEF req, other_req
  <1>7. KeepsMargins(positions_dict, dict)
    BY <1>1, <1>2, UpdateKeepsMargins
  <1>8. MarginState(dict)
    BY <1>1, <1>7 DEF KeepsMargins, MarginState
  <1>9. ASSUME NEW x \in Assets PROVE SeizesLittle(id, x)
    <2> DEFINE before == position_get_asset_balance(positions_dict[id], x)
               after == position_get_asset_balance(positions_dict'[id], x)
    <2>1. PICK p, m, result : p = pos /\ m = market /\ result = deleveragable
      OBVIOUS
    <2>2. before = position_get_asset_balance(result.funded_position, x)
      <3>1. result.funded_position = position_apply_funding(p, m)
        BY <1>1, <1>2, <1>5, <2>1, UpdateOutcome
      <3> QED
        BY <2>1, <3>1 DEF position_apply_funding, position_get_asset_balance, Held
    <2>3. positions_dict'[id] = result.updated_position
      BY <1>4, <1>6, <2>1
    <2>4. /\ MarketInv(m, funding_indices_table) /\ PositionInv(p, m, funding_indices_table)
          /\ result = update_position(p, req, m) /\ Succeeds(result)
          /\ HasStatus(result.funded_position, m.prices)
          /\ HasStatus(result.updated_position, m.prices)
          /\ TotalValue(result.funded_position, m.prices) < 0
          /\ DeleverageRatioIsTight(result.funded_position, result.updated_position, m.prices)
      BY <1>1, <1>4, <2>1
    <2>5. after = position_get_asset_balance(result.updated_position, x)
      BY <2>3
    <2>6. Settled(id) = position_apply_funding(p, m) /\ oracle_prices = m.prices
      BY <2>1 DEF Settled, market
    <2> HIDE DEF before, after, pos, deleveragable
    <2>7. before # after =>
            \/ Shrinks(before, after)
            \/ /\ TotalValue(position_apply_funding(p, m), m.prices) < 0
               /\ WellLeveraged(result.updated_position, m.prices)
               /\ TotalValue(result.updated_position, m.prices) < FXP_32_ONE
      BY <1>2, <2>2, <2>4, <2>5, DeleveragedShrinks
    <2> QED
      BY <2>3, <2>6, <2>7 DEF SeizesLittle, before, after
  <1>10. ASSUME NEW x \in Assets PROVE SeizesLittle(other, x)
    <2> DEFINE before == position_get_asset_balance(positions_dict[other], x)
               after == position_get_asset_balance(positions_dict'[other], x)
               delta == IF buying THEN s ELSE -s
    <2>1. PICK result : result = deleverager
      OBVIOUS
    <2>2. /\ BalancesStay(dict, [dict EXCEPT ![other] = result.funded_position])
          /\ BalanceMoves(dict, [dict EXCEPT ![other] = result.updated_position], other, a, delta)
      <3> HIDE DEF dict, deleverager
      <3>1. result = update_position(dict[other], other_req, market)
        BY <2>1 DEF deleverager
      <3> QED
        BY <1>2, <1>3, <1>4, <1>5, <1>8, <2>1, <3>1, UpdateBalances
    <2>3. before \in Int /\ before = position_get_asset_balance(dict[other], x)
      BY <1>1, <1>4, <1>6, DictBalances
    <2>4. /\ positions_dict' = [dict EXCEPT ![other] = result.updated_position]
          /\ [dict EXCEPT ![other] = result.funded_position][other] = result.funded_position
      <3>1. dict = [p \in PositionIds |-> dict[p]]
        BY <1>8 DEF MarginState, DictInv
      <3> HIDE DEF dict
      <3> QED
        BY <1>4, <2>1, <3>1
    <2> HIDE DEF dict, deleverager, delta
    <2>5. after = before + (IF x = a THEN delta ELSE 0)
      BY <2>2, <2>3, <2>4 DEF BalanceMoves
    <2>6. position_get_asset_balance(result.funded_position, x) = before
      BY <2>2, <2>3, <2>4 DEF BalancesStay
    <2> HIDE DEF before, after
    <2>7. ASSUME before # after PROVE Shrinks(before, after)
      <3>1. x = a
        BY <2>3, <2>5, <2>7
      <3>2. /\ Covers(result.funded_position, a, ~ buying, s)
            /\ after = before + (IF ~ buying THEN -s ELSE s)
        BY <1>4, <2>1, <2>5, <3>1 DEF delta
      <3> QED
        BY <2>3, <2>6, <2>7, <3>1, <3>2, CoveredSizeShrinks
    <2> QED
      BY <2>7 DEF SeizesLittle, before, after
  <1>11. ASSUME NEW p \in PositionIds \ {id, other}, NEW x \in Assets PROVE SeizesLittle(p, x)
    BY <1>4, <1>6 DEF SeizesLittle
  <1> QED
    BY <1>9, <1>10, <1>11 DEF SeizesLittleOfAll

\* What every user transaction seizes.
LEMMA UserTransactionSeizesLittle ==
  ASSUME IndInv, UserTransaction
  PROVE  SeizesLittleOfAll
PROOF
  <1> USE RequestsAssumption
  <1>1. ASSUME NEW id \in PositionIds, NEW key \in PublicKeys \cup {NoKey}, NEW delta \in Int,
               ChangeCollateral(id, key, delta)
        PROVE  SeizesLittleOfAll
    <2> DEFINE update == update_position(positions_dict[id], CollateralRequest(key, delta), market)
    <2>1. PICK result : result = update
      OBVIOUS
    <2>2. ~ Aborts(result) /\ positions_dict' = [positions_dict EXCEPT ![id] = result.updated_position]
      BY <1>1, <2>1 DEF ChangeCollateral, Succeeds, Aborts
    <2> QED
      BY <2>1, <2>2, CollateralSeizesNothing
  <1>2. ASSUME NEW tx \in Deposits, Deposit(tx) PROVE SeizesLittleOfAll
    BY <1>1, <1>2 DEF Deposit, Collateral
  <1>3. ASSUME NEW tx \in Withdrawals, Withdrawal(tx) PROVE SeizesLittleOfAll
    <2>1. /\ tx.position_id \in PositionIds /\ tx.public_key \in PublicKeys \cup {NoKey}
          /\ -tx.amount \in Int
      BY DEF SignedWithdrawal
    <2> QED
      BY <1>1, <1>3, <2>1 DEF Withdrawal
  <1>4. ASSUME NEW tx \in SignedTransfer, MoveCollateral(tx) PROVE SeizesLittleOfAll
    BY <1>4, MoveCollateralSeizesNothing
  <1>5. ASSUME NEW tx \in ForcedWithdrawals, NEW is_valid \in BOOLEAN,
               ForcedWithdrawal(tx, is_valid)
        PROVE  SeizesLittleOfAll
    <2> DEFINE id == tx.position_id
               update == update_position(positions_dict[id],
                                         CollateralRequest(tx.public_key, -tx.amount), market)
    <2>1. id \in PositionIds /\ tx.public_key \in PublicKeys \cup {NoKey} /\ -tx.amount \in Int
      BY DEF Collateral
    <2>2. PICK result : result = update
      OBVIOUS
    <2>3. ~ Aborts(result) /\ positions_dict' = [positions_dict EXCEPT ![id] = result.updated_position]
      BY <1>5, <2>2 DEF ForcedWithdrawal
    <2> HIDE DEF id
    <2>4. result = update_position(positions_dict[id],
                                   CollateralRequest(tx.public_key, -tx.amount), market)
      BY <2>2
    <2> QED
      BY <2>1, <2>3, <2>4, CollateralSeizesNothing
  <1>6. ASSUME AnyTrade PROVE SeizesLittleOfAll
    <2>1. PICK a \in LimitOrders, b \in LimitOrders, c \in CollateralAmounts,
               s \in SyntheticAmounts, f \in Fees, g \in Fees : Trade(a, b, c, s, f, g)
      BY <1>6 DEF AnyTrade
    <2> QED
      BY <2>1, TradeSeizesNothing
  <1>7. ASSUME AnyForcedTrade PROVE SeizesLittleOfAll
    <2>1. PICK tx \in ForcedTrades, is_valid \in BOOLEAN : ExecuteForcedTrade(tx, is_valid)
      BY <1>7 DEF AnyForcedTrade
    <2> QED
      BY <2>1, ForcedTradeSeizesNothing
  <1>8. ASSUME AnyLiquidate PROVE SeizesLittleOfAll
    <2>1. PICK o \in LimitOrders, id \in PositionIds, c \in CollateralAmounts,
               s \in SyntheticAmounts, f \in Fees : Liquidate(o, id, c, s, f)
      BY <1>8 DEF AnyLiquidate
    <2> QED
      BY <2>1, LiquidateSeizesLittle
  <1>9. ASSUME AnyDeleverage PROVE SeizesLittleOfAll
    <2>1. PICK id \in PositionIds, other \in PositionIds, a \in Assets, buying \in BOOLEAN,
               c \in CollateralAmounts, s \in SyntheticAmounts :
                 Deleverage(id, other, a, buying, c, s)
      BY <1>9 DEF AnyDeleverage
    <2> QED
      BY <2>1, DeleverageSeizesLittle
  <1> QED
    BY <1>2, <1>3, <1>4, <1>5, <1>6, <1>7, <1>8, <1>9
    DEF UserTransaction, Transfer, ConditionalTransfer

\* liquidate.cairo:102-124, deleverage.cairo:107-126: without its owner's
\* agreement a synthetic balance only shrinks, or the position was worth less
\* than nothing and comes out worth less than a unit of collateral.
THEOREM SeizuresOnlyShrink == Spec => SeizureOnlyShrinks
PROOF
  <1>1. ASSUME IndInv, Next PROVE SeizesLittleOfAll
    <2>1. CASE UserTransaction
      BY <1>1, <2>1, UserTransactionSeizesLittle
    <2>2. CASE Tick
      <3>1. positions_dict' = positions_dict
        BY <2>2 DEF Tick, FundingTick, OraclePricesTick
      <3> QED
        BY <3>1 DEF SeizesLittleOfAll, SeizesLittle
    <2> QED
      BY <1>1, <2>1, <2>2 DEF Next
  <1>2. IndInv /\ [Next]_vars => [SeizesLittleOfAll]_vars
    BY <1>1
  <1>3. SeizureOnlyShrinks <=> [][SeizesLittleOfAll]_vars
    BY DEF SeizureOnlyShrinks, SeizesLittleOfAll, SeizesLittle
  <1> QED
    BY <1>2, <1>3, InductiveInvariant, PTL DEF Spec
=============================================================================
