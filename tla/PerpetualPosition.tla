------------------------- MODULE PerpetualPosition -------------------------
(***************************************************************************)
(* A position of the perpetual exchange and the one function through which *)
(* every transaction changes it: services/perpetual/cairo/position.        *)
(*                                                                         *)
(* The module has no variables.  A position is a record, the market is the *)
(* part of the carried state that an update reads (the global funding      *)
(* indices and the oracle prices), and the result of an update is a record *)
(*                                                                         *)
(*   return_code       SUCCESS, FAILURE for an error code, or ABORT when a  *)
(*                     hard assertion fails: then the transaction, and     *)
(*                     with it the batch, cannot be proved;                *)
(*   updated_position  the target position when the update succeeds, the   *)
(*                     funded one when it fails;                           *)
(*   funded_position   the initial position with its funding settled.      *)
(*                                                                         *)
(* Which error code a refused update carries is abstracted away.           *)
(***************************************************************************)
EXTENDS Integers, Sequences, FiniteSets, Functions

CONSTANTS
  Assets,                          \* the synthetic assets of the configuration
  PublicKeys,                      \* the non-zero public keys
  NoKey,                           \* the public key 0 of an empty position
  NoAsset,                         \* NO_SYNTHETIC_DELTA_ASSET_ID
  FXP_32_ONE,                      \* the fixed point unit
  BALANCE_UPPER_BOUND,
  TOTAL_VALUE_UPPER_BOUND,
  TOTAL_RISK_UPPER_BOUND,
  POSITION_MAX_SUPPORTED_N_ASSETS,
  RISK_FACTOR_SEGMENT_UPPER_BOUND, \* 2**128
  IsRiskByBalanceOnly,             \* general_config.is_risk_by_balance_only
  RiskSegments                     \* each asset's risk step function

\* constants.cairo:10-44: the bounds are positive.
ASSUME BoundsAssumption ==
  /\ FXP_32_ONE \in Nat \ {0}
  /\ BALANCE_UPPER_BOUND \in Nat \ {0}
  /\ TOTAL_VALUE_UPPER_BOUND \in Nat \ {0}
  /\ TOTAL_RISK_UPPER_BOUND \in Nat \ {0}
  /\ POSITION_MAX_SUPPORTED_N_ASSETS \in Nat \ {0}

ASSUME NamesAssumption ==
  /\ IsFiniteSet(Assets)
  /\ NoKey \notin PublicKeys
  /\ NoAsset \notin Assets

\* The segments' bounds increase to the greatest there is, and their risks are in
\* [1, FXP_32_ONE).
validate_risk_factor_function(segments) ==
  /\ segments # <<>>
  /\ \A i \in DOMAIN segments :
       /\ segments[i].upper_bound \in Nat
       /\ segments[i].risk \in 1 .. FXP_32_ONE - 1
       /\ i > 1 => segments[i - 1].upper_bound < segments[i].upper_bound
  /\ segments[Len(segments)].upper_bound = RISK_FACTOR_SEGMENT_UPPER_BOUND - 1

\* execute_batch_utils.cairo:98-152: the configuration is validated so.
ASSUME RiskAssumption ==
  /\ IsRiskByBalanceOnly \in BOOLEAN
  /\ \A a \in Assets : validate_risk_factor_function(RiskSegments[a])

-----------------------------------------------------------------------------
(* The records.  The sorted array of a position's assets is a function from *)
(* the assets it holds.                                                     *)

\* A function from some of the assets.
IsPartial(f, Values) == DOMAIN f \subseteq Assets /\ f \in [DOMAIN f -> Values]

PositionAsset == [balance : Int, cached_funding_index : Int]

IsPosition(pos) ==
  /\ pos \in [public_key : PublicKeys \cup {NoKey}, collateral_balance : Int,
              assets : {pos.assets}, funding_timestamp : Int]
  /\ IsPartial(pos.assets, PositionAsset)

NoAssets == [a \in {} |-> [balance |-> 0, cached_funding_index |-> 0]]
EmptyPosition == [public_key |-> NoKey, collateral_balance |-> 0,
                  assets |-> NoAssets, funding_timestamp |-> 0]

\* What update_position reads of the carried state.
IsMarket(m) ==
  /\ m \in [indices : {m.indices}, funding_timestamp : Int, prices : {m.prices}]
  /\ IsPartial(m.indices, Int) /\ IsPartial(m.prices, Nat \ {0})

\* The arguments of one update.
Request == [public_key : PublicKeys \cup {NoKey}, collateral_delta : Int,
            synthetic_asset_id : Assets \cup {NoAsset}, synthetic_delta : Int]

Held(pos) == DOMAIN pos.assets
IsEmpty(pos) == pos.collateral_balance = 0 /\ Held(pos) = {}

position_get_asset_balance(pos, a) == IF a \in Held(pos) THEN pos.assets[a].balance ELSE 0

\* [BALANCE_LOWER_BOUND, BALANCE_UPPER_BOUND).
check_valid_balance(b) == b \in -BALANCE_UPPER_BOUND .. BALANCE_UPPER_BOUND - 1

\* Faulty variant: the owner of an emptied position stays.
OwnerOfEmptyStays(pos) == pos

create_maybe_empty_position(pos) == IF IsEmpty(pos) THEN EmptyPosition ELSE pos

\* Faulty variant: any key may act on the position.
AnyRequestKey(position_key, request_key) == request_key # NoKey

check_request_public_key(position_key, request_key) ==
  request_key # NoKey /\ position_key \in {NoKey, request_key}

-----------------------------------------------------------------------------
(* Funding: a position settles, at its next update, what its assets owe    *)
(* since their cached indices.                                             *)

\* With no assets nothing is computed: apply_funding_inner returns at once.
FundingDue(pos, m) ==
  IF Held(pos) = {} THEN 0 ELSE
  SumFunction([a \in Held(pos) |->
                 (m.indices[a] - pos.assets[a].cached_funding_index) * pos.assets[a].balance])

\* Faulty variant: the settled collateral is rounded towards 0.
TruncatedCollateral(pos, m) ==
  LET fxp == pos.collateral_balance * FXP_32_ONE - FundingDue(pos, m)
  IN  IF fxp < 0 THEN -((-fxp) \div FXP_32_ONE) ELSE fxp \div FXP_32_ONE

\* signed_div_rem rounds down.
FundedCollateral(pos, m) ==
  (pos.collateral_balance * FXP_32_ONE - FundingDue(pos, m)) \div FXP_32_ONE

CanFund(pos, m) ==
  Held(pos) \subseteq DOMAIN m.indices /\ check_valid_balance(FundedCollateral(pos, m))

\* Faulty variant: the timestamp does not follow the indices.
FundingWithOldTimestamp(pos, m) ==
  [public_key |-> pos.public_key,
   collateral_balance |-> FundedCollateral(pos, m),
   assets |-> [a \in Held(pos) |-> [balance |-> pos.assets[a].balance,
                                    cached_funding_index |-> m.indices[a]]],
   funding_timestamp |-> pos.funding_timestamp]

position_apply_funding(pos, m) ==
  [public_key |-> pos.public_key,
   collateral_balance |-> FundedCollateral(pos, m),
   assets |-> [a \in Held(pos) |-> [balance |-> pos.assets[a].balance,
                                    cached_funding_index |-> m.indices[a]]],
   funding_timestamp |-> m.funding_timestamp]

-----------------------------------------------------------------------------
(* The change of one asset of an already funded position.                  *)

\* Faulty variant: an asset new to the position owes funding since its listing.
NewAssetFromZero(pos, a, delta, m) ==
  [balance |-> position_get_asset_balance(pos, a) + delta,
   cached_funding_index |-> IF a \in Held(pos) THEN pos.assets[a].cached_funding_index ELSE 0]

NewAsset(pos, a, delta, m) ==
  [balance |-> position_get_asset_balance(pos, a) + delta,
   cached_funding_index |-> IF a \in Held(pos) THEN pos.assets[a].cached_funding_index
                                               ELSE m.indices[a]]

add_asset_inner(pos, a, delta, m) ==
  IF NewAsset(pos, a, delta, m).balance = 0
  THEN Restrict(pos.assets, Held(pos) \ {a})
  ELSE [x \in Held(pos) \cup {a} |-> IF x = a THEN NewAsset(pos, a, delta, m)
                                              ELSE pos.assets[x]]

AssetsAfter(pos, a, delta, m) ==
  IF delta = 0 THEN pos.assets ELSE add_asset_inner(pos, a, delta, m)

\* Faulty variant: one asset too many is accepted.
CanAddOneMore(pos, a, delta, m) ==
  delta # 0 =>
    /\ a \in Held(pos) \cup DOMAIN m.indices
    /\ check_valid_balance(position_get_asset_balance(pos, a) + delta)
    /\ Cardinality(DOMAIN AssetsAfter(pos, a, delta, m)) # POSITION_MAX_SUPPORTED_N_ASSETS + 2

\* position_add_asset succeeds.  The number of assets is only compared with
\* POSITION_MAX_SUPPORTED_N_ASSETS + 1.
CanAddAsset(pos, a, delta, m) ==
  delta # 0 =>
    /\ a \in Held(pos) \cup DOMAIN m.indices
    /\ check_valid_balance(position_get_asset_balance(pos, a) + delta)
    /\ Cardinality(DOMAIN AssetsAfter(pos, a, delta, m)) # POSITION_MAX_SUPPORTED_N_ASSETS + 1

-----------------------------------------------------------------------------
(* The status of a position: its total value, a (.32) fixed point, and its *)
(* total risk, a (.64) fixed point.                                        *)

abs_value(x) == IF x < 0 THEN -x ELSE x

\* The first segment whose upper bound is not below the amount.
IsRiskSegment(a, i, abs_balance, price) ==
  LET amount == IF IsRiskByBalanceOnly THEN abs_balance ELSE abs_balance * price
  IN  /\ amount <= RiskSegments[a][i].upper_bound
      /\ i > 1 => RiskSegments[a][i - 1].upper_bound < amount

get_risk_factor(a, abs_balance, price) ==
  RiskSegments[a][CHOOSE i \in DOMAIN RiskSegments[a] : IsRiskSegment(a, i, abs_balance, price)].risk

\* get_risk_factor asserts that there is such a segment.
HasRiskFactor(a, abs_balance, price) ==
  \E i \in DOMAIN RiskSegments[a] : IsRiskSegment(a, i, abs_balance, price)

TotalValue(pos, prices) ==
  pos.collateral_balance * FXP_32_ONE
    + SumFunction([a \in Held(pos) |-> prices[a] * pos.assets[a].balance])

TotalRisk(pos, prices) ==
  SumFunction([a \in Held(pos) |->
    prices[a] * abs_value(pos.assets[a].balance)
              * get_risk_factor(a, abs_value(pos.assets[a].balance), prices[a])])

\* Faulty variant: a balance at the lower bound is let through.
HasPrices(pos, prices) ==
  /\ Held(pos) \subseteq DOMAIN prices
  /\ \A a \in Held(pos) : HasRiskFactor(a, abs_value(pos.assets[a].balance), prices[a])

\* position_get_status aborts when an asset of the position has no price, and
\* when get_risk_factor is given a balance at BALANCE_LOWER_BOUND.  An amount is
\* above no last segment as long as a balance times a price, 63 and 64 bits of the
\* code, stays below RISK_FACTOR_SEGMENT_UPPER_BOUND.
HasStatus(pos, prices) ==
  /\ Held(pos) \subseteq DOMAIN prices
  /\ \A a \in Held(pos) : /\ abs_value(pos.assets[a].balance) < BALANCE_UPPER_BOUND
                         /\ HasRiskFactor(a, abs_value(pos.assets[a].balance), prices[a])

\* It returns an error code when the total value or risk is out of range.
StatusInRange(pos, prices) ==
  /\ TotalValue(pos, prices) \in -TOTAL_VALUE_UPPER_BOUND * FXP_32_ONE
                                 .. TOTAL_VALUE_UPPER_BOUND * FXP_32_ONE - 1
  /\ TotalRisk(pos, prices) < TOTAL_RISK_UPPER_BOUND * FXP_32_ONE * FXP_32_ONE

WellLeveraged(pos, prices) == TotalRisk(pos, prices) <= TotalValue(pos, prices) * FXP_32_ONE

-----------------------------------------------------------------------------
(* The legality of an update.                                              *)

check_smaller_in_synthetic_holdings(new, old) ==
  /\ Held(new) \subseteq Held(old)
  /\ \A a \in Held(new) :
       /\ new.assets[a].balance * old.assets[a].balance >= 0
       /\ abs_value(new.assets[a].balance) <= abs_value(old.assets[a].balance)

\* Faulty variant: with no risk at all, any value is kept.
RatioKeptTrivially(new, old, prices) ==
  TotalValue(old, prices) * TotalRisk(new, prices) <= TotalValue(new, prices) * TotalRisk(old, prices)

\* total_value / total_risk does not decrease; with no risk before, the total
\* value does not.
RatioKept(new, old, prices) ==
  LET tv0 == TotalValue(old, prices)
      tr0 == TotalRisk(old, prices)
      tv1 == TotalValue(new, prices)
      tr1 == TotalRisk(new, prices)
  IN  tv0 * tr1 <= tv1 * tr0 /\ (tr0 = 0 => tv0 <= tv1)

\* Faulty variant: smaller holdings are enough, whatever was paid for them.
TransitionWithoutRatio(new, old, prices) ==
  /\ StatusInRange(new, prices)
  /\ \/ WellLeveraged(new, prices)
     \/ /\ StatusInRange(old, prices)
        /\ check_smaller_in_synthetic_holdings(new, old)

check_valid_transition(new, old, prices) ==
  /\ StatusInRange(new, prices)
  /\ \/ WellLeveraged(new, prices)
     \/ /\ StatusInRange(old, prices)
        /\ check_smaller_in_synthetic_holdings(new, old)
        /\ RatioKept(new, old, prices)

-----------------------------------------------------------------------------
(* update_position.                                                        *)

\* An asset can be traded when it has a price and a funding index.
is_asset_id_tradable(a, m) == a = NoAsset \/ a \in DOMAIN m.prices \cap DOMAIN m.indices

\* With the key 0 the position's own key stands in for the request's.
ResultKey(pos, req) == IF req.public_key = NoKey THEN pos.public_key ELSE req.public_key

KeyAccepted(pos, req) ==
  IF req.public_key = NoKey THEN pos.public_key # NoKey
                            ELSE check_request_public_key(pos.public_key, req.public_key)

\* A keyless request that changes nothing in an empty position succeeds.
IsNoChange(pos, req) ==
  /\ req.public_key = NoKey /\ pos.public_key = NoKey
  /\ req.synthetic_delta = 0 /\ req.collateral_delta = 0

\* A funded position with both deltas applied.
Target(funded, req, m) ==
  create_maybe_empty_position(
    [public_key |-> ResultKey(funded, req),
     collateral_balance |-> funded.collateral_balance + req.collateral_delta,
     assets |-> AssetsAfter(funded, req.synthetic_asset_id, req.synthetic_delta, m),
     funding_timestamp |-> funded.funding_timestamp])

\* The checks on the way to the target: owner, collateral, number of assets.
ReachesTarget(funded, req, m) ==
  /\ KeyAccepted(funded, req)
  /\ check_valid_balance(funded.collateral_balance + req.collateral_delta)
  /\ CanAddAsset(funded, req.synthetic_asset_id, req.synthetic_delta, m)

\* check_valid_transition aborts when it needs the status of a position that
\* has none.
TransitionIsDefined(new, old, prices) ==
  /\ HasStatus(new, prices)
  /\ StatusInRange(new, prices) /\ ~ WellLeveraged(new, prices) => HasStatus(old, prices)

\* The update of a position that is funded already.
UpdateFunded(funded, req, m) ==
  LET target == Target(funded, req, m)
      result(code, pos) ==
        [return_code |-> code, updated_position |-> pos, funded_position |-> funded]
  IN  IF ~ is_asset_id_tradable(req.synthetic_asset_id, m) THEN result("FAILURE", funded)
      ELSE IF IsNoChange(funded, req) THEN result("SUCCESS", funded)
      ELSE IF ~ ReachesTarget(funded, req, m) THEN result("FAILURE", funded)
      ELSE IF ~ TransitionIsDefined(target, funded, m.prices) THEN result("ABORT", funded)
      ELSE IF check_valid_transition(target, funded, m.prices) THEN result("SUCCESS", target)
      ELSE result("FAILURE", funded)

\* Funding comes first and cannot fail softly, nor can a synthetic delta that
\* comes without an asset.
update_position(pos, req, m) ==
  IF CanFund(pos, m) /\ (req.synthetic_asset_id = NoAsset => req.synthetic_delta = 0)
  THEN UpdateFunded(position_apply_funding(pos, m), req, m)
  ELSE [return_code |-> "ABORT", updated_position |-> pos, funded_position |-> pos]

Succeeds(result) == result.return_code = "SUCCESS"
Aborts(result) == result.return_code = "ABORT"

\* Requests that change only the collateral.
CollateralRequest(key, delta) ==
  [public_key |-> key, collateral_delta |-> delta,
   synthetic_asset_id |-> NoAsset, synthetic_delta |-> 0]
=============================================================================
