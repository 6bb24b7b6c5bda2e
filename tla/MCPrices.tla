------------------------------- MODULE MCPrices -------------------------------
(* Small configurations whose lists share their numbers, so that they differ  *)
(* only in where a list ends.                                                 *)
EXTENDS ConfiguredPrices

Hex(n) == StrValue(16, <<n>>)

Asset(id, resolution, segments, ids, quorum, signers) ==
  [asset_id |-> id, resolution |-> resolution, segments |-> segments,
   oracle_price_signed_asset_ids |-> ids, oracle_price_quorum |-> quorum,
   oracle_price_signers |-> signers]

OneSegment(risk) == <<[upper_bound |-> 2, risk |-> risk]>>
TwoSegments == <<[upper_bound |-> 0, risk |-> 2], [upper_bound |-> 2, risk |-> 1]>>

\* Every signer on either price; later ones, ones on
\* another id and ones out of bounds, of some.
Signable(signers, prices, time, id) ==
  [signer_key : signers, external_price : prices, timestamp : {time}, signed_asset_id : {id}]

MCSignablePrices ==
  Signable({1, 2, 3}, {1, 3}, 0, 1) \union Signable({1}, {1, 3}, 1, 1)
    \union Signable({2}, {3}, 1, 1) \union Signable({2}, {1}, 0, 2)
    \union Signable({3}, {5}, 0, 1) \union Signable({3}, {3}, 2, 1)

MCAssets ==
  LET First(ids, quorum, signers) == Asset(Hex(5), 1, OneSegment(1), ids, quorum, signers)
  IN  {First(<<Hex(1)>>, 2, <<Hex(1), Hex(2)>>),
       First(<<Hex(1), Hex(2)>>, 2, <<Hex(2)>>),
       First(<<Hex(1), Hex(2)>>, 1, <<Hex(1), Hex(2)>>),
       First(<<Hex(1)>>, 2, <<Hex(1), Hex(2), Hex(3)>>),
       Asset(StrValue(16, <<0, 5>>), 2, OneSegment(2), <<Hex(1)>>, 2, <<Hex(1), StrValue(10, <<3>>)>>)}

Config(assets, price_validity_period) ==
  [max_funding_rate |-> 7, collateral_asset_id |-> Hex(8), collateral_resolution |-> 1,
   fee_position_id |-> 9, fee_public_key |-> Hex(10), positions_tree_height |-> 3,
   orders_tree_height |-> 4, price_validity_period |-> price_validity_period,
   funding_validity_period |-> 1, data_availability_mode |-> 0,
   is_risk_by_balance_only |-> TRUE, synthetic_assets_info |-> assets]

MCConfigs ==
  {Config(<<asset>>, 0) : asset \in MCAssets}
  \union {Config(<<Asset(Hex(5), 1, OneSegment(1), <<Hex(1)>>, 1, <<Hex(1)>>),
                   Asset(Hex(6), 1, TwoSegments, <<Hex(2)>>, 2, <<Hex(1), Hex(2)>>)>>, 1),
          [Config(<<Asset(StrValue(16, <<0, 0, 5>>), 1, OneSegment(1), <<Hex(1)>>, 1, <<Hex(1)>>)>>, 0)
             EXCEPT !.collateral_asset_id = StrValue(10, <<8>>)]}
===============================================================================
