-------------------------- MODULE ConfiguredPrices --------------------------
(***************************************************************************)
(* From a price that an oracle signs to the price that a batch uses.  The  *)
(* governor hashes a configuration with generate_perpetual_config_hash.py  *)
(* and registers the hashes on chain; oracles sign prices with             *)
(* stark_cli.py; the operator gives the Cairo program a configuration and  *)
(* signed prices; the contract accepts the output of the program when the  *)
(* hashes in it are the registered ones.                                   *)
(*                                                                         *)
(* The Pedersen hash is the pair of its arguments and a signature holds    *)
(* for what was signed: PerpetualMessages tells price messages apart, and  *)
(* Signature is about signing.                                             *)
(***************************************************************************)
EXTENDS Integers, FiniteSets, SequencesExt

CONSTANTS
  Configs,                 \* configurations, as the governor writes them
  RISK_UPPER_BOUND,        \* 2**32
  RISK_FACTOR_SEGMENT_UPPER_BOUND,   \* 2**128
  ORACLE_PRICE_QUORUM_UPPER_BOUND,   \* 2**32
  ASSET_RESOLUTION_UPPER_BOUND,      \* 2**64
  COLLATERAL_ASSET_ID_UPPER_BOUND,   \* 2**250
  N_ASSETS_UPPER_BOUND,    \* 2**16
  ASSET_ID_BYTES,          \* 15
  EXTERNAL_PRICE_FIXED_POINT_UNIT,   \* 10**18
  FXP_32_ONE,              \* 2**32
  PRICE_UPPER_BOUND,       \* 2**64
  EXTERNAL_PRICE_UPPER_BOUND,        \* 2**120
  TIMESTAMP_BOUND,         \* 2**32
  GENERAL_CONFIG_HASH_VERSION,
  SignablePrices,          \* what oracles ask the command line to sign
  MaxTime, MaxSignatures   \* bounds

ASSUME FixedPointAssumption ==
  /\ EXTERNAL_PRICE_FIXED_POINT_UNIT \in Nat \ {0} /\ EXTERNAL_PRICE_FIXED_POINT_UNIT % 2 = 0
  /\ FXP_32_ONE \in Nat \ {0} /\ RISK_UPPER_BOUND \in Nat \ {0}
  /\ MaxTime < TIMESTAMP_BOUND

VARIABLES
  approved,      \* what the governor had registered: the general fields, and each asset
  registry,      \* of the contract: the general hash, and of each asset id the last hash
  signed,        \* prices that oracles signed
  system_time,   \* of the state after the last accepted batch
  batch          \* the last accepted batch: its configuration, times and prices

vars == <<approved, registry, signed, system_time, batch>>

felt(n) == <<n>>
hash2(x, y) == <<x, y>>

----------------------------------------------------------------------------
(* generate_perpetual_config_hash.py.  A YAML value is an integer, a        *)
(* boolean, or a string of digits, hexadecimal after 0x.                    *)

IntValue(n) == [type |-> "int", val |-> n]
BoolValue(b) == [type |-> "bool", val |-> b]
StrValue(base, digits) == [type |-> "str", base |-> base, digits |-> digits]

Value(base, digits) == FoldLeft(LAMBDA n, d : n * base + d, 0, digits)

decimal[n \in Nat] == IF n < 10 THEN <<n>> ELSE Append(decimal[n \div 10], n % 10)

convert2int(val) ==
  CASE val.type = "int" -> val.val
    [] val.type = "bool" -> IF val.val THEN 1 ELSE 0
    [] val.type = "str" -> Value(val.base, val.digits)

\* Fails, here with an empty sequence, on an id that is not hexadecimal or too long.
pad_hex_string(val, bytes_len) ==
  IF val.base # 16 \/ Len(val.digits) > 2 * bytes_len THEN <<>>
  ELSE [i \in 1 .. 2 * bytes_len - Len(val.digits) |-> 0] \o val.digits

\* The values one after the other, then how many they were.
hash_fields(field_values) ==
  FoldLeft(LAMBDA result, value : hash2(result, felt(convert2int(value))), felt(0),
           Append(field_values, StrValue(10, decimal[Len(field_values)])))

calculate_general_config_hash(config) ==
  hash_fields(<<IntValue(GENERAL_CONFIG_HASH_VERSION), IntValue(config.max_funding_rate),
    config.collateral_asset_id, IntValue(config.collateral_resolution),
    IntValue(config.fee_position_id), config.fee_public_key,
    IntValue(config.positions_tree_height), IntValue(config.orders_tree_height),
    IntValue(config.price_validity_period), IntValue(config.funding_validity_period),
    IntValue(config.data_availability_mode), BoolValue(config.is_risk_by_balance_only)>>)

combined_segment(segment) == segment.upper_bound * RISK_UPPER_BOUND + segment.risk

\* mutant: the lists follow each other without their lengths
asset_hash_without_lengths(info) ==
  hash_fields(<<info.asset_id, IntValue(info.resolution)>>
    \o [i \in DOMAIN info.segments |-> IntValue(combined_segment(info.segments[i]))]
    \o info.oracle_price_signed_asset_ids
    \o <<IntValue(info.oracle_price_quorum)>> \o info.oracle_price_signers)

calculate_asset_hash(info) ==
  hash_fields(<<info.asset_id, IntValue(info.resolution), IntValue(Len(info.segments))>>
    \o [i \in DOMAIN info.segments |-> IntValue(combined_segment(info.segments[i]))]
    \o <<IntValue(Len(info.oracle_price_signed_asset_ids))>> \o info.oracle_price_signed_asset_ids
    \o <<IntValue(info.oracle_price_quorum)>>
    \o <<IntValue(Len(info.oracle_price_signers))>> \o info.oracle_price_signers)

\* Nothing is printed when the id of an asset cannot be padded.
generate_config_hashes(config) ==
  LET infos == ToSet(config.synthetic_assets_info)
      padded(info) == pad_hex_string(info.asset_id, ASSET_ID_BYTES)
  IN  IF \E info \in infos : padded(info) = <<>> THEN {}
      ELSE {[general |-> calculate_general_config_hash(config),
             assets |-> {[asset_id |-> padded(info), config_hash |-> calculate_asset_hash(info)] :
                           info \in infos}]}

----------------------------------------------------------------------------
(* The Cairo program.  It is given the numbers that the YAML values stand   *)
(* for, by the loader of the operator.                                      *)

Numbers(values) == [i \in DOMAIN values |-> convert2int(values[i])]

LoadGeneral(config) ==
  [max_funding_rate |-> config.max_funding_rate,
   collateral_asset_id |-> convert2int(config.collateral_asset_id),
   collateral_resolution |-> config.collateral_resolution,
   fee_position_id |-> config.fee_position_id,
   fee_public_key |-> convert2int(config.fee_public_key),
   positions_tree_height |-> config.positions_tree_height,
   orders_tree_height |-> config.orders_tree_height,
   price_validity_period |-> config.price_validity_period,
   funding_validity_period |-> config.funding_validity_period,
   data_availability_mode |-> config.data_availability_mode,
   is_risk_by_balance_only |-> config.is_risk_by_balance_only]

LoadAsset(info) ==
  [asset_id |-> convert2int(info.asset_id), resolution |-> info.resolution,
   risk_factor_segments |-> info.segments,
   oracle_price_signed_asset_ids |-> Numbers(info.oracle_price_signed_asset_ids),
   oracle_price_quorum |-> info.oracle_price_quorum,
   oracle_price_signers |-> Numbers(info.oracle_price_signers)]

hash_init == [current_hash |-> felt(0), n_words |-> 0]
hash_update_single(state, item) ==
  [current_hash |-> hash2(state.current_hash, felt(item)), n_words |-> state.n_words + 1]
hash_update(state, data) == FoldLeft(hash_update_single, state, data)
hash_finalize(state) == hash2(state.current_hash, felt(state.n_words))

general_config_hash(config) ==
  hash_finalize(hash_update(hash_init,
    <<GENERAL_CONFIG_HASH_VERSION, config.max_funding_rate, config.collateral_asset_id,
      config.collateral_resolution, config.fee_position_id, config.fee_public_key,
      config.positions_tree_height, config.orders_tree_height,
      config.price_validity_period, config.funding_validity_period,
      config.data_availability_mode, IF config.is_risk_by_balance_only THEN 1 ELSE 0>>))

synthetic_asset_info_hash(info) ==
  LET segments == info.risk_factor_segments
      ids == info.oracle_price_signed_asset_ids
      signers == info.oracle_price_signers
      s1 == hash_update(hash_init, <<info.asset_id, info.resolution, Len(segments)>>)
      s2 == hash_update(s1, [i \in DOMAIN segments |-> combined_segment(segments[i])])
      s3 == hash_update(hash_update_single(s2, Len(ids)), ids)
      s4 == hash_update_single(hash_update_single(s3, info.oracle_price_quorum), Len(signers))
  IN  hash_finalize(hash_update(s4, signers))

validate_risk_factor_function(segments) ==
  /\ \A i \in DOMAIN segments : segments[i].risk \in 1 .. RISK_UPPER_BOUND - 1
  /\ \A i \in 1 .. Len(segments) - 1 : segments[i].upper_bound < segments[i + 1].upper_bound
  /\ segments[Len(segments)].upper_bound = RISK_FACTOR_SEGMENT_UPPER_BOUND - 1

validate_assets_config(infos) ==
  /\ \A i \in 1 .. Len(infos) - 1 : infos[i].asset_id < infos[i + 1].asset_id
  /\ \A i \in DOMAIN infos :
       /\ infos[i].asset_id < 16 ^ (2 * ASSET_ID_BYTES)
       /\ infos[i].risk_factor_segments # <<>>
       /\ infos[i].risk_factor_segments[1].upper_bound >= 0
       /\ validate_risk_factor_function(infos[i].risk_factor_segments)
       /\ infos[i].oracle_price_quorum \in 1 .. ORACLE_PRICE_QUORUM_UPPER_BOUND - 1
       /\ infos[i].resolution \in 1 .. ASSET_RESOLUTION_UPPER_BOUND - 1

LoadedAssets(config) ==
  [i \in DOMAIN config.synthetic_assets_info |-> LoadAsset(config.synthetic_assets_info[i])]

\* main.cairo puts these in the output.
ConfigHashes == [config \in Configs |->
  [general |-> general_config_hash(LoadGeneral(config)),
   assets |-> {[asset_id |-> info.asset_id, config_hash |-> synthetic_asset_info_hash(info)] :
                 info \in ToSet(LoadedAssets(config))}]]

\* To the nearest price in the units of the system.
internal_price(info, collateral_resolution, external_price) ==
  LET numerator == external_price * collateral_resolution * FXP_32_ONE
      denominator == info.resolution * EXTERNAL_PRICE_FIXED_POINT_UNIT
  IN  (numerator + denominator \div 2) \div denominator

price_message(sig) ==
  <<sig.signed_asset_id, sig.external_price * TIMESTAMP_BOUND + sig.timestamp>>

\* What passes verify_ecdsa_signature: every way to read the messages that were
\* signed.  A time of TIMESTAMP_BOUND is let in.
VerifiableSignatures ==
  UNION {{sig \in [signer_key : {s.signer_key}, signed_asset_id : {s.signed_asset_id},
                   external_price : 0 .. EXTERNAL_PRICE_UPPER_BOUND - 1,
                   timestamp : 0 .. TIMESTAMP_BOUND] :
            price_message(sig) = price_message(s)} : s \in signed}

check_price_signature(bounds, info, sig) ==
  /\ sig.signer_key \in ToSet(info.oracle_price_signers)
  /\ sig.signed_asset_id \in ToSet(info.oracle_price_signed_asset_ids)
  /\ sig.timestamp \in bounds.min_time .. bounds.max_time

\* mutant: signers may repeat
SignersInAnyOrder(sigs) == \A i \in DOMAIN sigs : sigs[i].signer_key > 0

SignersIncrease(sigs) ==
  /\ \A i \in DOMAIN sigs : sigs[i].signer_key > 0
  /\ \A i \in 1 .. Len(sigs) - 1 : sigs[i].signer_key < sigs[i + 1].signer_key

\* mutant: more than half of the signatures on either side
IsStrictMedian(price, prices) ==
  /\ Len(prices) < 2 * Cardinality({i \in DOMAIN prices : price <= prices[i]})
  /\ Len(prices) < 2 * Cardinality({i \in DOMAIN prices : price >= prices[i]})

\* At least half of the signatures on either side.
IsMedian(price, prices) ==
  /\ Len(prices) <= 2 * Cardinality({i \in DOMAIN prices : price <= prices[i]})
  /\ Len(prices) <= 2 * Cardinality({i \in DOMAIN prices : price >= prices[i]})

\* A quorum, each signer once: the keys increase.
check_oracle_price_inner(bounds, info, sigs) ==
  /\ info.oracle_price_quorum <= Len(sigs)
  /\ SignersIncrease(sigs)
  /\ \A i \in DOMAIN sigs : check_price_signature(bounds, info, sigs[i])

\* The prices that pass check_oracle_price with some list of signatures.
ProvablePrices(bounds, info, collateral_resolution) ==
  LET accepted == {sig \in VerifiableSignatures : check_price_signature(bounds, info, sig)}
      lists == {sigs \in BoundedSeq(accepted, MaxSignatures) :
                  check_oracle_price_inner(bounds, info, sigs)}
      Internal(sigs) == [i \in DOMAIN sigs |->
        internal_price(info, collateral_resolution, sigs[i].external_price)]
  IN  {price \in 1 .. PRICE_UPPER_BOUND - 1 : \E sigs \in lists : IsMedian(price, Internal(sigs))}

----------------------------------------------------------------------------
(* What configurations and prices look like.                                *)

YamlStrings == [type : {"str"}, base : {10, 16}, digits : Seq(0 .. 15)]
YamlNumbers == [type : {"int"}, val : Nat] \union YamlStrings

AssetFields ==
  [asset_id : YamlStrings, resolution : Nat \ {0},
   segments : Seq([upper_bound : Int, risk : 0 .. RISK_UPPER_BOUND - 1]),
   oracle_price_signed_asset_ids : Seq(YamlNumbers),
   oracle_price_quorum : Nat \ {0}, oracle_price_signers : Seq(YamlNumbers)]

ConfigFields ==
  [max_funding_rate : Nat, collateral_asset_id : YamlNumbers,
   collateral_resolution : Nat \ {0}, fee_position_id : Nat, fee_public_key : YamlNumbers,
   positions_tree_height : Nat, orders_tree_height : Nat, price_validity_period : Nat,
   funding_validity_period : Nat, data_availability_mode : Nat,
   is_risk_by_balance_only : BOOLEAN, synthetic_assets_info : Seq(AssetFields)]

\* The governor registers what the program can be run with: validate_assets_config
\* refuses other risks, a quorum of 0, and an asset that is there twice.
ASSUME ConfigsAssumption ==
  /\ GENERAL_CONFIG_HASH_VERSION \in Nat /\ ASSET_ID_BYTES \in Nat
  /\ Configs \subseteq ConfigFields
  /\ \A config \in Configs : \A i, j \in DOMAIN config.synthetic_assets_info :
       convert2int(config.synthetic_assets_info[i].asset_id)
         = convert2int(config.synthetic_assets_info[j].asset_id) => i = j

ASSUME PricesAssumption ==
  /\ SignablePrices \subseteq [signer_key : Nat \ {0}, signed_asset_id : Nat,
                              external_price : Nat, timestamp : Nat]
  /\ TIMESTAMP_BOUND \in Nat \ {0} /\ EXTERNAL_PRICE_UPPER_BOUND \in Nat
  /\ MaxTime \in Nat /\ MaxSignatures \in Nat /\ PRICE_UPPER_BOUND \in Nat

----------------------------------------------------------------------------

NoBatch == [end_system_time |-> -1]

Init ==
  /\ approved = [general |-> {}, assets |-> <<>>]
  /\ registry = [general |-> {}, assets |-> <<>>]
  /\ signed = {}
  /\ system_time = 0
  /\ batch = NoBatch

ByAsset(entries, Id(_), Content(_)) ==
  [a \in {Id(e) : e \in entries} |-> Content(CHOOSE e \in entries : Id(e) = a)]

Updated(old, new) ==
  [a \in DOMAIN old \union DOMAIN new |-> IF a \in DOMAIN new THEN new[a] ELSE old[a]]

\* The governor registers what the script prints, in the place of older hashes.
Register(config) ==
  /\ \E hashes \in generate_config_hashes(config) :
       registry' = [general |-> {hashes.general},
                    assets |-> Updated(registry.assets,
                      ByAsset(hashes.assets, LAMBDA e : Value(16, e.asset_id),
                              LAMBDA e : e.config_hash))]
  /\ approved' = [general |-> {LoadGeneral(config)},
                  assets |-> Updated(approved.assets,
                    ByAsset(ToSet(config.synthetic_assets_info),
                            LAMBDA info : convert2int(info.asset_id), LoadAsset))]
  /\ UNCHANGED <<signed, system_time, batch>>

\* The hash and sign methods of stark_cli.py, which refuse numbers that are too large.
SignPrice(price) ==
  /\ price.external_price < EXTERNAL_PRICE_UPPER_BOUND /\ price.timestamp < TIMESTAMP_BOUND
  /\ Cardinality(signed) < MaxSignatures
  /\ signed' = signed \union {price}
  /\ UNCHANGED <<approved, registry, system_time, batch>>

ContractAccepts(config) ==
  LET hashes == ConfigHashes[config]
  IN  /\ hashes.general \in registry.general
      /\ \A e \in hashes.assets :
           e.asset_id \in DOMAIN registry.assets /\ registry.assets[e.asset_id] = e.config_hash

validate_general_config(config) ==
  /\ validate_assets_config(LoadedAssets(config))
  /\ convert2int(config.collateral_asset_id) < COLLATERAL_ASSET_ID_UPPER_BOUND
  /\ config.collateral_resolution \in 1 .. ASSET_RESOLUTION_UPPER_BOUND - 1
  /\ Len(config.synthetic_assets_info) < N_ASSETS_UPPER_BOUND

BatchTimes(config, end_system_time) ==
  [min_time |-> system_time - config.price_validity_period, max_time |-> end_system_time]

CanExecute(config, end_system_time) ==
  /\ system_time <= end_system_time
  /\ validate_general_config(config)
  /\ ContractAccepts(config)

ExecuteBatchWithoutPrices(config, end_system_time) ==
  /\ CanExecute(config, end_system_time)
  /\ batch' = NoBatch
  /\ system_time' = end_system_time
  /\ UNCHANGED <<approved, registry, signed>>

\* The prices of a tick lie between a minimal and a maximal signed price.
ExecuteBatch(config, i, end_system_time) ==
  LET info == LoadedAssets(config)[i]
      bounds == BatchTimes(config, end_system_time)
      provable == ProvablePrices(bounds, info, config.collateral_resolution)
  IN  /\ CanExecute(config, end_system_time)
      /\ \E min, max \in provable : \E price \in min .. max :
           batch' = [system_time |-> system_time, end_system_time |-> end_system_time,
                     asset_id |-> info.asset_id, price |-> price]
      /\ system_time' = end_system_time
      /\ UNCHANGED <<approved, registry, signed>>

Next ==
  \/ \E config \in Configs : Register(config)
  \/ \E price \in SignablePrices : SignPrice(price)
  \/ \E config \in Configs, end \in 0 .. MaxTime : ExecuteBatchWithoutPrices(config, end)
  \/ \E config \in Configs, end \in 0 .. MaxTime :
       \E i \in DOMAIN config.synthetic_assets_info : ExecuteBatch(config, i, end)

Spec == Init /\ [][Next]_vars

----------------------------------------------------------------------------

\* What of the configuration the governor approved.
IsApproved(config) ==
  /\ LoadGeneral(config) \in approved.general
  /\ \A info \in ToSet(LoadedAssets(config)) :
       info.asset_id \in DOMAIN approved.assets /\ approved.assets[info.asset_id] = info

\* generate_perpetual_config_hash.py against general_config_hash.cairo: the contract
\* accepts a batch under the configuration that the governor hashed, and under no
\* other that the program can be given, however its lists are cut.
OnlyTheApprovedIsAccepted ==
  \A config \in Configs : ContractAccepts(config) <=> IsApproved(config)

Fresh(sig, info, validity, start, end) ==
  /\ sig.signer_key \in ToSet(info.oracle_price_signers)
  /\ sig.signed_asset_id \in ToSet(info.oracle_price_signed_asset_ids)
  /\ sig.timestamp \in start - validity .. end

Price(sig, info, general) ==
  internal_price(info, general.collateral_resolution, sig.external_price)

Backed(price, start, end, info, general) ==
  LET fresh == {sig \in signed : Fresh(sig, info, general.price_validity_period, start, end)}
      NumberOfSigners(sigs) == Cardinality({sig.signer_key : sig \in sigs})
      IsHalfOfQuorum(sigs) == 2 * NumberOfSigners(sigs) >= info.oracle_price_quorum
  IN  /\ NumberOfSigners(fresh) >= info.oracle_price_quorum
      /\ IsHalfOfQuorum({sig \in fresh : Price(sig, info, general) <= price})
      /\ IsHalfOfQuorum({sig \in fresh : Price(sig, info, general) >= price})

\* check_oracle_price, oracle_prices_tick.cairo: a quorum of approved signers
\* stands behind the price that a batch uses, half of it on either side, each signing
\* within the validity period of the approved configuration: fewer cannot move it.
AcceptedPricesAreBacked ==
  [][batch' # batch /\ batch' # NoBatch =>
       \A general \in approved.general :
         Backed(batch'.price, batch'.system_time, batch'.end_system_time,
                approved.assets[batch'.asset_id], general)]_vars

\* check_oracle_price: a quorum that signed within the period always gives a price,
\* whatever the number of signatures and however they tie.
QuorumGivesPrice ==
  \A general \in approved.general, end \in system_time .. MaxTime :
    \A a \in DOMAIN approved.assets :
      LET info == approved.assets[a]
          fresh == {sig \in signed : Fresh(sig, info, general.price_validity_period,
                                          system_time, end)}
      IN  /\ Cardinality({sig.signer_key : sig \in fresh}) >= info.oracle_price_quorum
          /\ \A sig \in fresh : Price(sig, info, general) \in 1 .. PRICE_UPPER_BOUND - 1
          => ProvablePrices(BatchTimes(general, end), info, general.collateral_resolution) # {}
=============================================================================
