------------------------- MODULE PerpetualMessages -------------------------
(***************************************************************************)
(* The messages that clients and oracles sign, perpetual_messages.py, and  *)
(* those that the Cairo program computes from the transactions it is       *)
(* given and verifies the signatures of.                                   *)
(*                                                                         *)
(* A client asks for something: the message of the request is signed.  The *)
(* program later executes any transaction whose own message is a signed    *)
(* one.  The Pedersen hash is the pair of its arguments; packing, which is *)
(* where two messages could meet, is the arithmetic of the code.           *)
(***************************************************************************)
EXTENDS Integers, FiniteSets

CONSTANTS
  AMOUNT_UPPER_BOUND,        \* 2**64; also of fees
  POSITION_ID_UPPER_BOUND,   \* 2**64
  NONCE_UPPER_BOUND,         \* 2**32
  EXPIRATION_TIMESTAMP_UPPER_BOUND,   \* 2**32
  LIMIT_ORDER_PADDING,       \* 2**17
  TRANSFER_PADDING,          \* 2**81
  WITHDRAWAL_PADDING,        \* 2**49
  ORACLE_UPPER_BOUND,        \* 2**40, of the name of an oracle
  TIMESTAMP_BOUND,           \* 2**32, of a price
  EXTERNAL_PRICE_UPPER_BOUND \* 2**120

CONSTANTS                    \* the values in play
  Amounts, Positions, Nonces, Expirations,
  SyntheticIds, CollateralIds, collateral_id,   \* collateral_id: of the configuration
  PublicKeys, signer_key,    \* signer_key: of the client
  EthAddresses, Conditions,
  OracleNames, PriceTimes, Prices,
  MaxRequests                \* bound

Positive == Nat \ {0}

ASSUME BoundsAssumption ==
  /\ AMOUNT_UPPER_BOUND \in Positive /\ POSITION_ID_UPPER_BOUND \in Positive
  /\ NONCE_UPPER_BOUND \in Positive /\ EXPIRATION_TIMESTAMP_UPPER_BOUND \in Positive
  /\ LIMIT_ORDER_PADDING \in Positive /\ TRANSFER_PADDING \in Positive
  /\ WITHDRAWAL_PADDING \in Positive
  /\ ORACLE_UPPER_BOUND \in Positive /\ TIMESTAMP_BOUND \in Positive
  /\ EXTERNAL_PRICE_UPPER_BOUND \in Positive

\* What may be asked for lies within the bounds that perpetual_messages.py asserts.
ASSUME ValuesAssumption ==
  /\ Amounts \subseteq 0 .. AMOUNT_UPPER_BOUND - 1
  /\ Positions \subseteq 0 .. POSITION_ID_UPPER_BOUND - 1
  /\ Nonces \subseteq 0 .. NONCE_UPPER_BOUND - 1
  /\ Expirations \subseteq 0 .. EXPIRATION_TIMESTAMP_UPPER_BOUND - 1
  /\ SyntheticIds \subseteq Nat /\ CollateralIds \subseteq Nat /\ collateral_id \in CollateralIds
  /\ PublicKeys \subseteq Nat /\ EthAddresses \subseteq Nat /\ Conditions \subseteq Nat
  /\ OracleNames \subseteq 0 .. ORACLE_UPPER_BOUND - 1
  /\ PriceTimes \subseteq 0 .. TIMESTAMP_BOUND - 1
  /\ Prices \subseteq 0 .. EXTERNAL_PRICE_UPPER_BOUND - 1

\* Below the type of a message, every second packed field has as many values:
\* the PADDING asserted in signature_message_hashes.cairo.  Prices take fewer:
\* 2**152 of 2**241.
BODY == AMOUNT_UPPER_BOUND * AMOUNT_UPPER_BOUND * EXPIRATION_TIMESTAMP_UPPER_BOUND * TRANSFER_PADDING

ASSUME PaddingAssumption ==
  /\ POSITION_ID_UPPER_BOUND * POSITION_ID_UPPER_BOUND * POSITION_ID_UPPER_BOUND
       * EXPIRATION_TIMESTAMP_UPPER_BOUND * LIMIT_ORDER_PADDING = BODY
  /\ POSITION_ID_UPPER_BOUND * NONCE_UPPER_BOUND * AMOUNT_UPPER_BOUND
       * EXPIRATION_TIMESTAMP_UPPER_BOUND * WITHDRAWAL_PADDING = BODY
  /\ EXTERNAL_PRICE_UPPER_BOUND * TIMESTAMP_BOUND < BODY

LIMIT_ORDER_WITH_FEES == 3
TRANSFER == 4
CONDITIONAL_TRANSFER == 5
WITHDRAWAL == 6
WITHDRAWAL_TO_ADDRESS == 7

VARIABLES
  requested,   \* what the client and the oracle asked for
  signed,      \* the messages they signed
  executed     \* the transactions that the program executed

vars == <<requested, signed, executed>>

felt(n) == <<n>>
hash_function(x, y) == <<x, y>>

----------------------------------------------------------------------------
(* perpetual_messages.py.  A request is a record of the arguments of one    *)
(* of the functions.                                                        *)

LimitOrders ==
  [kind : {"limit_order"}, asset_id_synthetic : SyntheticIds, asset_id_collateral : CollateralIds,
   is_buying_synthetic : BOOLEAN, asset_id_fee : CollateralIds, amount_synthetic : Amounts,
   amount_collateral : Amounts, max_amount_fee : Amounts, nonce : Nonces,
   position_id : Positions, expiration_timestamp : Expirations]

Transfers ==
  [kind : {"transfer"}, asset_id : CollateralIds, asset_id_fee : CollateralIds \union {0},
   receiver_public_key : PublicKeys, sender_position_id : Positions,
   receiver_position_id : Positions, src_fee_position_id : Positions, nonce : Nonces,
   amount : Amounts, max_amount_fee : Amounts, expiration_timestamp : Expirations]

ConditionalTransfers ==
  [kind : {"conditional_transfer"}, asset_id : CollateralIds,
   asset_id_fee : CollateralIds \union {0}, receiver_public_key : PublicKeys,
   condition : Conditions, sender_position_id : Positions,
   receiver_position_id : Positions, src_fee_position_id : Positions, nonce : Nonces,
   amount : Amounts, max_amount_fee : Amounts, expiration_timestamp : Expirations]

Withdrawals ==
  [kind : {"withdrawal_to_address"}, asset_id_collateral : CollateralIds,
   position_id : Positions, eth_address : EthAddresses, nonce : Nonces,
   expiration_timestamp : Expirations, amount : Amounts]

SignedPrices ==
  [kind : {"price"}, oracle_name : OracleNames, asset_pair : SyntheticIds,
   timestamp : PriceTimes, price : Prices]

Requests == LimitOrders \union Transfers \union ConditionalTransfers \union Withdrawals
              \union SignedPrices

\* One more field at the low end of a packed message.
Append(packed, bound, value) == packed * bound + value

\* mutant: the nonce is not packed
pack_positions_only(sender, receiver, src_fee, nonce) ==
  Append(Append(sender, POSITION_ID_UPPER_BOUND, receiver), POSITION_ID_UPPER_BOUND, src_fee)

pack_positions(sender, receiver, src_fee, nonce) ==
  Append(Append(Append(sender, POSITION_ID_UPPER_BOUND, receiver),
                POSITION_ID_UPPER_BOUND, src_fee), NONCE_UPPER_BOUND, nonce)

pack_transfer(type, amount, max_amount_fee, expiration_timestamp) ==
  Append(Append(Append(type, AMOUNT_UPPER_BOUND, amount), AMOUNT_UPPER_BOUND, max_amount_fee),
         EXPIRATION_TIMESTAMP_UPPER_BOUND, expiration_timestamp) * TRANSFER_PADDING

get_conditional_transfer_msg_without_bounds(r) ==
  LET msg == hash_function(hash_function(felt(r.asset_id), felt(r.asset_id_fee)),
                           felt(r.receiver_public_key))
      msg0 == hash_function(hash_function(msg, felt(r.condition)),
                felt(pack_positions(r.sender_position_id, r.receiver_position_id,
                                    r.src_fee_position_id, r.nonce)))
  IN  hash_function(msg0, felt(pack_transfer(CONDITIONAL_TRANSFER, r.amount, r.max_amount_fee,
                                             r.expiration_timestamp)))

get_transfer_msg_without_bounds(r) ==
  LET msg == hash_function(hash_function(felt(r.asset_id), felt(r.asset_id_fee)),
                           felt(r.receiver_public_key))
      msg0 == hash_function(msg, felt(pack_positions(r.sender_position_id, r.receiver_position_id,
                                                     r.src_fee_position_id, r.nonce)))
  IN  hash_function(msg0, felt(pack_transfer(TRANSFER, r.amount, r.max_amount_fee,
                                             r.expiration_timestamp)))

pack_withdrawal(type, position_id, nonce, amount, expiration_timestamp) ==
  Append(Append(Append(Append(type, POSITION_ID_UPPER_BOUND, position_id),
                       NONCE_UPPER_BOUND, nonce), AMOUNT_UPPER_BOUND, amount),
         EXPIRATION_TIMESTAMP_UPPER_BOUND, expiration_timestamp) * WITHDRAWAL_PADDING

get_withdrawal_to_address_msg_without_bounds(r) ==
  hash_function(hash_function(felt(r.asset_id_collateral), felt(r.eth_address)),
                felt(pack_withdrawal(WITHDRAWAL_TO_ADDRESS, r.position_id, r.nonce, r.amount,
                                     r.expiration_timestamp)))

pack_amounts(amount_sell, amount_buy, max_amount_fee, nonce) ==
  Append(Append(Append(amount_sell, AMOUNT_UPPER_BOUND, amount_buy),
                AMOUNT_UPPER_BOUND, max_amount_fee), NONCE_UPPER_BOUND, nonce)

pack_limit_order(vault_fee, vault_sell, vault_buy, expiration_timestamp) ==
  Append(Append(Append(Append(LIMIT_ORDER_WITH_FEES, POSITION_ID_UPPER_BOUND, vault_fee),
                       POSITION_ID_UPPER_BOUND, vault_sell), POSITION_ID_UPPER_BOUND, vault_buy),
         EXPIRATION_TIMESTAMP_UPPER_BOUND, expiration_timestamp) * LIMIT_ORDER_PADDING

limit_order_msg(sell, buy, fee, amounts, body) ==
  hash_function(hash_function(hash_function(hash_function(felt(sell), felt(buy)), felt(fee)),
                              felt(amounts)), felt(body))

\* mutant: only the assets are exchanged, not the amounts, for an order that sells
AmountsNotExchanged(r) ==
  LET assets == IF r.is_buying_synthetic THEN <<r.asset_id_collateral, r.asset_id_synthetic>>
                ELSE <<r.asset_id_synthetic, r.asset_id_collateral>>
  IN  limit_order_msg(assets[1], assets[2], r.asset_id_fee,
        pack_amounts(r.amount_collateral, r.amount_synthetic, r.max_amount_fee, r.nonce),
        pack_limit_order(r.position_id, r.position_id, r.position_id, r.expiration_timestamp))

get_limit_order_msg_without_bounds(r) ==
  LET body == pack_limit_order(r.position_id, r.position_id, r.position_id, r.expiration_timestamp)
  IN  IF r.is_buying_synthetic
      THEN limit_order_msg(r.asset_id_collateral, r.asset_id_synthetic, r.asset_id_fee,
             pack_amounts(r.amount_collateral, r.amount_synthetic, r.max_amount_fee, r.nonce), body)
      ELSE limit_order_msg(r.asset_id_synthetic, r.asset_id_collateral, r.asset_id_fee,
             pack_amounts(r.amount_synthetic, r.amount_collateral, r.max_amount_fee, r.nonce), body)

get_price_msg(r) ==
  hash_function(felt(Append(r.asset_pair, ORACLE_UPPER_BOUND, r.oracle_name)),
                felt(Append(r.price, TIMESTAMP_BOUND, r.timestamp)))

message(r) ==
  CASE r.kind = "limit_order" -> get_limit_order_msg_without_bounds(r)
    [] r.kind = "transfer" -> get_transfer_msg_without_bounds(r)
    [] r.kind = "conditional_transfer" -> get_conditional_transfer_msg_without_bounds(r)
    [] r.kind = "withdrawal_to_address" -> get_withdrawal_to_address_msg_without_bounds(r)
    [] r.kind = "price" -> get_price_msg(r)

----------------------------------------------------------------------------
(* The Cairo program: its transactions, and the messages it computes.       *)

LimitOrderTxs ==
  [kind : {"limit_order"}, asset_id_synthetic : SyntheticIds, is_buying_synthetic : BOOLEAN,
   amount_synthetic : Amounts, amount_collateral : Amounts, amount_fee : Amounts,
   nonce : Nonces, position_id : Positions, expiration_timestamp : Expirations]

\* condition is 0 in a transfer; a conditional transfer has any, 0 as well.
TransferTxs ==
  [kind : {"transfer"}, receiver_public_key : PublicKeys, condition : Conditions \union {0},
   sender_position_id : Positions, receiver_position_id : Positions, nonce : Nonces,
   amount : Amounts, expiration_timestamp : Expirations]

WithdrawalTxs ==
  [kind : {"withdrawal"}, position_id : Positions, owner_key : EthAddresses \union {signer_key},
   nonce : Nonces, expiration_timestamp : Expirations, amount : Amounts]

\* signed_asset_id, of the configuration, packs the asset and the oracle.  The
\* comparison with TIMESTAMP_BOUND, oracle_price.cairo:93, lets it pass itself.
PriceTxs ==
  [kind : {"price"},
   signed_asset_id : {a * ORACLE_UPPER_BOUND + o : a \in SyntheticIds, o \in OracleNames},
   timestamp : PriceTimes \union {TIMESTAMP_BOUND}, external_price : Prices]

Transactions == LimitOrderTxs \union TransferTxs \union WithdrawalTxs \union PriceTxs

\* signature_message_hashes.cairo packs for vaults of the exchange, of which a
\* position is all three.
exchange_limit_order_hash(o) ==
  LET packed_message0 ==
        ((o.amount_sell * AMOUNT_UPPER_BOUND + o.amount_buy) * AMOUNT_UPPER_BOUND + o.amount_fee)
          * NONCE_UPPER_BOUND + o.nonce
      packed_message1 ==
        ((((LIMIT_ORDER_WITH_FEES * POSITION_ID_UPPER_BOUND + o.vault_fee)
             * POSITION_ID_UPPER_BOUND + o.vault_sell) * POSITION_ID_UPPER_BOUND + o.vault_buy)
          * EXPIRATION_TIMESTAMP_UPPER_BOUND + o.expiration_timestamp) * LIMIT_ORDER_PADDING
      msg == hash_function(hash_function(felt(o.asset_id_sell), felt(o.asset_id_buy)),
                           felt(o.asset_id_fee))
  IN  hash_function(hash_function(msg, felt(packed_message0)), felt(packed_message1))

limit_order_hash(tx) ==
  LET buying == tx.is_buying_synthetic
      Choose(collateral, synthetic) == IF buying THEN collateral ELSE synthetic
  IN  exchange_limit_order_hash(
        [asset_id_sell |-> Choose(collateral_id, tx.asset_id_synthetic),
         asset_id_buy |-> Choose(tx.asset_id_synthetic, collateral_id),
         asset_id_fee |-> collateral_id,
         amount_sell |-> Choose(tx.amount_collateral, tx.amount_synthetic),
         amount_buy |-> Choose(tx.amount_synthetic, tx.amount_collateral),
         amount_fee |-> tx.amount_fee, nonce |-> tx.nonce, vault_fee |-> tx.position_id,
         vault_sell |-> tx.position_id, vault_buy |-> tx.position_id,
         expiration_timestamp |-> tx.expiration_timestamp])

\* Transfers pay no fee: its asset and its bound are 0, its payer the sender.
transfer_hash(tx) ==
  LET msg == hash_function(hash_function(felt(collateral_id), felt(0)),
                           felt(tx.receiver_public_key))
      type == IF tx.condition = 0 THEN TRANSFER ELSE CONDITIONAL_TRANSFER
      packed_message0 ==
        ((tx.sender_position_id * POSITION_ID_UPPER_BOUND + tx.receiver_position_id)
           * POSITION_ID_UPPER_BOUND + tx.sender_position_id) * NONCE_UPPER_BOUND + tx.nonce
      packed_message1 ==
        (((type * AMOUNT_UPPER_BOUND + tx.amount) * AMOUNT_UPPER_BOUND + 0)
           * EXPIRATION_TIMESTAMP_UPPER_BOUND + tx.expiration_timestamp) * TRANSFER_PADDING
  IN  hash_function(
        hash_function(IF tx.condition = 0 THEN msg ELSE hash_function(msg, felt(tx.condition)),
                      felt(packed_message0)),
        felt(packed_message1))

\* Of a withdrawal to the signer itself, the older message without an owner.
withdrawal_hash(tx) ==
  LET type == IF tx.owner_key = signer_key THEN WITHDRAWAL ELSE WITHDRAWAL_TO_ADDRESS
      packed_message1 ==
        ((((type * POSITION_ID_UPPER_BOUND + tx.position_id) * NONCE_UPPER_BOUND + tx.nonce)
            * AMOUNT_UPPER_BOUND + tx.amount) * EXPIRATION_TIMESTAMP_UPPER_BOUND
          + tx.expiration_timestamp) * WITHDRAWAL_PADDING
  IN  hash_function(IF tx.owner_key = signer_key THEN felt(collateral_id)
                    ELSE hash_function(felt(collateral_id), felt(tx.owner_key)),
                    felt(packed_message1))

price_hash(tx) ==
  hash_function(felt(tx.signed_asset_id), felt(tx.external_price * TIMESTAMP_BOUND + tx.timestamp))

message_hash(tx) ==
  CASE tx.kind = "limit_order" -> limit_order_hash(tx)
    [] tx.kind = "transfer" -> transfer_hash(tx)
    [] tx.kind = "withdrawal" -> withdrawal_hash(tx)
    [] tx.kind = "price" -> price_hash(tx)

----------------------------------------------------------------------------

Init == requested = {} /\ signed = {} /\ executed = {}

\* Requests are within the asserted bounds, ValuesAssumption: no assertion fails.
Sign(r) ==
  /\ Cardinality(requested) < MaxRequests
  /\ requested' = requested \union {r}
  /\ signed' = signed \union {message(r)}
  /\ UNCHANGED executed

Execute(tx) ==
  /\ tx.kind = "transfer" => tx.sender_position_id # tx.receiver_position_id
  /\ message_hash(tx) \in signed
  /\ executed' = executed \union {tx}
  /\ UNCHANGED <<requested, signed>>

Next == (\E r \in Requests : Sign(r)) \/ (\E tx \in Transactions : Execute(tx))

Spec == Init /\ [][Next]_vars

----------------------------------------------------------------------------

\* The asset and the oracle that a signed asset id packs.
IsSignedAsset(id, signed_asset_id) == signed_asset_id = id[1] * ORACLE_UPPER_BOUND + id[2]
SignedAsset(signed_asset_id) ==
  CHOOSE id \in SyntheticIds \X OracleNames : IsSignedAsset(id, signed_asset_id)

\* The request that a transaction carries out: what the program does not read
\* from the transaction, it takes from the configuration or as 0.  A conditional
\* transfer of condition 0 is a transfer.
RequestOf(tx) ==
  CASE tx.kind = "limit_order" ->
         [kind |-> "limit_order", asset_id_synthetic |-> tx.asset_id_synthetic,
          asset_id_collateral |-> collateral_id, is_buying_synthetic |-> tx.is_buying_synthetic,
          asset_id_fee |-> collateral_id, amount_synthetic |-> tx.amount_synthetic,
          amount_collateral |-> tx.amount_collateral, max_amount_fee |-> tx.amount_fee,
          nonce |-> tx.nonce, position_id |-> tx.position_id,
          expiration_timestamp |-> tx.expiration_timestamp]
    [] tx.kind = "transfer" /\ tx.condition = 0 ->
         [kind |-> "transfer", asset_id |-> collateral_id, asset_id_fee |-> 0,
          receiver_public_key |-> tx.receiver_public_key,
          sender_position_id |-> tx.sender_position_id,
          receiver_position_id |-> tx.receiver_position_id,
          src_fee_position_id |-> tx.sender_position_id, nonce |-> tx.nonce,
          amount |-> tx.amount, max_amount_fee |-> 0,
          expiration_timestamp |-> tx.expiration_timestamp]
    [] tx.kind = "transfer" /\ tx.condition # 0 ->
         [kind |-> "conditional_transfer", asset_id |-> collateral_id, asset_id_fee |-> 0,
          receiver_public_key |-> tx.receiver_public_key, condition |-> tx.condition,
          sender_position_id |-> tx.sender_position_id,
          receiver_position_id |-> tx.receiver_position_id,
          src_fee_position_id |-> tx.sender_position_id, nonce |-> tx.nonce,
          amount |-> tx.amount, max_amount_fee |-> 0,
          expiration_timestamp |-> tx.expiration_timestamp]
    [] tx.kind = "withdrawal" ->
         [kind |-> "withdrawal_to_address", asset_id_collateral |-> collateral_id,
          position_id |-> tx.position_id, eth_address |-> tx.owner_key, nonce |-> tx.nonce,
          expiration_timestamp |-> tx.expiration_timestamp, amount |-> tx.amount]
    [] tx.kind = "price" ->
         [kind |-> "price", oracle_name |-> SignedAsset(tx.signed_asset_id)[2],
          asset_pair |-> SignedAsset(tx.signed_asset_id)[1],
          timestamp |-> tx.timestamp, price |-> tx.external_price]

\* The one overlap of packed fields: no price can be signed for the time
\* TIMESTAMP_BOUND, and its message is that of the next price at time 0.
IsPastTheLastTime(tx) == tx.kind = "price" /\ tx.timestamp = TIMESTAMP_BOUND

SignedFor(tx) ==
  IF IsPastTheLastTime(tx)
  THEN [RequestOf(tx) EXCEPT !.price = tx.external_price + 1, !.timestamp = 0]
  ELSE RequestOf(tx)

\* An order is to sell up to an amount of one asset for an amount of another,
\* whichever of the two is the synthetic one.
OrderTerms(r) ==
  [sold |-> IF r.is_buying_synthetic THEN <<r.asset_id_collateral, r.amount_collateral>>
            ELSE <<r.asset_id_synthetic, r.amount_synthetic>>,
   bought |-> IF r.is_buying_synthetic THEN <<r.asset_id_synthetic, r.amount_synthetic>>
              ELSE <<r.asset_id_collateral, r.amount_collateral>>,
   fee |-> <<r.asset_id_fee, r.max_amount_fee>>,
   when |-> <<r.nonce, r.position_id, r.expiration_timestamp>>]

SameTerms(r1, r2) ==
  \/ r1 = r2
  \/ r1.kind = "limit_order" /\ r2.kind = "limit_order" /\ OrderTerms(r1) = OrderTerms(r2)

\* signature_message_hashes.cairo: packing and types keep messages apart.  A
\* signed message lets the program do what was asked for in those very terms
\* and nothing else: no other amount, nonce, position or kind of transaction.
\* With one exception, a price at TIMESTAMP_BOUND, for which the next price was
\* signed, of the same asset and oracle, at time 0.
ExecutedTermsWereRequested ==
  \A tx \in executed : \E r \in requested : SameTerms(r, SignedFor(tx))

\* A request that the program has a transaction for: fees as it takes them, of
\* a condition other than 0 and to an address other than the signer's key.
Executable(r) ==
  CASE r.kind = "limit_order" -> r.asset_id_collateral = collateral_id /\ r.asset_id_fee = collateral_id
    [] r.kind \in {"transfer", "conditional_transfer"} ->
         /\ r.asset_id = collateral_id /\ r.asset_id_fee = 0 /\ r.max_amount_fee = 0
         /\ r.src_fee_position_id = r.sender_position_id
         /\ r.sender_position_id # r.receiver_position_id
         /\ r.kind = "conditional_transfer" => r.condition # 0
    [] r.kind = "withdrawal_to_address" ->
         r.asset_id_collateral = collateral_id /\ r.eth_address # signer_key
    [] r.kind = "price" -> TRUE

\* perpetual_messages.py and the Cairo program make the same message of the
\* same request: what the client signs, the program can execute.
RequestsCanBeExecuted ==
  \A r \in requested : Executable(r) =>
    \E tx \in Transactions : SameTerms(r, RequestOf(tx)) /\ message_hash(tx) \in signed
=============================================================================
