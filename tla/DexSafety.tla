----------------------------- MODULE DexSafety -----------------------------
(***************************************************************************)
(* What the spot exchange must keep true over any sequence of transactions *)
(* and batches.                                                            *)
(***************************************************************************)
EXTENDS Dex

HeldOnL2(t) ==
  SumFunction([v \in VaultIds |-> IF vault_dict[v].token_id = t THEN vault_dict[v].balance ELSE 0])

HeldOnL1(t) ==
  SumFunction([key \in L1Vaults |->
    IF key.token_id # t THEN 0
    ELSE l1_net[key] + GetOr(l1_vault_dict, key, [moved |-> 0]).moved])

Minted(t) == IF t \in MintableTokens THEN order_dict[mint_index(t)] ELSE 0

\* execute_settlement.cairo, execute_transfer.cairo: of every token, what is in
\* the vaults of both layers and outside is what there was, and what was minted
\* once.  Fills, fees and the differences of L1 vaults neither make nor lose any.
TokensConserved ==
  \A t \in TokenIds : HeldOnL2(t) + HeldOnL1(t) + outside[t] = Supply[t] + Minted(t)

\* main_hint_functions.py:98-99: the hint gives every L1 vault of the batch the
\* least initial balance that keeps it from going below 0 on the way, counted
\* in the order in which the program, not the hint, changes the vaults.
L1InitialBalanceIsLeast ==
  /\ DOMAIN l1_vaults_balances = DOMAIN l1_vault_dict
  /\ \A key \in DOMAIN l1_vault_dict :
       l1_vault_dict[key].lowest - l1_vaults_balances[key].min_balance = 0

\* settlement_hint_functions.py:18-29: the hints pick from the witness the
\* balances that the program needs.  A settlement that the batcher executed,
\* with any mix of L1 and L2 orders and of fees, is one the program accepts,
\* unless an L1 vault grows out of range.
EverySettlementIsProvable ==
  \A s \in Settlements :
    /\ Settles(s)
    /\ \A key \in DOMAIN L1DictAfter(s) :
         InRange(L1DictAfter(s)[key].highest - L1DictAfter(s)[key].lowest)
    => /\ L2DictAfter(s) # Rejected
       /\ L1BalancesInRange(L1DictAfter(s), L1HintAfter(s))

\* execute_limit_order.cairo:231, 253-256, fee.cairo:25: over all its fills, an
\* order has not sold more than it offers, has got its price, and has not paid
\* more of a fee than its limit allows for what it bought.
OrderTermsHoldOverFills ==
  \A o \in Orders :
    /\ order_dict[o.order_id] <= o.amount_sell
    /\ o.amount_sell * filled[o.order_id].bought >= order_dict[o.order_id] * o.amount_buy
    /\ IF o.fee_info = NoFee THEN filled[o.order_id].fee = 0
       ELSE filled[o.order_id].fee * o.amount_buy
              <= o.fee_info.fee_limit * filled[o.order_id].bought

\* execute_limit_order.cairo:109-110: the contract verifies the messages of L1
\* orders.  A batch takes nothing from an L1 vault that no message in its
\* output names.
L1VaultsNamedByOrders ==
  \A key \in DOMAIN l1_vault_dict :
    \E o \in l1_order_messages, role \in {"SELL", "BUY", "FEE_SOURCE"} :
      from_order_l1(o, role) = key

\* volition.cairo:178-190: who reads only what the batches published has every
\* vault of the rollup tree, with its key, token and balance.
PublishedDataRestoresRollup ==
  onchain_vaults = [v \in RollupVaults |-> initial_vault_dict[v]]

\* execute_false_full_withdrawal.cairo:7-10: a request is not closed while its
\* key still has something in the vault.
RequestsClosedRight ==
  [][\A r \in requests \ requests' : vault_dict'[r[2]].stark_key # r[1]]_vars

\* execute_modification, execute_false_full_withdrawal: whoever asks for whatever vault,
\* there is an answer of which every assertion holds, so that an operator is never
\* stuck with a request.
RequestsCanBeClosed ==
  \A r \in requests :
    \/ \E token_id \in TokenIds : CanModify(r[2], r[1], token_id, 0, TRUE)
    \/ CanAnswerFalse(r)
=============================================================================
