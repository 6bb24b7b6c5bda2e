-------------------------------- MODULE Dex --------------------------------
(***************************************************************************)
(* The spot exchange (starkware/cairo/dex): settlements, transfers,        *)
(* deposits, withdrawals and mints over a tree of vaults, in batches.      *)
(*                                                                         *)
(* Three parties describe every transaction.  The batcher (external) has   *)
(* executed it and recorded the vault changes as its witness.  The Python  *)
(* hints pick from the witness what the program is to guess.  The program  *)
(* asserts everything, and a batch with a failed assertion is never        *)
(* proved: what it asserts is what an action requires.  The state is that  *)
(* of the batch executed so far; EndBatch is the end of main.cairo.        *)
(***************************************************************************)
EXTENDS Integers, SequencesExt, Functions

CONSTANTS
  VaultIds, RollupVaults,  \* vaults of the two trees; a vault id is a natural number
  StarkKeys, TokenIds,     \* positive numbers: 0 is the key and token of no vault
  MintableTokens,          \* the token ids with the minting bit
  L1Vaults,                \* the L1VaultKeys of the L1 orders
  OrderIds,
  Orders, Transfers,       \* the signed requests
  FeeInfos,                \* the fee objects the exchange may attach
  Amounts,                 \* the amounts the exchange may fill
  Holders,                 \* <<vault id, stark key, token id>>, of deposits and withdrawals
  FullWithdrawalRequests,  \* <<stark key, vault id>>, made on the main contract
  BALANCE_BOUND, L1_VAULT_INDEX_BOUND,
  ONCHAIN_DATA_KEY_INDEX_BOUND, ONCHAIN_DATA_TOKEN_INDEX_BOUND, ONCHAIN_DATA_VAULT_ID_BOUND,
  Supply,                  \* token id -> what users can deposit
  NoFee, Rejected          \* fee_info is None; a failed assertion

ASSUME DexAssumption ==
  /\ RollupVaults \subseteq VaultIds /\ VaultIds \subseteq Nat
  /\ 0 \notin StarkKeys \cup TokenIds /\ StarkKeys \cup TokenIds \subseteq Nat
  /\ BALANCE_BOUND \in Nat \ {0}
  /\ Supply \in [TokenIds -> Nat]

VARIABLES
  vault_dict,           \* vault id -> L2VaultState, now
  initial_vault_dict,   \* and as the batch began
  order_dict,           \* order id -> fulfilled amount; mint index -> minted amount
  l1_vault_dict,        \* of each L1 vault the batch accessed: how far its balance
                        \* moved, and how far at the lowest and at the highest
  l1_vaults_balances,   \* what the hint computed of it: L1VaultBalances
  l1_order_messages,    \* the messages of L1 orders in the output
  outside,              \* main contract: what is not deposited, by token
  l1_net,               \* main contract: what batches changed L1 vaults by
  onchain_vaults,       \* the rollup vaults as the published data tells them
  requests,             \* main contract: the open full withdrawal requests
  filled                \* history: order id -> what all its fills bought and paid as fee

batch == <<l1_vault_dict, l1_vaults_balances, l1_order_messages>>
contract == <<outside, l1_net, onchain_vaults, requests>>
vars == <<vault_dict, initial_vault_dict, order_dict, batch, contract, filled>>

EmptyVault == [stark_key |-> 0, token_id |-> 0, balance |-> 0]

Vault == {EmptyVault} \cup
  [stark_key : StarkKeys, token_id : TokenIds, balance : 1 .. BALANCE_BOUND - 1]

\* A vault whose balance is 0 has no key and no token.
get_vault_state(stark_key, token_id, balance) ==
  IF balance = 0 THEN EmptyVault
  ELSE [stark_key |-> stark_key, token_id |-> token_id, balance |-> balance]

InRange(x) == x \in 0 .. BALANCE_BOUND - 1

-----------------------------------------------------------------------------
(* Accesses to L2 vaults.                                                  *)

l2_vault_update_balances(vault_index, stark_key, token_id, balance_before, balance_after) ==
  [key |-> vault_index,
   prev_value |-> get_vault_state(stark_key, token_id, balance_before),
   new_value |-> get_vault_state(stark_key, token_id, balance_after)]

\* The change a party of a transaction makes to a vault: who, what, by how much.
Change(role, is_l1, stark_key, token_id, vault_index, diff) ==
  [role |-> role, is_l1 |-> is_l1, stark_key |-> stark_key, token_id |-> token_id,
   vault_index |-> vault_index, diff |-> diff]

\* The fee is taken from a vault of the user, on L1 for an L1 order, and goes
\* to an L2 vault of the exchange's choice.
update_fee_vaults(user_public_key, fee_info_user, fee_info_exchange, use_l1_src_vault) ==
  <<Change("FEE_SOURCE", use_l1_src_vault, user_public_key, fee_info_user.token_id,
           fee_info_user.source_vault_id, -fee_info_exchange.fee_taken),
    Change("FEE_DESTINATION", FALSE, fee_info_exchange.destination_stark_key,
           fee_info_user.token_id, fee_info_exchange.destination_vault_id,
           fee_info_exchange.fee_taken)>>

\* The access of a change, for the balance before it that the hint guesses.
l2_vault_update_diff(change, balance_before) ==
  IF InRange(balance_before + change.diff)
  THEN l2_vault_update_balances(change.vault_index, change.stark_key, change.token_id,
                                balance_before, balance_before + change.diff)
  ELSE Rejected

\* Every access has to begin with the value the one before it left.
squash_dict(dict, accesses) ==
  FoldLeft(LAMBDA d, a : IF /\ d # Rejected /\ a # Rejected
                            /\ a.prev_value = d[a.key]
                         THEN [d EXCEPT ![a.key] = a.new_value]
                         ELSE Rejected,
           dict, accesses)

\* The batcher: it executes the changes to L2 vaults in their order, and its
\* witness holds the state of each vault before its change.
BatcherStep(run, change) ==
  IF run = Rejected \/ change.is_l1 THEN run
  ELSE LET prev == run.vaults[change.vault_index]
           new == prev.balance + change.diff
       IN  IF /\ prev \in {EmptyVault, get_vault_state(change.stark_key, change.token_id, prev.balance)}
              /\ InRange(new)
           THEN [vaults |-> [run.vaults EXCEPT ![change.vault_index] =
                               get_vault_state(change.stark_key, change.token_id, new)],
                 vault_diffs |-> Append(run.vault_diffs, prev)]
           ELSE Rejected

Batcher(changes) ==
  FoldLeft(BatcherStep, [vaults |-> vault_dict, vault_diffs |-> <<>>], changes)

-----------------------------------------------------------------------------
(* L1 vaults: the hint and the program.                                    *)

from_order_l1(order, vault_role) ==
  CASE vault_role = "SELL" ->
         [eth_key |-> order.public_key, token_id |-> order.asset_id_sell,
          vault_index |-> order.vault_sell]
    [] vault_role = "BUY" ->
         [eth_key |-> order.public_key, token_id |-> order.asset_id_buy,
          vault_index |-> order.vault_buy]
    [] vault_role = "FEE_SOURCE" ->
         [eth_key |-> order.public_key, token_id |-> order.fee_info.token_id,
          vault_index |-> order.fee_info.source_vault_id]

\* The entry of an L1 vault, or what it is for a vault not yet seen.
GetOr(dict, key, default) == IF key \in DOMAIN dict THEN dict[key] ELSE default
Put(dict, key, value) == [k \in DOMAIN dict \cup {key} |-> IF k = key THEN value ELSE dict[k]]

\* Mutant: the fee before what it may be paid of.
FeeBeforeBuy(amount_sold, amount_bought, fee_taken) ==
  <<[vault_role |-> "SELL", diff |-> -amount_sold],
    [vault_role |-> "FEE_SOURCE", diff |-> -fee_taken],
    [vault_role |-> "BUY", diff |-> amount_bought]>>

\* The differences of an L1 order by vault role, in the hint's order.
RoleDiffs(amount_sold, amount_bought, fee_taken) ==
  <<[vault_role |-> "SELL", diff |-> -amount_sold],
    [vault_role |-> "BUY", diff |-> amount_bought],
    [vault_role |-> "FEE_SOURCE", diff |-> -fee_taken]>>

update_order_vaults(balance_updates, order, amount_sold, amount_bought, fee_taken) ==
  FoldLeft(LAMBDA updates, u :
             LET key == from_order_l1(order, u.vault_role)
                 balances == GetOr(updates, key, [min_balance |-> 0, current_balance |-> 0])
                 new_balance == balances.current_balance + u.diff
             IN  Put(updates, key,
                     [min_balance |-> Min({new_balance, balances.min_balance}),
                      current_balance |-> new_balance]),
           balance_updates,
           RoleDiffs(amount_sold, amount_bought, fee_taken))

Party == <<"A", "B">>
other_party(party) == IF party = "A" THEN "B" ELSE "A"

\* Settlement by settlement, party A before party B.
update_l1_vault_balances(balance_updates, settlement) ==
  FoldLeft(LAMBDA updates, party :
             IF settlement.order[party].is_l1
             THEN update_order_vaults(updates, settlement.order[party], settlement.sold[party],
                                      settlement.sold[other_party(party)],
                                      settlement.fee_info[party].fee_taken)
             ELSE updates,
           balance_updates, Party)

L1Key(change) == [eth_key |-> change.stark_key, token_id |-> change.token_id,
                  vault_index |-> change.vault_index]

l1_vault_update_diff(dict, change) ==
  LET key == L1Key(change)
      vault == GetOr(dict, key, [moved |-> 0, lowest |-> 0, highest |-> 0])
      moved == vault.moved + change.diff
  IN  Put(dict, key, [moved |-> moved, lowest |-> Min({moved, vault.lowest}),
                      highest |-> Max({moved, vault.highest})])

\* The balances of a batch that starts its L1 vaults with what the hint says
\* stay in range: every assertion of l1_vault_update_diff.
L1BalancesInRange(dict, hinted) ==
  \A key \in DOMAIN dict :
    LET initial == -hinted[key].min_balance
    IN  /\ InRange(initial)
        /\ InRange(initial + dict[key].lowest)
        /\ InRange(initial + dict[key].highest)

-----------------------------------------------------------------------------
(* Settlements: two orders that meet.                                      *)

\* The vaults an order changes, in the order of execute_limit_order.
OrderChanges(order, sold, bought, fee_info) ==
  <<Change("SELL", order.is_l1, order.public_key, order.asset_id_sell, order.vault_sell, -sold),
    Change("BUY", order.is_l1, order.public_key, order.asset_id_buy, order.vault_buy, bought)>>
  \o (IF fee_info = NoFee THEN <<>>
      ELSE update_fee_vaults(order.public_key, order.fee_info, fee_info, order.is_l1))

\* Mutant: the limit of the order for each of its fills.
FeeLimitPerFill(fee_taken, fee_limit, amount_bought, order_buy) ==
  fee_taken \in 0 .. fee_limit /\ fee_limit <= BALANCE_BOUND - 1

order_validate_fee(fee_taken, fee_limit, amount_bought, order_buy) ==
  /\ fee_taken <= BALANCE_BOUND - 1 /\ fee_limit <= BALANCE_BOUND - 1
  /\ fee_taken * order_buy \in 0 .. fee_limit * amount_bought

\* The assertions about the order alone.  The fee that is charged is the one
\* of the signed message, which has fee fields or has not.
OrderAllows(order, sold, bought, fee_info) ==
  /\ InRange(order.amount_sell) /\ InRange(order.amount_buy)
  /\ order_dict[order.order_id] + sold <= order.amount_sell
  /\ order.amount_sell * bought >= sold * order.amount_buy
  /\ fee_info = NoFee <=> order.fee_info = NoFee
  /\ fee_info # NoFee => order_validate_fee(fee_info.fee_taken, order.fee_info.fee_limit,
                                            bought, order.amount_buy)

PartyChanges(s, party) ==
  OrderChanges(s.order[party], s.sold[party], s.sold[other_party(party)], s.fee_info[party])
SettlementChanges(s) == PartyChanges(s, "A") \o PartyChanges(s, "B")

\* The balances the hint takes from the witness for an order, by vault role,
\* and where the next ones are.
get_order_witness(order, vault_diffs, vault_diff_idx) ==
  IF order.is_l1 THEN [balance |-> <<>>, next |-> vault_diff_idx]
  ELSE [balance |-> [SELL |-> vault_diffs[vault_diff_idx].balance,
                     BUY |-> vault_diffs[vault_diff_idx + 1].balance],
        next |-> vault_diff_idx + 2]

\* The balances of two witnesses, by vault role.
Together(balances, others) ==
  [role \in DOMAIN balances \cup DOMAIN others |->
     IF role \in DOMAIN balances THEN balances[role] ELSE others[role]]

\* Mutant: the index stays on the fee destination.
FeeWitnessNotCounted(order, vault_diffs, fee_info, vault_diff_idx) ==
  LET destination == IF order.is_l1 THEN vault_diff_idx ELSE vault_diff_idx + 1
      source == IF order.is_l1 THEN <<>>
                ELSE [FEE_SOURCE |-> vault_diffs[vault_diff_idx].balance]
  IN  IF fee_info = NoFee THEN [balance |-> <<>>, next |-> vault_diff_idx]
      ELSE [balance |-> Together([FEE_DESTINATION |-> vault_diffs[destination].balance], source),
            next |-> destination]

get_fee_witness(order, vault_diffs, fee_info, vault_diff_idx) ==
  LET destination == IF order.is_l1 THEN vault_diff_idx ELSE vault_diff_idx + 1
      source == IF order.is_l1 THEN <<>>
                ELSE [FEE_SOURCE |-> vault_diffs[vault_diff_idx].balance]
  IN  IF fee_info = NoFee THEN [balance |-> <<>>, next |-> vault_diff_idx]
      ELSE [balance |-> Together([FEE_DESTINATION |-> vault_diffs[destination].balance], source),
            next |-> destination + 1]

\* The L2 accesses of a list of changes, for the guessed balances.
Accesses(changes, balance) ==
  FoldLeft(LAMBDA accesses, c :
             IF c.is_l1 THEN accesses
             ELSE Append(accesses, l2_vault_update_diff(c, balance[c.role])),
           <<>>, changes)

SettlementAccesses(s, vault_diffs) ==
  LET order_a == get_order_witness(s.order["A"], vault_diffs, 1)
      fee_a == get_fee_witness(s.order["A"], vault_diffs, s.fee_info["A"], order_a.next)
      order_b == get_order_witness(s.order["B"], vault_diffs, fee_a.next)
      fee_b == get_fee_witness(s.order["B"], vault_diffs, s.fee_info["B"], order_b.next)
  IN  Accesses(PartyChanges(s, "A"), Together(fee_a.balance, order_a.balance))
      \o Accesses(PartyChanges(s, "B"), Together(fee_b.balance, order_b.balance))

\* What the batcher may put in a batch: the orders meet and allow the fill,
\* and the L2 vaults can be changed.
Settles(s) ==
  /\ \A p \in {"A", "B"} :
       /\ InRange(s.sold[p])
       /\ s.order[p].asset_id_buy = s.order[other_party(p)].asset_id_sell
       /\ OrderAllows(s.order[p], s.sold[p], s.sold[other_party(p)], s.fee_info[p])
  /\ Batcher(SettlementChanges(s)) # Rejected

L1DictAfter(s) ==
  FoldLeft(LAMBDA dict, c : IF c.is_l1 THEN l1_vault_update_diff(dict, c) ELSE dict,
           l1_vault_dict, SettlementChanges(s))
L1HintAfter(s) == update_l1_vault_balances(l1_vaults_balances, s)
L2DictAfter(s) ==
  squash_dict(vault_dict, SettlementAccesses(s, Batcher(SettlementChanges(s)).vault_diffs))

\* Mutant: the message of the first party only.
MessageOfPartyA(s) ==
  l1_order_messages \cup {o \in {s.order["A"]} : o.is_l1}

\* set_add: the message of an L1 order is in the output once.
MessagesAfter(s) == l1_order_messages \cup {o \in Range(s.order) : o.is_l1}

\* Every pair of orders of distinct ids, filled by any amounts, with a fee for the
\* orders that have one.
Settlements ==
  {s \in [order : [{"A", "B"} -> Orders], sold : [{"A", "B"} -> Amounts],
          fee_info : [{"A", "B"} -> FeeInfos \cup {NoFee}]] :
     s.order["A"].order_id # s.order["B"].order_id}

execute_settlement(s) ==
  /\ Settles(s)
  /\ L2DictAfter(s) # Rejected
  /\ L1BalancesInRange(L1DictAfter(s), L1HintAfter(s))
  /\ vault_dict' = L2DictAfter(s)
  /\ l1_vault_dict' = L1DictAfter(s)
  /\ l1_vaults_balances' = L1HintAfter(s)
  /\ l1_order_messages' = MessagesAfter(s)
  /\ order_dict' = [id \in DOMAIN order_dict |->
       order_dict[id] + SumFunction([p \in {"A", "B"} |->
         IF s.order[p].order_id = id THEN s.sold[p] ELSE 0])]
  /\ filled' = [id \in OrderIds |->
       [bought |-> filled[id].bought + SumFunction([p \in {"A", "B"} |->
          IF s.order[p].order_id = id THEN s.sold[other_party(p)] ELSE 0]),
        fee |-> filled[id].fee + SumFunction([p \in {"A", "B"} |->
          IF s.order[p].order_id = id /\ s.fee_info[p] # NoFee
          THEN s.fee_info[p].fee_taken ELSE 0])]]
  /\ UNCHANGED <<initial_vault_dict, contract>>

-----------------------------------------------------------------------------
(* Transfers, deposits, withdrawals and mints.                             *)

TransferChanges(t, fee_info) ==
  <<Change("SENDER", FALSE, t.public_key, t.token_id, t.sender_vault_id, -t.amount),
    Change("RECEIVER", FALSE, t.receiver_public_key, t.token_id, t.receiver_vault_id, t.amount)>>
  \o (IF fee_info = NoFee THEN <<>>
      ELSE update_fee_vaults(t.public_key, t.fee_info, fee_info, FALSE))

transfer_validate_fee(fee_taken, fee_limit) ==
  fee_taken \in 0 .. fee_limit /\ fee_limit <= BALANCE_BOUND - 1

\* A transfer is executed whole, and once: nothing of it was fulfilled before.
\* Whether it has a condition is of no matter to the vaults.
execute_transfer(t, fee_info) ==
  LET changes == TransferChanges(t, fee_info)
      run == Batcher(changes)
      balance == [SENDER |-> run.vault_diffs[1].balance, RECEIVER |-> run.vault_diffs[2].balance]
      fee_balance == [FEE_SOURCE |-> run.vault_diffs[3].balance,
                      FEE_DESTINATION |-> run.vault_diffs[4].balance]
      accesses == Accesses(changes, IF fee_info = NoFee THEN balance
                                    ELSE Together(fee_balance, balance))
  IN  /\ InRange(t.amount)
      /\ fee_info = NoFee <=> t.fee_info = NoFee
      /\ fee_info # NoFee => transfer_validate_fee(fee_info.fee_taken, t.fee_info.fee_limit)
      /\ order_dict[t.order_id] = 0
      /\ run # Rejected
      /\ squash_dict(vault_dict, accesses) # Rejected
      /\ vault_dict' = squash_dict(vault_dict, accesses)
      /\ order_dict' = [order_dict EXCEPT ![t.order_id] = t.amount]
      /\ UNCHANGED <<initial_vault_dict, batch, contract, filled>>

\* The output of a modification, as the contract reads it: what moves in (or,
\* negative, out of) a vault, and whether it answers a full withdrawal request.
Modification(stark_key, token_id, vault_index, diff, is_full_withdrawal) ==
  [stark_key |-> stark_key, token_id |-> token_id, vault_index |-> vault_index,
   diff |-> diff, is_full_withdrawal |-> is_full_withdrawal]

\* The contract moves what the output says, and closes the request it answers.
Output(m) ==
  /\ outside' = IF m.token_id = 0 THEN outside
                ELSE [outside EXCEPT ![m.token_id] = @ - m.diff]
  /\ requests' = IF m.is_full_withdrawal
                 THEN requests \ {<<m.stark_key, m.vault_index>>} ELSE requests

VaultsModified(vault_index, stark_key, token_id, balance_after) ==
  squash_dict(vault_dict, <<l2_vault_update_balances(vault_index, stark_key, token_id,
                              vault_dict[vault_index].balance, balance_after)>>)

\* What the program asserts of a modification; a deposit is of what users have.
CanModify(vault_index, stark_key, token_id, balance_after, is_full_withdrawal) ==
  LET balance_before == vault_dict[vault_index].balance
  IN  /\ InRange(balance_before) /\ InRange(balance_after)
      /\ is_full_withdrawal => balance_after = 0
      /\ balance_after - balance_before <= outside[token_id]
      /\ VaultsModified(vault_index, stark_key, token_id, balance_after) # Rejected

\* A deposit, a withdrawal, or a full withdrawal.
execute_modification(vault_index, stark_key, token_id, balance_after, is_full_withdrawal) ==
  /\ CanModify(vault_index, stark_key, token_id, balance_after, is_full_withdrawal)
  /\ vault_dict' = VaultsModified(vault_index, stark_key, token_id, balance_after)
  /\ Output(Modification(stark_key, token_id, vault_index,
                         balance_after - vault_dict[vault_index].balance, is_full_withdrawal))
  /\ UNCHANGED <<initial_vault_dict, order_dict, batch, l1_net, onchain_vaults, filled>>

\* The contract accepts the request of any key for any vault.
RequestFullWithdrawal(request) ==
  /\ requests' = requests \cup {request}
  /\ request \notin requests
  /\ UNCHANGED <<vault_dict, initial_vault_dict, order_dict, batch,
                 outside, l1_net, onchain_vaults, filled>>

AnswerOfOwner(request) ==
  \E token_id \in TokenIds : execute_modification(request[2], request[1], token_id, 0, TRUE)

\* Mutant: the key of the vault is not looked at.
RequesterIsAnyone(requester_stark_key, vault) == TRUE

\* Mutant: only an empty vault has no owner.
VaultIsEmpty(requester_stark_key, vault) == vault.balance = 0

RequesterIsNotOwner(requester_stark_key, vault) == requester_stark_key # vault.stark_key

\* The program shows what is in the vault, and leaves it there.
VaultsShown(vault_index) ==
  LET vault == vault_dict[vault_index]
  IN  squash_dict(vault_dict, <<l2_vault_update_balances(vault_index, vault.stark_key,
                                  vault.token_id, vault.balance, vault.balance)>>)

CanAnswerFalse(request) ==
  /\ RequesterIsNotOwner(request[1], vault_dict[request[2]])
  /\ VaultsShown(request[2]) # Rejected

\* The answer to a request for a vault of another: nothing moves.
execute_false_full_withdrawal(request) ==
  /\ request \in requests
  /\ CanAnswerFalse(request)
  /\ vault_dict' = VaultsShown(request[2])
  /\ Output(Modification(request[1], 0, request[2], 0, TRUE))
  /\ UNCHANGED <<initial_vault_dict, order_dict, batch, l1_net, onchain_vaults, filled>>

\* A salted hash of the token: no order has it as its id.
mint_index(token_id) == -token_id

\* Mutant: minted before or not.
MintedAnyTime(token_id) == token_id \in MintableTokens

\* With unique minting enforced, as it is here: the order tree remembers the mint.
CanMint(token_id) == token_id \in MintableTokens /\ order_dict[mint_index(token_id)] = 0

execute_offchain_minting(token_id, stark_key, vault_index) ==
  LET change == Change("MINT", FALSE, stark_key, token_id, vault_index, 1)
      access == l2_vault_update_diff(change, vault_dict[vault_index].balance)
      after == squash_dict(vault_dict, <<access>>)
  IN  /\ CanMint(token_id)
      /\ after # Rejected
      /\ vault_dict' = after
      /\ order_dict' = [order_dict EXCEPT ![mint_index(token_id)] = 1]
      /\ UNCHANGED <<initial_vault_dict, batch, contract, filled>>

-----------------------------------------------------------------------------
(* The end of a batch: what it tells the contract.                         *)

BALANCE_SHIFT == 2 * BALANCE_BOUND

\* Mutant: the final balance for the difference.
L1ActionOfFinal(key) ==
  LET minimal_balance == -l1_vaults_balances[key].min_balance
      final_balance == minimal_balance + l1_vault_dict[key].moved
  IN  (key.vault_index * BALANCE_SHIFT + minimal_balance) * BALANCE_SHIFT
        + final_balance + BALANCE_BOUND

\* The action field of L1VaultOutput.
L1Action(key) ==
  LET minimal_balance == -l1_vaults_balances[key].min_balance
      final_balance == minimal_balance + l1_vault_dict[key].moved
      biased_diff == final_balance - minimal_balance + BALANCE_BOUND
  IN  (key.vault_index * BALANCE_SHIFT + minimal_balance) * BALANCE_SHIFT + biased_diff

\* main.cairo and output_l1_vault_update_data: there is an output for each
\* vault the hint knows of.
L1OutputMade ==
  /\ DOMAIN l1_vault_dict = DOMAIN l1_vaults_balances
  /\ \A key \in DOMAIN l1_vault_dict :
       /\ InRange(-l1_vaults_balances[key].min_balance)
       /\ InRange(l1_vault_dict[key].moved - l1_vaults_balances[key].min_balance)
       /\ key.vault_index \in 0 .. L1_VAULT_INDEX_BOUND - 1

\* The contract reads the difference out of the action.
DiffOf(action) == (action % BALANCE_SHIFT) - BALANCE_BOUND

\* Mutant: only the balances are compared.
BalanceUpdates ==
  {v \in RollupVaults : vault_dict[v].balance # initial_vault_dict[v].balance}

\* The rollup vaults that output_volition_data finds changed.
FullUpdates ==
  {v \in RollupVaults :
     \/ vault_dict[v].balance # initial_vault_dict[v].balance
     \/ vault_dict[v].stark_key # initial_vault_dict[v].stark_key
     \/ vault_dict[v].token_id # initial_vault_dict[v].token_id}

\* sorted(values)
Sorted(values) ==
  CHOOSE seq \in [1 .. Cardinality(values) -> values] :
    \A i, j \in DOMAIN seq : i < j => seq[i] < seq[j]

\* What the hint puts in the encoding tables.
key_table == Sorted({vault_dict[v].stark_key : v \in FullUpdates})
token_table == Sorted({vault_dict[v].token_id : v \in FullUpdates})

IndexIn(table, value) == CHOOSE i \in 0 .. Len(table) - 1 : table[i + 1] = value

get_vault_change_encoding(v) ==
  LET vault == vault_dict[v]
  IN  ((v * BALANCE_BOUND + vault.balance) * ONCHAIN_DATA_KEY_INDEX_BOUND
        + IndexIn(key_table, vault.stark_key)) * ONCHAIN_DATA_TOKEN_INDEX_BOUND
        + IndexIn(token_table, vault.token_id)

VAULT_CHANGE_SHIFT == ONCHAIN_DATA_VAULT_ID_BOUND * BALANCE_BOUND
                        * ONCHAIN_DATA_KEY_INDEX_BOUND * ONCHAIN_DATA_TOKEN_INDEX_BOUND

\* Two changes in a word; the last of an odd number is there twice.
VolitionWords ==
  LET changes == Sorted(FullUpdates)
      Encoding(i) == get_vault_change_encoding(changes[Min({i, Len(changes)})])
  IN  [w \in 1 .. (Len(changes) + 1) \div 2 |->
         Encoding(2 * w - 1) * VAULT_CHANGE_SHIFT + Encoding(2 * w)]

\* A reader of the published data (external) undoes the packing.
ReadChange(vaults, change, keys, tokens) ==
  LET rest == change \div ONCHAIN_DATA_TOKEN_INDEX_BOUND
      above == rest \div ONCHAIN_DATA_KEY_INDEX_BOUND
  IN  [vaults EXCEPT ![above \div BALANCE_BOUND] =
         [stark_key |-> keys[(rest % ONCHAIN_DATA_KEY_INDEX_BOUND) + 1],
          token_id |-> tokens[(change % ONCHAIN_DATA_TOKEN_INDEX_BOUND) + 1],
          balance |-> above % BALANCE_BOUND]]

ReadWord(vaults, word) ==
  ReadChange(ReadChange(vaults, word \div VAULT_CHANGE_SHIFT, key_table, token_table),
             word % VAULT_CHANGE_SHIFT, key_table, token_table)

EndBatch ==
  /\ L1OutputMade
  /\ Len(key_table) < ONCHAIN_DATA_KEY_INDEX_BOUND
  /\ Len(token_table) < ONCHAIN_DATA_TOKEN_INDEX_BOUND
  /\ l1_net' = [key \in L1Vaults |->
       l1_net[key] + (IF key \in DOMAIN l1_vault_dict THEN DiffOf(L1Action(key)) ELSE 0)]
  /\ onchain_vaults' = FoldLeft(ReadWord, onchain_vaults, VolitionWords)
  /\ initial_vault_dict' = vault_dict
  /\ l1_vault_dict' = <<>> /\ l1_vaults_balances' = <<>> /\ l1_order_messages' = {}
  /\ UNCHANGED <<vault_dict, order_dict, outside, requests, filled>>

-----------------------------------------------------------------------------
(* What requests look like.                                                *)

FeeFields == [token_id : TokenIds, fee_limit : Nat, source_vault_id : Nat]

OrderFields ==
  [order_id : OrderIds, is_l1 : BOOLEAN, public_key : Nat,
   asset_id_sell : TokenIds, asset_id_buy : TokenIds, vault_sell : Nat, vault_buy : Nat,
   amount_sell : Nat, amount_buy : Nat, fee_info : FeeFields \cup {NoFee}]

TransferFields ==
  [order_id : OrderIds, public_key : StarkKeys, token_id : TokenIds,
   sender_vault_id : VaultIds, receiver_public_key : StarkKeys, receiver_vault_id : VaultIds,
   amount : Nat, fee_info : FeeFields \cup {NoFee}]

\* The vaults of an L2 order are in the tree, and so is what a fee is paid from.
UsesL2Vaults(order) ==
  /\ order.public_key \in StarkKeys
  /\ order.vault_sell \in VaultIds /\ order.vault_buy \in VaultIds
  /\ order.fee_info # NoFee => order.fee_info.source_vault_id \in VaultIds

\* An L1 order has a fee: main_hint_functions.py and settlement_hint_functions.py
\* assert it.
UsesL1Vaults(order) ==
  /\ order.fee_info # NoFee
  /\ \A role \in {"SELL", "BUY", "FEE_SOURCE"} : from_order_l1(order, role) \in L1Vaults

\* What the message of an order says: all but whose it is, on L1 and on L2.
SignedTerms(order) ==
  [assets |-> <<order.asset_id_sell, order.asset_id_buy>>,
   vaults |-> <<order.vault_sell, order.vault_buy>>,
   amounts |-> <<order.amount_sell, order.amount_buy>>, fee_info |-> order.fee_info]

\* A failed assertion leaves no vaults and no access.
ASSUME RejectedAssumption ==
  /\ Rejected \notin [VaultIds -> Vault]
  /\ Rejected \notin [key : VaultIds, prev_value : Vault, new_value : Vault]

\* The id of a request is the hash of its message (verify_order_id.cairo): orders of
\* one id have the same terms, and no transfer has the id of an order.
ASSUME RequestsAssumption ==
  /\ IsFiniteSet(VaultIds) /\ IsFiniteSet(L1Vaults)
  /\ OrderIds \subseteq Nat /\ MintableTokens \subseteq TokenIds
  /\ Orders \subseteq OrderFields
  /\ \A o \in Orders : IF o.is_l1 THEN UsesL1Vaults(o) ELSE UsesL2Vaults(o)
  /\ \A o, other \in Orders : o.order_id = other.order_id => SignedTerms(o) = SignedTerms(other)
  /\ Transfers \subseteq TransferFields
  /\ \A t \in Transfers :
       /\ \A o \in Orders : o.order_id # t.order_id
       /\ t.fee_info # NoFee => t.fee_info.source_vault_id \in VaultIds
  /\ FeeInfos \subseteq [fee_taken : Int, destination_vault_id : VaultIds,
                        destination_stark_key : StarkKeys]
  /\ Holders \subseteq VaultIds \X StarkKeys \X TokenIds
  /\ FullWithdrawalRequests \subseteq StarkKeys \X VaultIds

\* The widths of the fields of a published change.  A rollup vault has the id of its
\* leaf here (adjust_vault_dict_keys), and the height of the tree, which is in the
\* output, keeps it within its field.
ASSUME VolitionAssumption ==
  /\ ONCHAIN_DATA_KEY_INDEX_BOUND \in Nat \ {0} /\ ONCHAIN_DATA_TOKEN_INDEX_BOUND \in Nat \ {0}
  /\ ONCHAIN_DATA_VAULT_ID_BOUND \in Nat \ {0}
  /\ RollupVaults \subseteq 0 .. ONCHAIN_DATA_VAULT_ID_BOUND - 1

-----------------------------------------------------------------------------
Init ==
  /\ vault_dict = [v \in VaultIds |-> EmptyVault]
  /\ initial_vault_dict = vault_dict
  /\ order_dict = [id \in OrderIds \cup {mint_index(t) : t \in MintableTokens} |-> 0]
  /\ l1_vault_dict = <<>> /\ l1_vaults_balances = <<>> /\ l1_order_messages = {}
  /\ outside = Supply
  /\ l1_net = [key \in L1Vaults |-> 0]
  /\ onchain_vaults = [v \in RollupVaults |-> EmptyVault]
  /\ requests = {}
  /\ filled = [id \in OrderIds |-> [bought |-> 0, fee |-> 0]]

Next ==
  \/ \E s \in Settlements : execute_settlement(s)
  \/ \E t \in Transfers, fee_info \in FeeInfos \cup {NoFee} : execute_transfer(t, fee_info)
  \/ \E h \in Holders, b \in 0 .. BALANCE_BOUND - 1 :
       execute_modification(h[1], h[2], h[3], b, FALSE)
  \/ \E request \in requests : AnswerOfOwner(request)
  \/ \E request \in FullWithdrawalRequests : RequestFullWithdrawal(request)
  \/ \E request \in requests : execute_false_full_withdrawal(request)
  \/ \E h \in Holders : execute_offchain_minting(h[3], h[2], h[1])
  \/ EndBatch

Spec == Init /\ [][Next]_vars
=============================================================================
