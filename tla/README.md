# StarkEx Perpetual: a TLA+ model

This directory models, checks and proves properties of the programs of this
repository: the StarkEx Perpetual program (`src/src/services/perpetual/cairo`),
which proves that a batch of transactions of a perpetual exchange was executed
by the rules; the spot exchange (`src/src/starkware/cairo/dex`), a second such
program; and the Python code around them that signs messages, hashes
configurations, computes signatures and runs commands. Paths below are relative
to `src/src`; file names without a path are in `services/perpetual/cairo`,
in the part about the spot exchange in `starkware/cairo/dex`.

Contents: [what the program is](#the-system), [its components](#inventory),
[the modules](#modules), [the runs](#runs), [the proofs](#proofs),
[where code and comments differ](#where-comments-and-code-differ),
[what is not modelled](#what-is-not-modelled), [the plan](#plan).

## The system

### The perpetual program

The program is a *batch verifier*. An operator picks transactions and an
order, executes them, and proves with this program that every assertion held.
There is no thread, message or timer in it, and a transaction that fails an
assertion does not fail alone: no batch that contains it can be proved. So
the behaviours of the exchange are the sequences of transactions in which
every assertion holds, the operator's choice of transactions and order is
nondeterminism, and what can go wrong is that some long legal sequence reaches
a state nobody wanted: collateral from nothing, a position somebody else can
take, a position that no transaction can touch any more, an output from which
the state cannot be rebuilt.

The forced actions are the exception to "fail together". A user requests them
on-chain and the operator *must* include them, so the program has a soft
failure there: the operator shows that the action is invalid, the position
only has its funding settled, and the batch goes on. Hence three outcomes of
an update are told apart everywhere in the model: success, failure (an error
code that the caller sees) and abort (a hard assertion, which makes the
transaction unprovable, a forced one included).

State of the program while it runs a batch (`state/state.cairo:19-26`):

| state | what it is |
|---|---|
| positions | position id -> owner key, collateral balance, assets (each with a balance and a *cached funding index*), funding timestamp |
| orders | order id -> amount fulfilled so far; ids are 64 bits of a hash and may collide |
| global funding indices | index of each asset, with the timestamp of the funding tick that set them |
| oracle prices | last price of each asset |
| system time | time of the last tick |

and its output: the funding indices table (one entry per funding tick, and the
one at the batch's start), the modifications (deposits and withdrawals), forced
actions, conditions, and the changed positions.

Funding is lazy. A funding tick only changes the global indices; a position
pays `(global index - cached index) * balance` for each asset the next time any
transaction touches it (`position/funding.cairo`). The paid amount is rounded
down to whole collateral. The data availability output does not hold cached
indices, only the position's funding timestamp, which a reader looks up in the
funding indices table.

### The spot exchange

A batch verifier again, over *vaults*: a vault id holds one balance of one token
for one key, in a tree of its own per layer of data availability (validium,
rollup). Three parties describe a transaction. The batcher has executed it and
recorded every vault before and after. The Python hints pick, out of that record,
the numbers the program is to guess. The program asserts the rest. Vaults on L1
are not in any tree: the program only sees accesses to them, guesses the balance
they start with (the hint computes the least one that never goes below 0), and
gives the contract that balance and the difference. Users request full
withdrawals on the contract, and the operator answers with a withdrawal or with a
proof that the vault belongs to another key.

### Around the programs

```
 governor -- generate_perpetual_config_hash.py --> contract: registered hashes
                                                      ^ compares
 oracle  -- stark_cli.py, get_price_msg --.           |
                                           v          |
 client  -- perpetual_messages.py -----> program: recomputes messages and
            sign (signature.py)                    hashes, verifies signatures
```

A client library and the program compute the same message or hash, independently,
in two languages; a signature or a registration of one is an authorisation for
the other. What can go wrong is that they disagree (a user signs what cannot be
executed) or agree too often (a signature for one thing allows another). The
signature library decides who can sign at all, with an ECDSA variant that
imitates a circuit which fails where two points have one x. And the Python
utilities run commands in an event loop, where the hazards are those of
concurrency: failures in the middle of a chunk, cancellation, blocked threads.

## Inventory

| component | state it keeps | operations | interacts with | what makes it correct | status |
|---|---|---|---|---|---|
| position update (`position/*.cairo`, `definitions/general_config.cairo`) | none; a pure function of position, request and market | fund, change collateral, add asset, status (value and risk), legality of the transition | called by every transaction | owner, limits, funding, margin rules | modelled |
| user transactions (`deposit`, `withdrawal`, `transfer`, `conditional_transfer`, `trade`, `execute_limit_order`) | positions, orders | one per transaction type | position update, orders, fee position | conservation, no stale read between the updates of one transaction | modelled |
| order fulfillment (`order/order.cairo`, `order/*limit_order.cairo`) | orders | fulfil part of an order; fairness of the match | trade, liquidate, withdrawal, transfers | amounts in range under colliding ids | modelled |
| forced actions (`forced_withdrawal`, `forced_trade`) | positions | execute, or show invalid | position update, output | both sides or neither; no modification when invalid | modelled |
| liquidation and deleverage | positions, orders | `liquidate`, `deleverage` | position update, limit order, fee position | takes no more than needed, at the right price | modelled |
| ticks (`funding_tick`, `oracle_prices_tick`) | indices, prices, time | one each | everything reads the market | monotone time, bounded rate, nothing unlisted | modelled, the range of signed prices apart from the positions |
| carried state and dispatch (`state/state.cairo`, `execute_batch.cairo`) | the whole | dispatch, freshness check, batch checks, Merkle updates | all | order of checks around a batch | dispatch and freshness modelled |
| output and data availability (`output/*`, `position/serialize_change.cairo`, `main.cairo`) | output segment | table of indices, modifications, changes, conditions | read by the contract and by whoever rebuilds the state | the state can be rebuilt | table and net collateral modelled |
| general configuration (`execute_batch_utils.cairo`, `definitions/`) | constants | validation | all | lists and bounds in order | assumptions on the constants; validation of assets modelled |
| configuration and position hashing (`general_config_hash.cairo`, `position/hash.cairo`) | none | hashes | contract, Merkle tree | one hash, one configuration | configuration modelled |
| signed oracle prices (`oracle/oracle_price.cairo`) | none | quorum, median | prices tick | a quorum behind every price | modelled |
| exchange message hashes (`services/exchange/cairo`) | none | messages of orders and transfers | signatures | a signature allows one thing | modelled as the perpetual program uses them |
| spot exchange (`starkware/cairo/dex/*.cairo`) | vaults of two trees, orders, L1 vault accesses, output | settlement, transfer, modification, false full withdrawal, minting, end of a batch | hints, contract | conservation, fills, published data, requests | mostly modelled |
| dex hints (`starkware/cairo/dex/*.py`) | L1 balances of a batch | least initial balances, witnesses | the batcher's record, the program | what was executed can be proved | modelled |
| client messages and command line (`services/perpetual/public`) | none | messages, configuration hashes, signing | users, oracles, governor | agrees with the program | mostly modelled |
| signature library (`starkware/crypto/signature`) | parameters | keys, sign, verify, two Pedersen hashes | command line, messages | verify is ECDSA; the hashes agree | modelled on small curves |
| python utilities (`starkware/python`) | tasks, processes | chunks, subprocesses, threads, teardown; curve arithmetic | event loop, operating system | order, limits, no lost failure, no endless wait | those modelled; stateless helpers not |
| build and program hashes | none | - | - | - | not modelled |

What is hard to test here, and so what the properties are for, is listed in
`PROJECT.json` under `hazards`, each at its line. In short: *stale state*
(cached funding indices; the fee position, each party and the liquidated
position are updated several times within one transaction, each update reading
what the last one wrote), *numeric edges* (rounding, inclusive and exclusive
bounds, ratios with a zero denominator), *partial failure* (forced trades),
and above all *protocol sequences*: many legal steps that together break a
relation between two pieces of state. Concurrency, message loss, crashes and
timeouts do not exist in the batch programs; concurrency and failure do in the
Python utilities. Around the programs the hazard is *disagreement* between two
implementations of one encoding.

## Modules

```
PerpetualPosition   update_position and what it is made of (no variables)
      |
Perpetual           the carried state, one action per transaction
      |
PerpetualSafety     the properties           FundedLedger  (abstract)
      |      \______________________________/   INSTANCE, refinement mapping
      |      \
MCPerpetual,   PerpetualProofs   types, limits, listing, ownership
MCListing             |
                LedgerProofs     sums over positions, the refinement, margins
                      |
                SumTheorems      sums of functions over finite sets, folds, numbers
                      |
Dex - DexSafety - MCDex, DexProofs     the spot exchange

FieldMath           curve arithmetic (no variables)
  | INSTANCE
Signature - SignatureSafety - MCSignature, SignatureProofs (and SumTheorems)

PerpetualMessages - MessagesProofs           ConfiguredPrices - MCPrices
  (properties, run)  (proofs)                      |
                                             PricesProofs (and SumTheorems)
AsyncUtils - AsyncProofs
```

**PerpetualPosition** models `position/*.cairo`. A position is a record; the
sorted array of its assets is a function whose domain is the set of assets it
holds. The market is what an update reads of the carried state. `update_position`
returns, as the code does, a return code, the updated position and the funded
position (callers of a failed forced action store the latter), in the order the
code does it: settle funding (hard), tradable asset, owner, collateral, asset,
transition. The asset segments of the risk function are looked up as in
`get_risk_factor`. There is always one: the last ends at
`RISK_FACTOR_SEGMENT_UPPER_BOUND - 1` (`execute_batch_utils.cairo:86-88`), 2^128 - 1 in the
code, while a balance times a price has 127 bits. Fixed point values stay integers scaled by `FXP_32_ONE`.
Where the code bounds a number by its width (64-bit balances, 95-bit value,
128-bit risk, at most 64 assets) the bound is a constant, so that small
instances reach it and the proofs hold for the real one.

**Perpetual** models `transactions/*.cairo`. Each action is one whole
transaction: its guard is the conjunction of the transaction's assertions, and
it applies its updates one after another, the second to the dictionary the
first one left. `execute_transaction`'s dispatch is `Next`. Correspondence:

| code | model |
|---|---|
| `carried_state.positions_dict`, `orders_dict`, `global_funding_indices`, `oracle_prices`, `system_time` | the variables of the same names |
| `funding_indices_table_ptr` of the outputs | `funding_indices_table`, a set |
| `modifications_ptr` of the outputs | `modifications`, the sum of deposits minus withdrawals |
| `execute_deposit` ... `execute_deleverage` | `Deposit(tx)` ... `Deleverage(...)` |
| `execute_limit_order` | operator `execute_limit_order`, used by `Trade` and `Liquidate` |
| `validate_funding_timestamp` (`execute_batch.cairo`) | `FundingIsFresh` |
| `update_order_fulfillment` | `CanFulfill` (its assertions), `update_order_fulfillment` (its effect) |
| `try_to_trade` | `try_to_trade`, per side |
| `is_valid` of a forced action | a parameter the guard ties to the outcome |

The requests users sign or make on-chain (`Deposits`, `LimitOrders`, ...) are
constants: sets of records that TLC gets as small sets and the proofs leave
arbitrary. The amounts the operator fills in are small sets too. Requests whose
key no signature binds may carry any key, 0 included, as in the code.

**FundedLedger** is the abstract specification: a ledger in which every
position pays funding *at the tick*, and in which collateral otherwise moves
only in whole units between positions or in and out of the vault.
`PerpetualSafety` instantiates it with the claim of each position, its
collateral minus the funding it still owes, and `ImplementsFundedLedger` says
that the exchange, with its late, per-position, rounded funding, implements it.
Whoever takes part in a transaction may lose the fraction of a unit of its
claim; whoever does not loses nothing. No order of touching positions makes
anybody pay twice, or for a time they did not hold.

**PerpetualSafety** holds the properties, **MCPerpetual** and **MCListing**
the small instances. **PerpetualProofs** and **LedgerProofs** prove its properties.
**SumTheorems** is what they, **DexProofs**, **PricesProofs** and **SignatureProofs**
need about sums, sorted sets and packed numbers.

**Dex** models the spot exchange, hints and program side by side. A transaction
is a list of `Change`s (who, which vault, by how much). `Batcher` is the external
batcher that executes them and keeps its record; `get_order_witness` and
`get_fee_witness` are the hints that take balances out of the record by position;
`l2_vault_update_diff` is the program's access with the balance it guessed, and
`squash_dict` checks at the end of the batch that each access starts where the one
before it ended. The action requires every assertion of the program, so a wrong
hint disables it. `l1_vault_dict` keeps of each L1 vault what all assertions
about it depend on: how far its balance moved, and how far at the lowest and at the
highest. `l1_vaults_balances` is what the hint computes of the same settlement,
in the hint's own order. A settlement is between orders of distinct ids: the
order dictionary is updated once for each party from what the witness says it
was before, so with two orders of one id it could not be squashed: the code needs no
assertion, and the model has none but takes only distinct ids. `EndBatch` is the end of `main.cairo`: the L1 output with
its packed action, the volition words with their tables of keys and tokens, both
packed as in the code and unpacked again by the contract and by a reader of the
chain. **DexSafety** has the properties, **MCDex** the instances.

| code | model |
|---|---|
| `vault_dict`, `order_dict`, `l1_vault_dict`, `l1_order_message_ptr` (`main.cairo`) | the variables of these names |
| `L1VaultBalances` (`main_hint_functions.py`) | `l1_vaults_balances` |
| `execute_settlement`, with `execute_limit_order` and `fee.cairo` | `execute_settlement(s)`: `Settles`, `SettlementAccesses`, `L1DictAfter` |
| `execute_transfer`, `execute_modification`, `execute_offchain_minting` | the actions of these names |
| a full withdrawal, `execute_false_full_withdrawal` | `AnswerOfOwner`, `execute_false_full_withdrawal` |
| end of `main.cairo`, `output_l1_vault_update_data`, `output_volition_data` | `EndBatch` |

**FieldMath** is `starkware/python/math_utils.py`; **Signature** is
`starkware/crypto/signature`: the generation of parameters from digits of pi, keys,
`sign` with a nonce drawn anew when it is bad, `verify`, and both Pedersen hashes.
A failed assertion inside a computation is a value, `AssertionError`, that
propagates as the exception does. The nonce of RFC 6979 is any in range. The
signature may be replaced on its way and the key be another's. Multiplication
recurs as in the code: each recursive function halves or decrements the multiplier,
over all pairs of residues, infinity (where the code has it) and `AssertionError`.
**SignatureSafety** compares with the group: `Times` and `Plus` know infinity, and
fail nowhere on a curve of odd order. **SignatureProofs** proves its properties.

**PerpetualMessages** has both sides of a signed message: the functions of
`perpetual_messages.py` over requests, and the message that the program computes
of a transaction (`limit_order.cairo`, `transfer.cairo`, `withdrawal.cairo`,
`oracle_price.cairo`, `signature_message_hashes.cairo`). Requests lie within the bounds
that the library asserts; a transaction may hold what the program admits, which is
one time more for a price: `TIMESTAMP_BOUND` itself. Packing is the arithmetic
of the code, with the widths as constants; the Pedersen hash is the pair of its
arguments, so two messages are equal only when the encodings meet.

**ConfiguredPrices** follows a price to a batch: the governor hashes a YAML
configuration (strings, integers and booleans as they are) and registers the
hashes, oracles sign prices, the program hashes the configuration the operator
loads, checks it (`validate_general_config`), and accepts prices with a quorum and a
median. **PricesProofs**
proves its properties.

**AsyncUtils** models `gather_in_chunks`, `aenumerate`, `aclosing`,
`execute_coroutine_threadsafe` and `cancel_futures` of `utils.py` with
`async_check_output` of `async_subprocess.py`, as one system: a thread has the
loop run commands in chunks and waits, a consumer may break early, commands fail
to start, between two of their parts, or because their output is no ASCII, and a
teardown may come at any moment. It is given the futures that there are by then
(`futures`); a call may also come while the teardown is under way, or after it, since
the loop goes on. The loop, `asyncio.gather` and tasks are external and act as the
code relies on them.

Some definitions are preceded by a *faulty variant* of themselves (for example
`TruncatedCollateral` before `FundedCollateral`). Nothing uses a variant. Each
is a bug one could plausibly have written, and `PROJECT.json` says which
property notices when it takes the place of the real definition: every property
is known to be able to fail.

## Properties

| property | says | run |
|---|---|---|
| `TypeOK` | types; fulfilled amounts stay below `AMOUNT_UPPER_BOUND` although order ids collide | trading |
| `FundingNeverMints` | the claims of all positions never exceed the collateral that came in | trading |
| `ImplementsFundedLedger` | lazy funding is indistinguishable from eager funding, up to the fraction of a unit of those who take part | trading |
| `KeyIffNonEmpty` | a position has an owner exactly when it holds something | trading |
| `OwnershipIsStable` | no step takes a non-empty position from its owner | trading |
| `SyntheticsNetToZero` | every asset's balances sum to 0 | distress |
| `TransactionsKeepMargin` | only a tick can take a position out of margin | distress |
| `SeizureOnlyShrinks` | without its owner's order or forced trade, a balance only moves towards 0, unless the position was worth less than nothing and comes out well leveraged and worth less than a unit | distress |
| `DeleverageIsTight` | with one unit of collateral less a deleverage would have been refused | distress |
| `PositionsWithinLimits` | number of assets and balances within bounds; no balance at the lower bound that `get_risk_factor` rejects | listing |
| `HeldAssetsAreListed` | every held asset has a price and an index, so its lookup never aborts | listing |
| `CachedIndicesPublished` | the table and a position's timestamp determine its cached indices | listing |
| `LatestEntryIsGlobal` | the global indices are the table's latest entry, and no entry of the same time disagrees | listing |
| `TokensConserved` | of every token, vaults of both layers and what is outside add up to the supply and what was minted once | settlement, vaults |
| `L1InitialBalanceIsLeast` | the hint's initial balance of an L1 vault is the least that the program's own order of changes needs | settlement |
| `EverySettlementIsProvable` | what the batcher could execute, the program accepts with the hints | settlement |
| `OrderTermsHoldOverFills` | amount, price and fee limit of an order hold over all its fills together | settlement |
| `L1VaultsNamedByOrders` | a batch changes no L1 vault that no message in its output names | settlement |
| `PublishedDataRestoresRollup` | who reads only published data has every rollup vault | vaults |
| `RequestsCanBeClosed` | every full withdrawal request has an answer that can be proved | vaults |
| `RequestsClosedRight` | no request is closed while its key still has something in the vault | vaults |
| `VerifyIsEcdsa` | for any signature and key, `verify` answers as the equation, except where the circuit meets two points of one x | signature |
| `OwnSignatureAccepted` | what `sign` returned is accepted, with the same exception, for every message but 0 | signature |
| `MultiplesOfGeneratorExist` | `ec_mult` never fails below the order, and gives the points of the group | signature |
| `FastHashIsPedersenHash` | the two hash implementations agree | signature |
| `ExecutedTermsWereRequested` | a transaction whose message was signed was asked for in the same terms; of a price at `TIMESTAMP_BOUND`, the next price at time 0 was | messages |
| `RequestsCanBeExecuted` | client and program make one message of one request | messages |
| `OnlyTheApprovedIsAccepted` | the contract accepts the configuration approved and no other | prices |
| `AcceptedPricesAreBacked` | a quorum of distinct approved signers stands behind a price, half of it on either side, in time | prices |
| `QuorumGivesPrice` | a quorum that signed in time always gives a price | prices |
| `GatheredInOrder` | results in order, none lost, twice, or of a command of which a part failed | async |
| `ChunksOneByOne` | never more than `chunk_size` commands under way, and no chunk before the ones before it succeeded | async |
| `TeardownRevealsFailures` | a teardown that returns leaves nothing running and hides no failure; one that raises does so for the first future that failed | async |
| `EveryWaitEnds` | whoever waits, not in the loop's own thread, gets an answer; a teardown ends, unless that thread waits and so stops the loop | async |

`OwnershipIsStable` has one exception that the code really has: a liquidation of
the *fee position* may empty it and then credit it with the liquidator's fee
under the configured fee key, all in one step.

The exception in `SeizureOnlyShrinks` is real as well. `deleverage.cairo:112`
compares the size with the *deleverager's* balance only. The deleveraged position,
whose balance may be smaller, may so cross 0, which the transition rules allow
when it comes out well leveraged; tightness then leaves it with less than one unit
of value. Run *distress* reaches such states.

`TransactionsKeepMargin` judges every position after it has settled its
funding, also those a transaction does not touch.

## Runs

The runs of the perpetual program, of the spot exchange and of the prices have
deadlock checking on: there, something is always possible. In *signature*,
*messages* and *async* everything that was started ends, so the system may stop.
Each run finishes in less than two minutes with two workers.

* **trading** (`MCTrading.cfg`, about 10 000 states). One asset, traders alice
  and bob, and the fee position. Deposits (one to alice's position in bob's
  name, which only works while it is empty), a withdrawal and both kinds of
  transfers that share *one* order id, limit orders filled in parts with fees 0
  or 1, forced withdrawals (one of them in bob's name from alice's position, so
  always invalid), a forced trade, and all ticks. `AMOUNT_UPPER_BOUND = 3`, so
  that colliding fulfilments reach the bound; `FXP_32_ONE = 4`, so that a
  funding payment of one index step is a quarter of a unit and rounding bites;
  balances up to 16 with at most 4 units deposited, so no bound stops a trade.
* **distress** (`MCDistress.cfg`, about 6 200 states). The same traders with
  deposits, a withdrawal, limit orders, a forced trade that gives an asset to the
  fee position for nothing, and a price of three quarters of a unit or of two, so
  that positions go out of margin and back, below zero value too: liquidations,
  deleverages (one that makes a balance cross 0 among them) and trades of positions
  out of margin all occur. The risk function has two segments and both are used.
* **listing** (`MCListing.cfg`, about 11 700 states). Two assets that appear in
  ticks at any time and in any order; a position may hold one
  (`POSITION_MAX_SUPPORTED_N_ASSETS = 1`), so the bound is met at once, and
  `BALANCE_UPPER_BOUND = 3`, so balances at the bound are met too. Two
  timestamps with several ticks at each, and the fee position as a trading
  party.
* **settlement** (`MCSettlement.cfg`, about 22 700 states). Two tokens, an L2 trader with
  two vaults and a fee vault, one of the three in the rollup tree, L1 vaults of
  one Ethereum key, and four orders: L2 without a fee, two L1 orders with fees of
  which the second sells what the first bought (so an L1 vault goes up and down
  within a batch and pays a fee of what it buys), and L2 with a fee. Amounts 1 and
  2, fees 0 and 1, every pairing, any number of batches; `BALANCE_BOUND = 4`.
* **vaults** (`MCVaults.cfg`, about 9 800 states). Transfers with and without a
  fee, deposits and withdrawals of two keys and two tokens in shared vaults, one
  minted token, requests by owners and by others. Two rollup vaults, so that words
  hold one change or two; the tables of keys and tokens nearly fill.
* **signature** (`MCSignature.cfg`, about 46 700 states). Two curves of prime
  order between a power of two and the field prime, as the real one's is (fields of 23
  and 29 elements), two choices of constant points each, every key, four messages
  including 0 and the largest, every nonce, one bad nonce, three replaced
  signatures, keys of the signer, its negation, x's on and off the curve, a point
  off the curve; hashes of all pairs of nine elements, the largest included. On
  curves this small the circuit often meets two points of one x: the exception
  in the properties is exercised, and so is everything past it.
* **zero_message** (`MCZeroMessage.cfg`): see [below](#where-comments-and-code-differ).
* **messages** (`MCMessages.cfg`, about 7 700 states). Every single request within
  the bounds (each packed field at 0 and at its maximum, ids and keys that equal
  those of other roles, addresses equal to the signer's key) against every
  transaction, prices at `TIMESTAMP_BOUND` included. One request at a time is enough
  for a single message to meet two requests, and the proofs below do away with all
  bounds.
* **prices** (`MCPrices.cfg`, about 14 100 states). Seven configurations over the
  same few numbers, cut differently into lists, ids that are padded or too long,
  strings in base 10 and 16 (also the id of the collateral, where the script accepts
  both); three signers, two times, prices in and out of bounds,
  up to three signatures, quorums of 1 and 2. `MaxTime` is below
  `TIMESTAMP_BOUND`: the check of the time of a signature
  (`oracle/oracle_price.cairo:93`) lets `TIMESTAMP_BOUND` itself in, whose message
  is that of the next price at time 0; no batch has such an end time before 2106.
* **async** (`MCAsync.cfg`, about 50 600 states). Four commands of two parts in chunks of two, every
  pattern of failures, also to start and to be read, a consumer that stops after any number of elements, a
  call from the main thread, a worker or the loop's own thread, a service that may
  fail at any time, and a teardown at any moment, also before the call. Two chunks
  are what the properties relate.
* **fee_position** (`MCFeePosition.cfg`), **timestamp** (`MCTimestamp.cfg`): each shows one
  of the disagreements [below](#where-comments-and-code-differ).

Why these bounds are enough to be worth something: every relation checked is
between at most three positions (two parties and the fee position, or the
liquidated position, the liquidator and the fee position), which are all there;
every bound of the code is reached; funding needs two ticks with a position
held in between, and rounding needs a unit that is not 1, which is what
`MaxTime = 1` (times 0 and 1, any number of ticks at each) and `FXP_32_ONE = 4`
give. What grows without bound in the program is bounded by `MaxTime` (the time
of a tick) and `MaxModifications` (the net deposits); these two are bounds of
the model, not of the program. For the theorems below no bound matters
at all. The other models have `MaxSeed`, `MaxRequests`, `MaxSignatures`, `MaxTime`
(of a batch) and `NSteps` as bounds of their own; the rest of their constants are
widths and limits of the code, made small.

### Fairness and liveness

None is assumed of the batch programs and none is claimed. They process the list
they are given; nothing in them schedules anything, and the code gives no reason
to expect that any transaction is ever chosen. The obligation to serve a forced
action or a full withdrawal in time is enforced by a contract that is not in this
repository; that an answer is always *possible* is `RequestsCanBeClosed`: in every
reachable state, whoever asks for whatever vault, the assertions of one of the two
answers hold, which is a property of states and is proved below.

`AsyncUtils` assumes weak fairness of: each task of the loop that is ready
(`JobStep`, `ChildStep`, `AwaitFuture`), because the event loop runs every ready
callback in turn; each process (`ProcessStep`), because the commands it is used
for end; a service that was cancelled (`ServiceEnds`), because cancelling a task
raises in it at its next await; and the return of `future.result()` once the future
is settled (`CallerResult`). This holds during a teardown as well: it cancels
futures and does not stop the loop. Every step in the loop, the end of a service included,
requires `LoopRuns`: a thread that blocks the loop disables them all, and then no
fairness helps, neither that thread nor a teardown under way. That is the case which
`EveryWaitEnds` leaves out, because the code does (the NOTE at `utils.py:592`). Nothing makes anybody call, break or
tear down.

## Proofs

### Of the perpetual program

`PerpetualProofs` proves, for every value of the constants that satisfies the
named assumptions (`BoundsAssumption`, `NamesAssumption`, `RiskAssumption`,
`ConfigAssumption`, `RequestsAssumption`). Types, limits and ownership are in
`PerpetualProofs`, what is summed over positions and what concerns margins in
`LedgerProofs`:

| theorem | statement |
|---|---|
| `InductiveInvariant` | `Spec => []IndInv` |
| `TypeCorrectness` | `Spec => []TypeOK` |
| `OwnersOfNonEmptyPositions` | `Spec => []KeyIffNonEmpty` |
| `PositionLimits` | `Spec => []PositionsWithinLimits` |
| `HeldAssetsStayListed` | `Spec => []HeldAssetsAreListed` |
| `CachedIndicesCanBeRebuilt` | `Spec => []CachedIndicesPublished` |
| `LatestIndicesAreGlobal` | `Spec => []LatestEntryIsGlobal` |
| `OwnershipTheorem` | `Spec => OwnershipIsStable` |
| `LedgerInvariant` | `Spec => []LedgerInv` |
| `SyntheticAssetsNetToZero` | `Spec => []SyntheticsNetToZero` |
| `FundingMintsNothing` | `Spec => []FundingNeverMints` |
| `LateFundingIsLedger` | `Spec => ImplementsFundedLedger` |
| `MarginsAreKept` | `Spec => TransactionsKeepMargin` |
| `DeleveragesAreTight` | `Spec => DeleverageIsTight` |
| `SeizuresOnlyShrink` | `Spec => SeizureOnlyShrinks` |

All properties of the runs of the perpetual program are so proved. The
assumptions are weak: finitely many assets and positions (position ids have 64
bits, `definitions/constants.cairo:34`), positive bounds, non-empty increasing
risk segments, positive prices, distinct null values. Amounts, requests, indices
and the number of positions, keys, orders and assets are arbitrary.

**The argument of `PerpetualProofs`.** None of the invariants is inductive alone. That a position's
cached indices are published needs that the *global* indices are published
under their timestamp, since an update copies them; that this stays true at a
funding tick needs that a tick with the timestamp of the latest entry cannot
change an index. That follows from the rate check with a time difference of 0
(`TickAtSameTime`), a consequence the source nowhere states. That a held asset
has a price and an index needs that ticks never drop one. That an owner is kept
needs that a position without key is empty. `IndInv` is therefore the
conjunction of

* `DictInv`: each position is well typed, within limits, has a key exactly when
  it holds something, holds only listed assets, and its cached indices are
  published;
* `OrdersInv`: fulfilled amounts are below the bound;
* `GlobalsInv`: the market is well typed, and the latest entry of the table;
* `modifications` is an integer.

TLC checks each of its conjuncts, as `TypeOK` and the invariants of *trading*
and *listing*.

The proof follows the code's layers. `FundingKeepsPosition`,
`MaybeEmptyKeepsPosition`, `AddAssetKeepsAssets` and `TargetKeepsPosition`
are about the parts of `update_position`; `UpdateKeepsPosition` concludes that
*whatever it returns, success or not*, is a well formed position whose owner
changed only if it was empty. `UpdateKeepsDict` lifts this to the dictionary.
Each transaction is then a chain of updates, and one lemma per transaction
(`ChangeCollateralSettles` ... `DeleverageSettles`) follows the chain. The bound
on the number of assets is the interesting part of `AddAssetKeepsAssets`: the
code compares for *equality* with the maximum plus one, and is right only
because a position that is within the limit grows by at most one.

**Sums.** `SumFunctionOnSet` is a fold, defined by recursion. `SumTheorems`
unfolds it to the table of the sums over all subsets of a finite set
(`IsSumTable`) and shows by induction on the size of the subset that the table
exists and is unique. The library's induction theorems take an operator, which the
provers cannot instantiate; `NaturalInduction` says the same of a *set* of good
numbers and is proved from well-foundedness. From there on: the sum takes any
element first (`SumTakesAny`), is linear and monotone, changes by what one element
changes (`SumAfterChange`), and two sums may be exchanged (`SumByColumns`).

**The argument of `LedgerProofs`: sums.** `LedgerInv` is `IndInv` with
`SyntheticsNetToZero` and `FundingNeverMints`; neither of these is inductive
without `IndInv`, which says that the indices an update reads exist, and
`FundingNeverMints` needs `SyntheticsNetToZero`: at a tick, the funding that all
positions owe for an asset changes by the index difference times the sum of the
balances (`TickTakesPaid`, `TickKeepsWorth`), and that is 0. Between ticks the proof
follows the worth of a position, its collateral minus what it owes, in units of
`1 / FXP_32_ONE`. Settling funding replaces the debt by its floor, so the worth
goes down by less than a unit and never up (`FundedCollateralIsFloor`,
`FundingGains`); the rest of an update changes it by whole units and the asset's
balance by whole amounts (`UpdateGains`). `Moves` sums this over the dictionary: after
an update, the total has gained what the request asked for and lost roundings
only. `MovesCompose` chains updates, and one lemma per transaction
(`TradeMoves` ... `DeleverageMoves`) shows that the gains of a transaction cancel,
whichever of its positions coincide, or are the modification that is output. The
same chain gives the refinement: `RefinesTransact` maps every transaction to a step
of `FundedLedger` in which claims move by whole units and those who take part lose
less than one, `RefinesAccrue` maps a funding tick to the step in which everybody
pays, `RefinesStutter` a tick of prices to none.

**The argument of `LedgerProofs`: margins.** Value and risk of a position read nothing but
its balances and collateral (`StatusReadsBalances`), so a position that already has
settled is judged alike before and after settling again (`SettlingAgain`).
`LegalKeepsMargin` is about the transition check: if it passes, a well leveraged
position stays so, although the check has a branch for positions that were not:
there, the ratio of value to risk must not fall (`RatioStaysAbove`, products on
both sides of an inequality), and a position without risk stays without
(`NoRiskStaysNone`). A transaction is again a chain of updates. The updates of one
transaction are judged by the market of its begin, which no transaction changes.

`DeleverageIsTight` compares the transaction with one that did not happen. The
assertion of the code says that *value times previous risk* is less than one unit of
collateral above the bound; `TightArithmetic` turns this into what the transition
check computes for one unit less, and `TightRefusesUnitLess` concludes that both
of its branches refuse. For `SeizureOnlyShrinks`, an update changes
only the balance it names (`UpdateBalances`), limit orders and forced trades have
their owners' agreement, and a liquidation covers at most the balance
(`CoveredSizeShrinks`). `DeleveragedShrinks` is the interesting part: the transition
check has let the deleveraged position pass either because it came out smaller, and
then the balance has shrunk, or because it came out well leveraged, and then a
position that was worth less than nothing is left less than a unit by tightness.

### Of the spot exchange

`DexProofs` proves, from `DexAssumption`, `RejectedAssumption`,
`RequestsAssumption` and `VolitionAssumption` of `Dex`:

| theorem | statement |
|---|---|
| `DexInvariant` | `Spec => []DexInv` |
| `NoTokenMadeOrLost` | `Spec => []TokensConserved` |
| `TermsHoldOverFills` | `Spec => []OrderTermsHoldOverFills` |
| `HintsAreLeast` | `Spec => []L1InitialBalanceIsLeast` |
| `VaultsAreNamed` | `Spec => []L1VaultsNamedByOrders` |
| `SettlementsAreProvable` | `Spec => []EverySettlementIsProvable` |
| `RequestsAreClosedRight` | `Spec => RequestsClosedRight` |
| `RequestsAreAnswerable` | `Spec => []RequestsCanBeClosed` |
| `PublishedDataIsEnough` | `Spec => []PublishedDataRestoresRollup` |

**What is assumed.** `RejectedAssumption` says that the value that stands for a failed
assertion is no dictionary and no access. `RequestsAssumption` gives the fields of
requests their ranges and relates ids: two orders of one id have the same
`SignedTerms`, and no transfer has the id of an order. The code makes it so, since
an order id *is* the hash of the message (`verify_order_id.cairo`), the message
covers the terms but not the key of the signer, and orders and transfers have
different types in it; what is assumed is that the hash has no collision there.
Orders of one id may differ in who signs them, and be on either layer. An L1 order
has a fee object, which the hints assert. The trees are finite.
`VolitionAssumption` (only the last theorem uses it) has the widths of the fields
of a published change positive, and the ids of rollup vaults within their field:
`volition.cairo` gives the index 31 bits and asserts nothing of it, so it is the
height of the rollup tree, which is part of the output, that keeps it there. The
same is not assumed of the tables: that they are shorter than their bounds is a
guard of `EndBatch`, as the program asserts it.

**The argument.** `DexInv` has the types, three of the properties, and `Agree`: of
every L1 vault, the hint's running balance is how far the program moved it, and the
hint's minimum is the program's lowest. This is what `L1InitialBalanceIsLeast` needs;
without it the property is not inductive, as nothing in it fixes the hint's
`current_balance`.

The program and the hints are folds over lists of changes. `FoldHasTrace` replaces
a fold by the sequence of its intermediate values, and a few lemmas spell out
traces of the lengths that occur: two vaults and at most two more for the fee
(`OrderOnL2`, `OrderOnL1`), two parties, and two or four changes of a transfer. Every
access moves the balance of one vault by its difference and leaves the token or
makes the vault empty (`AccessGains`), so a settlement adds to each token what its
changes say; the fee leaves one vault and enters another, and what A sells B buys
(`SettlementBalances`). Nothing is assumed about which of the vaults coincide.
`FillKeepsTerms` adds one fill to the products that state the terms.
`L1VaultsNamedByOrders` reads the keys along the trace. That the contract's
difference is the program's is arithmetic of the packed action (`LowPart`,
`ActionTellsDifference`): the biased difference stays below the shift because
both balances are in range.

`EverySettlementIsProvable` compares two folds. The batcher's run is followed beside
the program's (`ChangeIsWitnessed`): after each change of an L2 vault, the record
holds the state before it, and squashing the access with *that* balance gives the
batcher's vaults. What remains is that the hints find it: the record only grows, so
the entry that belongs to a change stays where it was (`RunsGoOn`, `WitnessFound`,
`OrderKeepsRecord`); party A's changes precede party B's, and an L1 order leaves no
entry but the one of its fee destination (`PickedBalances`). `OrderIsWitnessed` and
`SettlementIsWitnessed` put that together for the four mixes of layers with and
without fees; the L1 side follows from `Agree` after the settlement.

`RequestsCanBeClosed` is about two actions that can be taken. An access that begins
with the vault as it is always passes `squash_dict`. If the key of the request is the
vault's, the owner's answer empties it: the balance is in range, and what leaves the
vault is added to what users hold outside, which `DexInv` has as a natural number, so
the guard that keeps deposits covered holds too. If it is not,
`execute_false_full_withdrawal` shows the vault as it is, and its one assertion on
keys holds. It needs that a vault in the dictionary has the fields of a vault, or is
the empty one with key 0, which no requester has.

`PublishedDataRestoresRollup` is kept together with the type of the dictionary that
the batch started from (`Published`). A finite set of numbers can be sorted, the
greatest last (`SetsCanBeSorted`), and a strictly increasing sequence of as many
elements misses none (`SortedLists`, by counting), so every changed vault has a
place in the words and its key and token have an index. A field in range can be
taken off a packed number and leaves what was under it (`LowPart`, `HighPart`), and
two fields fill no more than the room of both (`RoomOfTwo`): a change and a word are
read as they were written (`ChangeIsRead`, `WordIsRead`), also the last word of
an odd number of changes, which has its change twice. The reader's fold then
goes over the words (`WordsAreRead`): after word `w` the first `2w` changes are in,
and no other vault was touched. A vault that no word has did not change
(`EndBatchPublishes`), which needs all three comparisons of `FullUpdates`.

### Of the signed messages

`MessagesProofs` proves, from `BoundsAssumption`, `ValuesAssumption` and
`PaddingAssumption` of `PerpetualMessages` (positive widths, values within the
bounds that `perpetual_messages.py` asserts, and the paddings that
`signature_message_hashes.cairo` asserts to add up; a packed price takes less room than
the body of another message, in the code 152 bits of 241). The price of a
transaction may have any of the times that can be signed, and `TIMESTAMP_BOUND`:

| theorem | statement |
|---|---|
| `SignedTermsOnly` | `Spec => []ExecutedTermsWereRequested` |
| `SignedRequestsExecutable` | `Spec => []RequestsCanBeExecuted` |

The argument: appending a field to a packed number is injective when the field is
below its bound (`AppendInjective`), so each packing function is. With the padding,
the last packed number of every message lies between its type and the next type
times one common factor (`AppendRange`), so two messages of different types
differ; prices, which have no type, lie below all of them, also one at
`TIMESTAMP_BOUND`. The nesting of the hash does the rest: a message has the shape of
its kind. Hence a request and a transaction of one message have the same terms
(`SameMessageSameTerms`), with the exception that the property states: the time
`TIMESTAMP_BOUND` is not below the bound of its field, and such a price *is*, packed, the
next price at time 0 (`SignedFor`). The
inductive invariant `MessagesInv` adds that what is signed are the messages of
what was requested. The arithmetic of the widths is not assumed to be powers of
two; only that products agree, which is what the code's assertions say.

### Of configurations and prices

`PricesProofs` proves, from `ConfigsAssumption`, `PricesAssumption` and
`FixedPointAssumption` of `ConfiguredPrices`:

| theorem | statement |
|---|---|
| `ApprovedIsAccepted` | `Spec => []OnlyTheApprovedIsAccepted` |
| `PricesAreBacked` | `Spec => AcceptedPricesAreBacked` |
| `QuorumHasPrice` | `Spec => []QuorumGivesPrice` |

**What is assumed.** Configurations have fields of the types that the YAML files
have, risks below their bound, a quorum of at least 1, and no asset twice under
two spellings of its id (`0x1` and `0x01`): `validate_assets_config` lets no batch
run under another, and the theorems are about configurations that are meant to
run. Signers, prices and times that are asked for are natural numbers, a key is
positive, and `MaxTime` lies below `TIMESTAMP_BOUND`, as in the run *prices*. Nothing is
assumed of how many configurations, assets, signers or signatures there are, of
their digits, or of the sizes of the bounds. The Pedersen hash is a pair, so that
no two lists of words collide; what is proved is that the *lists* differ.

**The argument.** The script folds over the fields with their number as a last
string in base 10, the program folds over words and counts them. A fold is again
replaced by the sequence of its values (`IsTrail`), and both come to a digest
(`IsChain`, `HasDigest`) once the decimal digits of a number are known to have its
value: `decimal` is a recursive function, and `DecimalIs` derives its recursion from a
table of the digits of all numbers up to some one. A digest determines its words from
the last to the first (`DigestTellsApart`); the count comes last, so a word is never
taken for a count. The words of an asset determine its fields, since each list
comes after its length (`AssetWordsTellApart`), and a segment of risk below the bound
can be read off its packed number. Both sides hash the same words
(`AssetFieldsAreWords`, `HashesAgree`) and a padded id has the value of the id
(`PaddedIsId`). The inductive invariant `RegistryOfApproved` says that what is registered
are the hashes of what was approved, asset by asset.

For prices, `SignedInRange` adds that what was signed is within the bounds that the
command line asserts, and that one general configuration is in force. Then a
verified signature with a time that the batch can have *is* one that was made
(`AcceptedIsSigned`): the other reading of a price message has time
`TIMESTAMP_BOUND`. Keys that increase from one signature to the next are all
different, so as many signatures are as many signers, and half of a list of at least
a quorum is at least half of a quorum (`ProvableIsBacked`). Every price between a
minimal and a maximal provable one then has half of a quorum on either side too. Conversely a
finite set of signers can be listed in the order of their keys (`SetsCanBeSorted`), and
the least price that half of a list does not exceed has the other half at or above
it (`MedianExists`), however prices tie.

### Of the asynchronous helpers

`AsyncProofs` proves, from `ChunksAssumption` alone (any number of commands, a
positive chunk size, shell commands of at least one part) and without fairness:

| theorem | statement |
|---|---|
| `ChunksAreBounded` | `Spec => []ChunksOneByOne` |
| `TeardownReveals` | `Spec => []TeardownRevealsFailures` |
| `ResultsComeInOrder` | `Spec => []GatheredInOrder` |

`ChunksOneByOne` does not mention the generator's position, so it is not
inductive. `ChunkInv` adds it: whole chunks have been taken, the current chunk is
the last of them, commands after it are new, commands before it are done, and
while results are handed out the current one is done too. Commands under way are
then in an interval of `chunk_size` numbers, and the chunks before that of a
started command end before the current chunk begins (`EarlierChunks`). That a
failed chunk leaves commands behind does no harm because `gather` then never
succeeds and no next chunk is taken. `TeardownInv` adds that the futures awaited so
far ended without failure and the one that ended the teardown with one, that an ended future is never started again, and which
futures a teardown was given: the job only if it was submitted by then.
`GatheredInOrder` needs `ChunkInv` and two more: `ResultsInv` relates the number of
results handed out to the state of the generator and the consumer (how far within
the current chunk it is, and that all before it were taken), and `ShellInv` that a
command that is done has the return code 0 of a process of which no part failed.

### Of the signature library

`SignatureProofs` proves, from `CurvesAssumption`, `GroupAssumption` and
`InputsAssumption` of `Signature`:

| theorem | statement |
|---|---|
| `SignatureInvariant` | `Spec => []SignatureInv` |
| `VerificationIsEcdsa` | `Spec => []VerifyIsEcdsa` |
| `OwnSignaturesAccepted` | `Spec => []OwnSignatureAccepted` |
| `KeysAreMultiples` | `Spec => []MultiplesOfGeneratorExist` |
| `FastHashIsTheHash` | `Spec => []FastHashIsPedersenHash` |

They hold for every field and curve that satisfies the assumptions, the real one
included, every choice of six base points, every key, nonce, message, signature and
pair of elements.

**What is assumed.** `CurvesAssumption`: the field prime and the order are primes, the
order lies between the power of two below the field prime and the field prime, and the
low part of an element is neither empty nor all of it. `nothing_up_my_sleeve_gen.py`
has these as constants (lines 30-42) and gives the search that found `BETA` (lines
58-71): the least that makes a curve of prime order that is not singular.
`GroupAssumption` is the mathematics that this relies on and that no prover here has:
the points of such a curve with `ec_safe_add` are a commutative group of that
order, which annihilates them. It is stated of the operators of `FieldMath` themselves
(closure, commutativity, associativity, the order), nothing more: that infinity is
neutral, that two points of one x are equal or opposite, that multiples add up, that a
finite point has that order exactly, all follow. TLC evaluates both assumptions on the
two curves of the run *signature*. `InputsAssumption`: digits, messages and elements
are natural numbers, replaced signatures are pairs of integers.

**Recursion.** `power2`, both multiplications, the doublings of a point, the rounds of
`AddByBits` and the hash are recursive functions, which TLA+ defines by `CHOOSE`: of
each it has to be shown that a function satisfies its equation. `RecursionExists` does
it once, for any equation whose right side looks at smaller arguments only
(`LooksBelow`), by induction over the set of lengths that a partial solution can have;
`IterationExists` and `HalvingExists` are its two uses, one step back and half way back.

**Arithmetic.** A number below a prime has an inverse (`InverseExists`: the least
positive residue of its multiples divides the prime), only one, and the
product of two such is not 0, so `igcdex` and `div_mod` do what they promise
(`IgcdexIs`, `QuotientIs`) and a residue has at most two square roots
(`SquaresEqual`): the two points of one x.

**Multiples.** `ec_safe_mult` halves and decrements. `MultipleRecurs` turns that into
its equation, `MultipleNext` by strong induction into one addition more per
multiple, and from there a multiple of a sum, of a product and modulo the order are
inductions on sets of numbers. The code's own `ec_mult`, `ec_add` and `ec_double` are
partial. `PartialAdd` and `PartialDouble` say where they fail: at equal x, and never at
a finite point, which would have order 2. `PartialMultiple` then shows that for a
multiplier below the order `ec_mult` meets neither: at each odd step the multiple
added to is neither the point nor its opposite, because the order is a prime above.

**Sums over bits.** `RoundsAdd` follows `AddByBits`: after `i` rounds without failure
the sum is the start plus the multiple by the low `i` bits, if the points are the
doublings of one point from some place on. `mimic_ec_mult_air` is one such pass, an
element of the hash two of them, since its low and its high part have base points of
their own (`ElementAdds`); once failed, a sum stays failed (`FailureStays`). With
`AddSwaps` the two hashes are one sum in two orders (`HashesAgree`), whatever the
number of bits on either side.
That the constant points are where the code looks for them is `ConstantPointsAre`.

**Signing and verification.** `MimicIs` says that a pass fails only if `AirMeets`, and
otherwise gives the finite point of the group. `VerifyPointIs` does the same for all of
`verify`: the two shifts cancel (`ShiftIs`), so what remains at the end is `w (m G + r Q)`,
and each of the five ways to fail is a disjunct of `VerificationMeets`. A failure
rejects, so *accepted* needs no exception. `EquationIs` compares with the
textbook form, with its factors reduced modulo the order. A key that is an x alone
stands for two points or none (`PointsOfResidue`), which are the ones that `verify`
tries and the ones that `random_ec_point` draws (`DrawnPointsAre`). `SignatureIs`: the `w`
that `verify` computes of `s` is the one `sign` inverted, since inverses are unique, hence
`w (m + r key)` is the nonce modulo the order and the equation holds (`SignedHolds`).
`SignatureInv` keeps where a signature, a verdict and a hash come from; the properties
speak of the values only and none is inductive by itself. Message 0 is excluded where
`mimic_ec_mult_air` excludes it (see [below](#where-comments-and-code-differ)).

### Model-checked only

`EveryWaitEnds` is liveness, which is out of the prover's reach. Of all other
properties of the passing runs, the theorems above hold for all values of the
constants.

Invariants of every run are checked by TLC as well; the theorems and the runs state
the same definitions.

## Where comments and code differ

* `transactions/execute_limit_order.cairo:36` assumes "Fee doesn't have
  synthetic assets and cannot participate in an order." Limit orders of the fee
  position are refused, but `transactions/forced_trade.cairo` only asserts that
  its two positions differ, so the fee position may take part in a forced trade
  and come to hold a synthetic asset (run *fee_position*). The invariants above
  hold nevertheless; *listing* has such a fee position.
* `position/position.cairo:23` says "The invariant is that every position we
  change must have the correct funding_timestamp." A position that becomes
  empty is replaced by the canonical empty position with timestamp 0 (run
  *timestamp*). It has no assets, so no index is looked up under that
  timestamp: `CachedIndicesPublished` is the form of the statement that holds.

* `starkware/crypto/signature/signature.py:141` takes message 0 for signable
  ("Message not signable." is for others), and the precondition of `verify`, line
  227, admits it. `mimic_ec_mult_air`, line 181, asserts `0 < m`, so `verify` rejects
  every signature of message 0 that `sign` makes (run *zero_message*). All else
  that `sign` makes is accepted, unless the circuit fails.

* `services/perpetual/public/perpetual_messages.py:323` packs a price with "timestamp in the
  32 LSB, then the price", and line 316 asserts that it fits. `oracle/oracle_price.cairo:93`
  compares the time of a price with `TIMESTAMP_BOUND`, 2^32, inclusively. At 2^32 itself
  the message is that of the next price at time 0, so the program
  takes a price for signed that is one external unit below the signed one, at
  a time 2^32 after it. `ExecutedTermsWereRequested` states the
  exception; all other times are told apart (`SignedTermsOnly`). A batch
  admits such a price only if its end time is at least 2^32, in the year 2106.

* `starkware/python/utils.py:377` says that `cancel_futures` "Cancels given futures and
  awaits on them in order to reveal exceptions." The first exception other than a
  cancellation leaves its loop, so the futures after that one are not awaited: the
  teardown may end while they still run, and their exceptions stay hidden. What holds is
  `TeardownRevealsFailures`: a teardown that *returns* has awaited them all, and one that
  raises does so for the first that failed.

* `definitions/constants.cairo:13` says "A valid balance satisfies BALANCE_LOWER_BOUND <
  balance < BALANCE_UPPER_BOUND." `check_valid_balance` (`position/position.cairo:76-80`, and its
  comment) includes the lower bound. Collateral may so be at that bound. A synthetic
  balance may not: `get_risk_factor` (`definitions/general_config.cairo:59`) aborts there.
  `PositionsWithinLimits` says both; the model follows the code.

Two requests that `perpetual_messages.py` admits have no transaction that carries
them out, and are excluded in `Executable`: a conditional transfer of condition 0
(its assertion at line 41 allows 0, `transfer_hash` then hashes a transfer), and a
withdrawal to an address that equals the signer's own key.

## What is not modelled

* In `Perpetual`: signatures, nonces and expiration times. A request of a user
  is taken to be valid when it is used; `PerpetualMessages` and `Signature` say what
  a signature is worth. Hash collisions appear as order ids that several requests
  share, and nowhere else.
* That a price of a tick lies between the signed prices is in `ConfiguredPrices`,
  not composed with the positions: in `Perpetual` a tick may set any of
  `PriceValues`.
* What surrounds a batch of the perpetual program: Merkle roots, squashing of
  dictionaries, the check that every published index belongs to the configuration.
  Positions, orders and the market are carried from batch to batch unchanged,
  so a behaviour of the model is a concatenation of batches.
* Of its output: conditions, forced action records, owner keys of modifications,
  and the bit layout of position changes. Which error code a refused update carries.
* Of the spot exchange: the Merkle and Patricia updates (the trees are the
  dictionaries), signatures, expirations, order hashes, conditional transfers'
  conditions, and how the output is cut into pages. L1 vaults have no balance of
  their own: the contract checks that they cover the least initial balance.
* Of the signature library: `grind_key`, RFC 6979 itself, and the JavaScript
  versions of messages and signatures.
* Of the Python utilities: stateless helpers (strings, files, dictionaries), the
  Merkle tree, which nothing in the repository uses, and the JSON-RPC client,
  which only encodes calls. Build files, scripts and program hash tests.

## Plan

Done and proved: the perpetual program with its refinement, the spot exchange,
messages, configuration and prices, signatures, and the asynchronous utilities. Left,
in this order:

1. The batch around the perpetual transactions (`execute_batch.cairo`, `main.cairo`,
   `output/`): end time, configuration checks, the data availability output; an
   abstract `Replica` that applies the outputs of all batches, implemented by it.
2. The fills of one perpetual order: what its owner paid in total is within the
   signed ratio up to one unit per fill.
3. Composition of `ConfiguredPrices` with the prices tick of `Perpetual`.
