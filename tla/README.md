# TradeOff: a verification project

TLA+ models of TradeOff, a spot exchange: a FastAPI backend (`src/backend/app`)
with an in-memory matching engine, PostgreSQL wallets and orders, background
jobs under Celery, and a React frontend. The models are checked with TLC; some
of what TLC confirms on small instances is proved for all instances with TLAPS.

Contents: 1 the system, 2 the modules, 3 the runs, 4 what the runs found,
5 proofs, 6 limits of the models, 7 the plan.

## 1. The system

Paths are below `src/backend/app`.

| Component | State | Operations | Correct when |
|---|---|---|---|
| Matching engine (`core/matching_engine`) | per pair: price levels (FIFO queues with a running total), index of resting orders, stop book, pending triggered stops, last price | `process_order`, `get_pending_stop_orders`, `cancel_order` | the book is sorted, indexed, uncrossed; priority is kept; FOK is all or nothing; an order is in one place; calls return |
| Order placement and settlement (`api/v1/trading.py`, `services/wallet_service.py`) | rows of `orders`, `trades`, `user_wallets` (available, locked), `ledger_entries`; the engine above | place market, limit, stop; settle; run triggered stops; cancel | money is conserved; promises of the book are backed by locked funds; rows agree with trades; requests end |
| Deposits and withdrawals (`api/v1/wallets.py`) | rows of `deposits`, `withdrawals`, the wallet, the ledger | create and confirm a deposit; create, approve, broadcast, complete, cancel a withdrawal | a deposit is credited once; a withdrawal is paid or released, never both; large ones are approved |
| Reconciliation (`services/reconciliation_service.py`) | one report row | compare ledger sums with wallets | the sums agree |
| Risk limits (`services/risk_service.py`) | rows of `risk_limits` | count open orders before a reserve | the limit holds but for orders that were checked side by side |
| Copy trading (`services/copy_trading_service.py`, `api/v1/copy_trading.py`) | relations, copied orders | follow, unfollow, replicate a leader's limit order | one copy per follower and leader order; a follower's failure leaves reserves and rows right |
| Jobs (`tasks/jobs.py`, `services/outbox_service.py`, `services/notification_service.py`) | outbox events, notifications, the broker's tasks | publish the outbox, deliver notifications, reconcile, aggregate candles | events get out only after their commit, once but for crashes, and settle; a worker's death loses no notification |
| Event producer (`events/kafka_producer.py`) | a connection | start, produce | it accepts or raises |
| Liquidity desk (`api/v1/demo.py`, `main.py`) | its orders in the engine, rows and wallet | top up, fill the ladder, put orders back | every level is quoted again; nobody's reserve is touched |
| Chain settlement (`services/blockchain_service.py`, `api/v1/blockchain.py`, `src/blockchain/contracts`) | the service's connection, one account's nonce, the node's pool, two contracts | link, settle, claim tokens, verify | a trade is settled once, a claim minted once, answers are true, the nonce has no gaps |
| Sessions (`api/v1/auth.py`, `utils/security.py`) | rows of `sessions`, Redis blacklist | login, refresh, logout | a refresh token is used once |
| Realtime (`realtime/manager.py`) | sockets and subscriptions | connect, subscribe, publish | a dead socket is dropped, others still get messages |
| Rate limiting (`middleware/rate_limit.py`) | counters in Redis or memory | count a request | a window admits at most its limit |
| Market data, portfolio, admin, analytics, AI, frontend | queries, single-row updates, external services | | not state machines of interest here |

How they interact. A request handler is a coroutine with one database session:
`get_db` commits when the handler returns and rolls back when it raises. All
handlers of the API process share the engines in memory (`_engines`), which no
rollback undoes. A wallet row is changed only under `SELECT ... FOR UPDATE`.
Reserves of orders and of withdrawals share one `locked` column per wallet. The
desk's periodic task and the bootstrap route put orders into the same
engines and wallets. A leader's limit order and its copies are one transaction.
Completed deposits and withdrawals put a task into the broker; Celery workers,
processes of their own, run it and publish the outbox. Chain calls run in
threads and share the deployer's account. After a restart of the API the engines
are empty.

What is hard. Handlers interleave at every await of the database or of Kafka
and Redis. The engine matches at once and the database follows later, or never.
Foreign keys and `FOR UPDATE` with a join take row locks nobody wrote down.
Wallets are locked in buyer-seller order, so transactions may deadlock. Stops
triggered by one user's order run in that user's transaction, and so do the
copies of a leader's order. The desk's runs meet trades that have matched and
not committed. Workers see only what is committed, and may be called before.
A chain call that has timed out may still be mined. The list
`hazards` of PROJECT.json has each of these at its line.

## 2. The modules

**MatchingEngine** models `orders.py`, `order_book.py` and `engine.py` of one
pair. `process_order` holds a lock and never awaits, so it is atomic for its
callers; it is modelled as a run of small steps (one per turn of the matching
loop, one per price of the stop sweep) during which no entry point is enabled.
This avoids recursion and shows the intermediate states to the invariants.

A quote budget is divided by each maker's price (`QuoteFill`). What the division
leaves over is a rounding error: the loop buys crumbs with it, trades of less
than a unit, until the quotient is 0, and from then on each turn pops a maker and
drops it (`DropMaker`). How many crumbs that takes depends on the digits of
Decimal and is the constant `DustTurns`; whether the rounding of quotient and
product happens to close the budget instead is a choice (`RoundsOff`).

| Code | Model |
|---|---|
| `EngineOrder` | `order[o]` |
| `OrderBook.bids/asks`, `PriceLevel.total_quantity` | `levels[side][price]`, `totals[side][price]` |
| `orders_by_id`, `stop_buy/stop_sell` | `ordersById`, `stops[side][price]` |
| `_pending_stop_orders`, lists handed out | `pendingStops`, `batches` |
| locals of `process_order` | `pc`, `taker`, `remaining`, `quoteRemaining`, `result` |
| `_process_order_sync` before the loops | `Expire`, `KillFillOrKill`, `StartMatching`, `RestStop` |
| the two loops and their ends | `MatchLimit`, `MatchMarket`, `DropMaker`, `FinishLimit`, `FinishMarket` |
| `check_stop_orders` | `FireStops`, `EndCall` |
| callers | `Submit`, `GetPendingStops`, `SubmitTriggered`, `SkipTriggered`, `LoseBatch`, `CancelOrder` |

**Withdrawals** models the deposit and withdrawal handlers of `wallets.py` on
one wallet, with an order of the same user that reserves and releases in the
same row. Every handler that takes the row lock is one action. `approve_withdrawal`
reads without a lock and writes at commit, so it is two (`ApproveRead`,
`ApproveCommit`), with `ApproveLost` for a request that dies between them. An
order's funds may be released twice, each time in an amount the caller works out
(trading.py:331 for the rest of a market sell, 469 when it is cancelled);
`overdrawn` is what releases took beyond what their own order had reserved.

**Trading** composes `MatchingEngine` (`Engine == INSTANCE ...`) with the
transactions around it. Each order id is also the task that places it; cancels
are tasks of their own. `task[t].stage` says at which await a task stands:

| Stage | The task is about to ... | Actions |
|---|---|---|
| ready | read the market and the risk limits | `Begin`, `CancelSelect` |
| reserve | lock the wallet, reserve, run the engine | `Reserve`, `Refuse`, then `EngineRuns` |
| insert | write and flush the order row | `Insert` |
| settle | lock the four wallets of a trade and move funds | `LockWallet`, `Transfer`, `Short` |
| flush | insert the trade, read the maker's row | `FlushTrade`, `NoMaker` |
| write | write the maker's row | `WriteMaker` |
| release | release what is not needed | `Release`, `NoRelease`, `EmptyRelease` |
| stops, trigger, fire | take triggered stops, mark one, process it | `TakeStops`, `SkipStop`, `Trigger`, `Fire` |
| pair | (cancel) lock the pair's row, cancel in the engine | `CancelOrder` |
| commit | commit | `Commit` |

Row locks have the three strengths the code's statements use: `FOR UPDATE`
(cancel, trigger), `NO KEY UPDATE` (an UPDATE) and `KEY SHARE` (the foreign keys
of orders and trades). The order cancel reads is joined with its pair, so it
locks the pair's row as well; every request that has inserted an order shares
that row. `Blockers(t)` is whom a task waits for; it is the guard of the actions
and the edge of the deadlock graph. Wallet values are kept in place and as last
committed; order rows as committed and as drafted by each task (READ COMMITTED).
`Fail` rolls a task back at any await; `Restart` empties the engine. A settlement
goes on when a side lacks little of what it owes (`ReserveOk`; `Tolerance` is
1 / `_SETTLE_TOLERANCE`), takes what is locked (`Taken`) and credits the other
side in full; `made` adds up the difference. A trade of 0 quantity, which the
engine makes of a crumb, fails on the ledger's check (`EmptyTrade`).

**Delivery** models what requests leave to the workers. A transfer's creating
transaction adds an outbox event, its completing one a notification.

| Code | Model |
|---|---|
| `create_mock_deposit`, `create_withdrawal` and their commit | `Create`, `CommitCreation` |
| `confirm_deposit`, `complete_withdrawal`, `delay`, commit | `Complete`, `Dispatch`, `CommitCompletion` |
| select `FOR UPDATE SKIP LOCKED`, produce each, commit | `StartRun`, `Produce`, `ProduceFails`, `CommitRun` |
| `_send_notification` | `FindNothing`, `SendOut`, `FinishTask` |
| death of a worker; `task_acks_late` | `LoseRun`, `LoseTask` |

`Dispatch` is the whole end of `create_notification`: the task goes to the broker
and the notification to the user's channel, both before the commit. `produced`,
`undone`, `sent`, `told` and `early` are history: what left the system by a worker,
what was repeated because a run was lost, what the user's channel was told, which
tasks ran before the commit.
**EventLog** is the abstract specification of the outbox: an event shows from
its commit on, PUBLISHED only after it was given to Kafka, and both ends final.
`Log` in Delivery maps rows that nobody can see yet to "absent".

**ChainSettlement** models the chain routes, the threads of
`settle_trade_on_chain` and `faucet_tokens` (`ReadNonce`, `Send`, `SendRefused`,
`ReadReceipt`, `TimeOut`, `NodeFails`), the node's pool (`Mine`) and the two
contract functions. `EnsureInit` keeps what the first request found for good.
`LinkWallet` accepts any address, the zero address (`Zero`) too, for which the
token's `_mint` reverts; a settlement names it for a user who linked none.
All failures of a thread are one answer, `none`, as in the code.

**Exchange** is what desk and copies share: book, rows, wallets, transactions.
It is coarser than Trading: a trade is settled in one step once the desk's
wallet is locked, row locks other than the wallets' are left out (Trading has
them), only wallets that orders reserve from are kept, and a settlement finds the
reserve whole or fails (its tolerance is Trading's subject). Clients buy at one
limit (`BidCost`, taker fee included) from the desk's levels, none of which costs
more (`AskCost`): they reserve at the limit (`ReserveOf`), pay the level's price
(`CostOf`), and what is between stays locked. **MarketMaker** is a run of the desk on it
(`topup_liquidity_balance` is `StartRun`, `TopUp`, `WalletTaken`;
`ensure_liquidity_order` is `Satisfied`, `AddAgain`, `Miss`, `Place`,
`DeskShort`). **CopyTrading** is a client's limit order with its copies (`Begin`
is the risk check; `Reserve` to `EndPlacement` go through `persist_result`;
`SkipPoor`, `SkipViolated`, `SkipCopy` are the ways a copy is passed over),
cancelling, and the follow routes. **HouseOrders** composes both with failing
tasks and restarts.

History variables of HouseOrders name the excuses of its properties: `lost` has
orders with a fill no transaction kept, `crowded` orders whose risk check
overlapped another of the user, `raced` follow requests that overlapped.

**MC modules** give the constants small values. The theorems are in modules of
their own: **MatchingEngineProofs** (types, the uncrossed book, which list holds
which order, quantities), **TradingProofs** (types and money), **FillsProofs**
(what is settled of an order), **WithdrawalsProofs**, **DeliveryProofs**,
**ChainSettlementProofs**, **HouseOrdersProofs**, and **SumTheorems**, the lemmas
on sums they share.

## 3. The runs

| Run | Instance | What it shows |
|---|---|---|
| matching_engine | 4 orders: limits of all times in force and an iceberg, or resting, market (one budget that price 2 does not divide) and stop orders; prices 1-2, sizes 1-3 | the book's structure in every intermediate state; calls return |
| withdrawals | 2 withdrawals, 2 deposits, 1 order released up to twice, 2 administrators | what survives every race on one wallet |
| trading | 3 orders of two users at prices 2-3, 1 cancel, failures, 1 restart; a settlement may lack half | transactions around the engine |
| delivery | 3 transfers, batches of 2, 1 notification, 2 workers, 2 attempts, 1 loss | what leaves the system, how often, and that it does |
| chain_settlement | 3 calls of a user, 1 trade, 1 address and the zero address | one account shared by threads that time out |
| house_orders | a leader's order, the desk's runs, and any 2 of: a bootstrap, an order of the other leader, a follow, an unfollow, a cancel, a failed task, a restart | desk, copies and clients in one book |
| time_priority, limit_orders_rest | as matching_engine | section 4 |
| withdrawal_reserve, ledger_reconciles | as withdrawals, the first without the order | section 4 |
| rows_match_trades, terminal_rows | as trading, without a restart | section 4 |

Properties of the engine. `NotCrossed`; `BookIndexed` (index and levels agree,
each order once); `DepthExact` (the running totals); `FillOrKill` (preflight and
loop agree); `PricePriority`; `OpenOrdersRest` (an open order is on the book
unless a quote budget was sent against its side; run limit_orders_rest shows what
happens then); `FillsBalance`; `HeldOnce`; `TerminalIsFinal`; `CallReturns`, of
budgets that do not divide as well.

Properties of the wallet. `FundsConserved` (the balance is what deposits and
withdrawals make it, so a deposit confirmed again is not credited again);
`AdminGate`; `EndsOnce` (released or paid once, never both); `ReservesCovered` (nothing is locked that nobody reserved, and what
is missing is no more than order releases overdrew: cancels and completions take
nobody else's). The last two leave out withdrawals that a stale approval has
overwritten (variable `overwritten`); run withdrawal_reserve shows what happens to
those, and has no order, so that a release is not the reason.

Properties of trading. `FundsConserved` (every unit is deposited, charged as a fee
or paid out by a settlement that took less than it credited, `made`: committed,
and in place with what is in flight); `NothingMade` (`made` stays 0 as long as
nothing has left reserves short, so the clamp alone makes no money);
`NeverOversettled` (no more of an order without a quote budget is settled
than was asked for); `Backed` (locked funds cover resting orders,
waiting stops and unsettled trades); `RequestsEnd`. `Backed` and `NothingMade` are
claimed only until
an event the code does not guard against (variable `exposed`): a request that
fails after the engine has acted, a cancel of an order that is not on the book or
is being filled, a triggered stop-market buy, a market sell with a quote budget
(`OverReserve`). Each breaks `Backed`, and with a release that came too early a
settlement within the tolerance makes money: `FundsConserved` counts it.

Properties of delivery. `NoPhantoms` (workers pass on nothing of an uncommitted
transaction; the user's channel, which the request itself tells before its commit,
is not claimed); `HandedOnce` (an event is handed over once, and once more for each run
lost after it); `LostOnlyIfEarly` (a notification is lost only if its task ran
before the commit, which the code allows, and then the channel was told);
`EventsSettle`; `ImplementsLog`.

Properties of the chain. `SettledOnce`; `MintedOnce`; `AnswersTrue` (confirmed
means this very call is what verify shows, failed that it never will be and that a
claim holds nothing, which is how a claim for the zero address ends);
`NextIsMinable` (no transaction waits behind a nonce nobody sends: because
the nonce counts mined transactions only, threads that share it replace or
refuse each other, which is why an answer may be none); `CallsAnswered`. `MintedOnce`
is about one call: a client that repeats a claim after a timeout makes a new one.

Properties of house orders. `ReservesKept` (a client has locked what the open rests
of his rows need, `OpenRest`, and what he reserved for fills and no trade took,
`Untaken`: price improvement and fills nobody settled, whatever fails; the desk's
are exact as long as no fill of its own was lost); `RowsExact` (but
for `lost`); `CopiesOnce` (but for `raced`); `LimitKept` (but for `crowded`);
`LadderHeals` (each level is quoted again and again, after a failed tick, a
restart or a ghost order as well). The excuses are part of what is said: without
any of them the property is false, with it TLC finds nothing else.

Bounds. In matching_engine a behaviour takes its orders from one of the two
families (`OneFamily`; their mix adds states and no new pair of code paths).
Two prices give a better and a worse one, and crossing and resting
orders on either side; the market buy of budget 3 meets makers at 2, which it does
not divide, and one crumb (`DustTurns`) is enough to come to the turn that drops a
maker. Four orders give two makers on one level, a taker and a
later arrival. Sizes up to 3 give full, partial and repeated fills. Two
withdrawals against an order are the least with which one can take another's
reserve. In trading, one maker with two takers gives every overlap of two
settlements on one row; a cancel gives the third party of the races and the
deadlock; Unit = 2 and TakerFee = 1, MakerFee = 0 keep the fees distinct and
the amounts integers; `Tolerance` = 2 lets a trade of 2 lack 1, so that the clamp
takes effect on these amounts (the code's is 10^6, and the proofs hold for any). In delivery two workers and batches of two of three events
give overlapping runs, a run in part and a row left over. On the chain three
calls let one be replaced, one refused and one mined late; parties of different
users add nothing, because calls differ only in job and address. In house
orders a limit of 2 above a level's cost of 1 gives the improvement; two
complications (`MaxComplications`) give each pair of hazards, for
instance a restart under a follower's settlement; three orders of the desk per
level (`DeskOrders`) are as many as two complications can use up. Every action of
every next-state relation is taken. The largest runs: matching_engine has 428,986
distinct states (depth 23), trading 73,596, house_orders 146,674 (depth 47).

Fairness. In the engine, `WF(EngineStep)`: a call is straight-line code under a
lock. In trading, `WF(Progress)`: as long as some request can go on, one does
(the event loop runs what is ready and PostgreSQL breaks deadlocks). No client
has to ask, no request has to fail. Without deadlock detection `RequestsEnd` is
false: a cancel holds the maker's row and waits for the pair, a taker shares
the pair and waits for the row. In delivery, `WF(Progress)`: workers as a whole
go on (Celery restarts dead ones, beat starts a run every five seconds); no
client has to call, no transaction to end. On the chain, weak fairness of each
thread: `wait_for_transaction_receipt` has a timeout, and the node need not mine.
In house orders, weak fairness of the desk's periodic task, which sleeps and
wakes, and of the tasks under way; nobody has to ask. Deadlock checking is off because clients may
stop asking.

## 4. What the runs found

Disagreements between the code and its documentation or its own statements; each
is a run that TLC ends with a counterexample. PROJECT.json quotes what the code
disagrees with.

- time_priority: a maker filled in part goes to the end of its level.
- limit_orders_rest: a market buy whose budget the price does not divide takes
  makers off the book and drops them; open orders are nowhere, their reserve stays.
- withdrawal_reserve: an approval that read PENDING before a cancel revives the
  withdrawal afterwards; it can be broadcast without a reserve.
- ledger_reconciles: a reserve posts a debit although the wallet's sum does not
  change; ledger and wallet disagree.
- rows_match_trades: the row of a maker is written from the shared engine object
  after an await; a fill made meanwhile is counted in it and added again when its
  taker settles. An order half filled stands FILLED.
- terminal_rows: a cancel between a match and its settlement succeeds; the
  settlement then sets the CANCELLED row FILLED.

Seven more contradict a document or a comment. They are behaviour of the models,
without a run of their own:

- An IOC order filled in part keeps PARTIALLY_FILLED; its rest is neither cancelled
  nor released (`FinishLimit`). docs/ARCHITECTURE.md:116 says it is cancelled.
- An iceberg whose visible part is traded is FILLED; what was hidden never comes
  back, because resting has cut its quantity to the peak (`VisiblePart`).
  docs/ARCHITECTURE.md:119 says icebergs are replenished.
- A cancelled stop stays in the stop book; a trade triggers it, its row goes from
  CANCELLED to TRIGGERED and it is processed without a reserve. models/order.py:45
  gives a cancelled order no next status; this is a second way to break
  `TerminalRowsFinal`.
- A market buy whose liquidity went away between its check and its turn buys
  nothing and is FILLED. docs/ARCHITECTURE.md:114 says that unfilled quantity is
  cancelled.
- The delivery task is in the broker before the commit; run at once it finds no
  row, is done, and the notification is never sent out: `LostOnlyIfEarly` names the
  case. docs/ARCHITECTURE.md:66 says "At-least-once delivery".
- A desk order that is put back while the trade that took it off the book is
  uncommitted gets its full quantity again; its row ends filled beyond its size. No
  failure is needed. `RowsExact` excuses it by `lost`, which `AddAgain` sets.
  main.py:59 calls the run idempotent.
- A buy filled in part below its limit and cancelled leaves the improvement locked,
  with no order to release it: `ReservesKept` counts it in `Untaken`.
  docs/ARCHITECTURE.md:148 says that a cancellation releases unused locked funds.

Three more came up while modelling; no line of the repository denies them, so
they are part of the models and not runs:

- What the engine matches a desk order with on arrival is thrown away: the
  client's row shows a fill that no trade settles (`Discarded`).
- A market sell that names a quantity and a quote budget goes on selling for the
  budget when its quantity is sold (`MarketWants`); only the quantity is reserved
  (`OverReserve`). `NeverOversettled` is claimed for orders without a budget.
- The gas limit of a settlement (200000) is below what `settleTrade` costs where
  a new storage slot costs 22100 (eight slots, an array push and the base cost);
  there every settlement is answered failed. `ExecuteSettle` allows it.

## 5. Proofs

Constants are arbitrary, under the named assumptions of the modules. Those of
the engine: prices are positive and finitely many (decimals of bounded length),
orders are finitely many, requests are what the handlers construct, a rounding error
lasts any number of turns. Trading adds finitely many users, fees below the notional
and any tolerance of less than the whole. Those of Withdrawals: finitely many rows,
and a wallet that exists. Of Exchange: no level costs more than the clients' limit.
Of ChainSettlement: the zero address is one that may be linked. TLC evaluates each of
them on its instance.

*SumTheorems*. What sums over sets do is proved by induction over the size of
the set. The library's induction rules take an operator as a parameter, which
the provers cannot instantiate, so the induction is over a *set* of good
elements (`NatClosed`, `SetClosed`), by the well-foundedness of the order of the
naturals and of the subsets of a finite set. `SumUnfold` is the recursion of
`SumFunctionOnSet` for one element taken out; the others follow: adding, taking
out or changing one element (`SumAdd`, `SumChange`), sums of naturals (`SumNat`),
sums that are zero but for one element (`SumOnly`, `SumOneOrNone`), sums over the
positions of a queue as sums over its members (`SumAlong`). The properties that
count are written with these sums.

*MatchingEngineProofs* proves `Spec => []TypeOK` and `Spec => []NotCrossed`.
`TypeOK` is not inductive:
`Filled` adds the lesser of the fill and what remains, which is natural only if
no order is filled beyond its size. `TypeInv` adds that (`SoundOrders`) and that a
call in progress has a taker (`InCall`). For `NotCrossed` the lemmas say that trades, cancels and stop
sweeps occupy no new price, so only `FinishLimit` matters, and it lets an order
rest only if no opposite price crosses its own.

It proves also `BookIndexed`, `TerminalIsFinal`, `OpenOrdersRest`,
`PricePriority` and `HeldOnce`. All rest on one invariant, `EngineInv`, because
each of its parts needs the others: `OrdersInv` (an unused order is blank, a
filled one has nothing left), `BookInv` (`BookIndexed`, seen per order), `StopInv`
(each stop list holds untriggered stops, each once and none in two lists) and
`TakerInv` (the order of a call is not on the book, and the loop's counter is what
it has left). A trade keeps `BookInv` only if the taker is not its own maker; a
submitted stop keeps it only if it was not resting as well. `TerminalIsFinal`
needs that nothing on the book or in a stop list is finished; `OpenOrdersRest` adds that
a popped maker with a rest is put back, unless the turn has nothing to fill, and
that only a call with a quote budget has such turns. `PricePriority` is proved with the fact
that a turn trades at a best price and leaves no new one.

Its second part proves `DepthExact`, `FillsBalance` and `FillOrKill`. The sum over
the positions of a queue becomes one over its members, which `BookInv` says are distinct
(`DepthInv`); then each step adds, takes out or changes one. `FillOrKill` needs
`FillOrKillInv`: while the call of such an order is at work, the levels within its
reach still total at least what it wants, so the loop cannot run dry.

*TradingProofs* proves `TypeOK` and `FundsConserved` for any requests, users,
prices, fees and balances. Its engine is the one of MatchingEngineProofs with `batches`
standing for the lists of stops that tasks have in work (`EB`); the `Same` lemmas
say that both instances of MatchingEngine mean the same, and `EngineInv` then
carries over because a step of a task is a step of that engine. `TradingInv` adds
what a task's record is at each stage, that two tasks never work on one list, and
that an order is submitted once and its row written only afterwards: without
these a stop could be processed twice and rest twice. `FundsConserved`
alone is not inductive, since a rollback restores rows: `MoneyInv` says that a
wallet differs from its committed row only while a task has it locked, and that
what a task has moved comes to what its settlements made in base, and in quote to
that less the fees it has charged. A commit then moves both sums together, a
rollback takes back exactly what the task had charged and made, and `FeesOfTrade`
balances one trade, the clamped debit included. `NothingMade` is model-checked: it
needs `Backed`.

*FillsProofs* proves `NeverOversettled`. Fills are spread over the engine's call,
the requests and the database; `FillsInv` bounds all of them (`Claimed`: settled, in
work, matched in this call) by what was asked for less what the engine has left
(`Room`), so that a trade moves quantity from `Remaining` to `Claimed`, the end of a
call moves it to one request, and a commit to the rows. That needs `OneInsert`: two
requests waiting for the result of one order would both take it. It holds because
a triggered stop is only processed by a request that sees its row, and no request
sees the row of an order whose own request is still waiting to write it
(`RowsWritten`, `WritesSound`). The bound is an inequality, since rollbacks and
restarts drop fills and a resting iceberg shrinks.

*WithdrawalsProofs* proves every safety property of the run: `TypeOK` (no
negative balance), `AdminGate`, `EndsOnce`, `FundsConserved` and `ReservesCovered`,
and `DepositCreditedOnce` (one ledger entry for each completed deposit), for any numbers of
withdrawals, deposits, administrators, orders and any amounts. `AdminGate` needs `ApprovalRecorded` (an APPROVED row that needs an
administrator has one). `EndsOnce` rests on one lemma per handler saying what
it does to the status and postings of the withdrawal it concerns, and that it
leaves the others alone. `FundsConserved` holds with stale approvals too; it
needs `NotPaidBefore` (a withdrawal that does not exist has no payment posted),
else its amount could be chosen after the payment. `ReservesCovered` is inductive
with what it bounds (`Covered`): a withdrawal's cancel or completion that finds
less locked than it releases finds it because of `overdrawn`, and an order's
release takes its own part off both sides and adds the rest to `overdrawn`.

*DeliveryProofs* proves `TypeOK`, `NoPhantoms`, `HandedOnce` and
`LostOnlyIfEarly` (by `TasksDeliver`, an invariant of its own) for any number
of workers, transfers, batch size and losses, and that the outbox implements
EventLog. The invariant is `DeliveryInv`: rows locked by a run are PENDING and
of committed transactions, no row is in two runs, what a run has handed over or
still has to is what it has locked. `HandedOnce` needs all of it, because one commit turns
what was `InRun` into `Published`. For the refinement each action maps to one
of EventLog or to a stutter.

*ChainSettlementProofs* proves `TypeOK`, `NextIsMinable`, `SettledOnce`,
`AnswersTrue` and `MintedOnce` for any number of calls, users and trades. `NextIsMinable` holds
because a nonce read earlier is at most the account's count, and one that is
lower is refused. `AnswersTrue` needs more (`ChainInv`): answers are read off
receipts (`AnswersFromReceipts`), receipts say what happened (`ReceiptsTrue`),
a settlement is that of a good receipt (`SettledByReceipt`), and what is in the
pool has no receipt yet (`PoolUnmined`). For `MintedOnce` a balance is the
number of the address's claims with a good receipt (`MintInv`): mining a claim
adds one to both, and a call that has a receipt never becomes another job.

*HouseOrdersProofs* proves every safety property of the run: `TypeOK`,
`ReservesKept`, `RowsExact`, `CopiesOnce` and `LimitKept`, for any clients,
orders, follow requests, ladder levels and amounts, any number of interleaved
runs, requests, failures and restarts. All five follow from `HouseInv`, which TLC
checked first on the run's instance with two and with three complications
(1,144,139 states). Its parts:

- `BookInv`: a side lists exactly the orders that have something left, each once,
  so what an order offers can be summed over orders instead of positions.
- `TaskInv`: where a task stands and whose orders it may have in its draft; who
  has written an order of a user has his wallet locked (`Written`), and an order
  that a placement may still make (`ToMake`) is nowhere yet. Without the first a
  commit could overwrite another's row, without the second a copy be made twice.
- `UsedInv`: the same of desk orders: one that is not used is nowhere.
- `FollowInv`: two rows of a pair, or a row and a request about to add one, come
  of overlapping requests. It looks one step ahead of `CopiesOnce`.
- `LimitInv` counts with the open rows those still under way (`Promised`), since
  the check only sees the rows.
- `FillInv` and `QuoteInv`: of an order without lost fills, what is settled and
  what its transaction has still to settle is what its row says is filled; what
  a desk order has left, what is matched and not settled of it (`Pending`) and
  what its row says come to its size.
- `ClientReserve` and `DeskReserve`: `ReservesKept`, where what an order needs is its
  open rest and its untaken part (`Needed`), for the committed wallets and,
  beside it, for the wallets in place, where a row is what the holder of the
  wallet's lock sees (`View`). A commit then turns the second into the first, a
  rollback the first into the second, and no other step does both.
- `WalletInv`: a wallet nobody has locked is as committed, and none is negative.

For the reserves each step is one of four kinds: it moves nothing, saves what its
task saw, drops it, or changes one order's need and its wallet by the same
amount; the sum over all orders then changes by that order's term only.

Only model-checked: the liveness properties (`CallReturns`, `EventsSettle`,
`CallsAnswered`, `RequestsEnd`, `LadderHeals`), because fairness and ENABLED are
out of the provers' reach here, and `Backed` of Trading with `NothingMade`, which
rests on it. Its bound would have to
hold inside the engine's call too, where the reserve of the taker is split
between what is left to match, trades that are not yet a task's, and what price
improvement and the lower maker's fee leave over.

## 6. Limits of the models

- Prices and quantities are integers; a unit is the last digit a division keeps. Of
  Decimal's rounding only what it leads to is modelled: crumbs, and budgets that
  close or do not. That wallets round to eight digits, so that a fee may differ by
  a digit from what was reserved for it, is not; `made` counts such differences
  only when they come from a short reserve.
- The engine's fees, timestamps, trade ids and sequence numbers carry no control
  and are left out; `restore_from_snapshot` is never called.
- Trading: wallets exist from the start; the instance has no iceberg and no IOC
  or FOK order (the engine's run has). Copies and risk limits are in CopyTrading.
- Trading claims nothing of excess: price improvement, the maker-taker fee
  difference, cancelled stop-market buys and stops triggered before their
  placement commits leave funds locked (HouseOrders says exactly how much the
  first leaves).
- Withdrawals: one wallet; a deposit is the mock deposit of the API.
- Delivery ends at the Kafka client's buffer: `send` does not wait for a broker,
  so an event may be PUBLISHED and never arrive. Each run has an event loop of its
  own while the producer is one per process; what the client does on a closed loop
  is the library's (a produce that raises is modelled).
- HouseOrders: the ask side, with one limit for all clients. An order put back at a moved price with
  its old reserve, which may be too small on the bid side, is left out.
- Not modelled: order expiry (`expire_orders` selects by `expires_at`, which no
  route sets, so it never finds an order); candles (made once a minute; a trade that
  commits after its minute was aggregated is in none); sessions; realtime
  fan-out, rate limiting, auditing (best effort, no state others read); market
  data, portfolio, admin and analytics (queries and single-row updates);
  AI (an external service); the frontend; schema and deployment.

## 7. The plan

Done: MatchingEngine, Withdrawals, Trading, Delivery with EventLog,
ChainSettlement, Exchange with MarketMaker, CopyTrading and HouseOrders.

Left to model: sessions (two refreshes with one token both succeed, logout, the
frontend's refresh queue); candles; the bid side and moving prices in
MarketMaker; an abstract exchange (open orders and a balance per user, changed
atomically) that MatchingEngine with one task at a time refines.

Left to prove: `Backed` and `NothingMade` of Trading.
