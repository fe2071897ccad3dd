------------------------------- MODULE Trading -------------------------------
(***************************************************************************)
(* Placing, settling and cancelling orders: backend/app/api/v1/trading.py  *)
(* and services/wallet_service.py around the engine of MatchingEngine.     *)
(*                                                                         *)
(* Each request is one database transaction (db/session.py) that runs in   *)
(* one asyncio task.  A task gives way only where it awaits the database   *)
(* or a publication; the engine, whose lock is never contended, runs       *)
(* inside one slice.  The engine's objects are shared memory: other tasks  *)
(* see them at once, and no rollback undoes them.                          *)
(*                                                                         *)
(* The database is PostgreSQL at READ COMMITTED.  A wallet row is changed  *)
(* only under its row lock, so wallet holds the values in place and        *)
(* committed what a rollback restores.  An order row is also read without  *)
(* a lock, so a task's uncommitted versions are kept apart, in its draft.  *)
(* Rows of orders and of trading_pairs are locked in three strengths: FOR  *)
(* UPDATE by the handlers, NO KEY UPDATE by an UPDATE, KEY SHARE by the    *)
(* foreign keys of an inserted order or trade.                             *)
(***************************************************************************)
EXTENDS Integers, Sequences, FiniteSets, FiniteSetsExt

CONSTANTS
    OrderIds,     \* orders to be placed; each is also the task that places it
    CancelIds,    \* tasks that cancel an order
    Users, Prices,
    RequestsOf,   \* per order id the set of [user, ord] a client may ask for
    NoOrder, NoTask,
    Pair,         \* the row of table trading_pairs
    Unit, TakerFee, MakerFee,  \* a notional of 1 costs Unit, and a fee of so much
    Tolerance,    \* a settlement may lack 1 / Tolerance of what it takes
    DustTurns,    \* as in MatchingEngine
    Funds,        \* what each wallet holds at first
    MaxRestarts   \* how often the process may die

Tasks   == OrderIds \cup CancelIds
Assets  == {"base", "quote"}
Wallets == Users \X Assets
Rows    == OrderIds \cup {Pair}

\* The reserve carries the taker's rate; makers are never charged more.
ASSUME FeesAssumption == /\ Unit \in Nat \ {0} /\ TakerFee \in Nat /\ MakerFee \in Nat
                         /\ MakerFee <= TakerFee /\ TakerFee < Unit
ASSUME RoundingAssumption == Tolerance \in Nat \ {0, 1} /\ DustTurns \in Nat
ASSUME FundsAssumption == Funds \in [Wallets -> Nat] /\ MaxRestarts \in Nat
ASSUME TaskAssumption == /\ NoTask \notin Tasks /\ Pair \notin OrderIds
                         /\ OrderIds \cap CancelIds = {} /\ NoOrder \notin OrderIds
                         /\ IsFiniteSet(OrderIds) /\ IsFiniteSet(CancelIds)
ASSUME MarketAssumption == /\ Prices \subseteq Nat \ {0} /\ IsFiniteSet(Prices)
                           /\ Users # {} /\ IsFiniteSet(Users)

VARIABLES
    order, levels, totals, ordersById, stops, pendingStops, lastTradePrice,
    pc, taker, remaining, quoteRemaining, result,   \* the engine's memory
    asked,       \* the request of each order id
    task,        \* where each task stands and what it carries
    rows,        \* the committed rows of table orders
    rowLock,     \* how strongly each task has locked each order row and the pair
    wallet,      \* the rows of table user_wallets, in place
    committed,   \* ... as last committed
    holder,      \* the task that has locked a wallet row
    settled,     \* base quantity of the committed rows of table trades, per order
    fees,        \* fees charged by committed trades
    made,        \* history: what committed trades paid out and nobody paid in
    restarts,    \* how often the process has died
    exposed      \* history: an event after which reserves need not cover the book

engineVars == <<order, levels, totals, ordersById, stops, pendingStops, lastTradePrice,
                pc, taker, remaining, quoteRemaining, result>>
lockVars   == <<rowLock, holder>>
tradeVars  == <<settled, fees, made>>
dbVars     == <<rows, committed, tradeVars>>
vars       == <<engineVars, asked, task, lockVars, wallet, dbVars, restarts, exposed>>

Engine == INSTANCE MatchingEngine WITH Requests <- {}, batches <- {}

\* Clients ask for what the handlers construct.
ASSUME RequestsAssumption ==
    \A o \in OrderIds : \A req \in RequestsOf[o] :
        /\ req \in [user : Users, ord : Engine!EngineOrder]
        /\ Engine!WellFormed(req.ord)

\* What cancel_order accepts.
OpenStatuses == {"OPEN", "PENDING", "PARTIALLY_FILLED"}
\* Mutant of EndStatuses: the rest of an order filled in part is released.
EndedOrTouched == {"FILLED", "CANCELLED", "REJECTED", "EXPIRED", "PARTIALLY_FILLED"}

\* The statuses whose reserve is released (place_limit_order).
EndStatuses == {"FILLED", "CANCELLED", "REJECTED", "EXPIRED"}

NoRow == [status |-> "NONE", filled |-> 0, quantity |-> 0]

\* A task: its stage, the order it is processing, the trades it has still to
\* settle, the triggered stops it has taken, the order rows it has written, the
\* maker row it has read, and what it has settled, charged, made and spent.
Fresh == [ stage |-> "ready", cur |-> NoOrder, trades |-> <<>>, triggered |-> <<>>,
           draft |-> [o \in OrderIds |-> NoRow], seen |-> NoRow,
           settled |-> [o \in OrderIds |-> 0], fees |-> 0,
           made |-> [a \in Assets |-> 0], spent |-> 0 ]

Ended(stage) == [Fresh EXCEPT !.stage = stage]
Running(t)   == task[t].stage \notin {"ready", "done", "failed"}

\* The version of an order row a transaction sees.
Visible(t, o) == IF task[t].draft[o] # NoRow THEN task[t].draft[o] ELSE rows[o]

-----------------------------------------------------------------------------
(* Amounts (wallet_service.py).                                            *)

Spends(o) == <<asked[o].user, IF asked[o].ord.side = "BUY" THEN "quote" ELSE "base">>

\* Mutant of ReserveFor: a buy reserves what it costs, without the fee.
ReserveNoFee(ord) ==
    LET price == IF ord.price # 0 THEN ord.price ELSE ord.stop_price
    IN  IF ord.side = "SELL" THEN ord.quantity
        ELSE (IF ord.quote_quantity > 0 THEN ord.quote_quantity ELSE price * ord.quantity) * Unit

\* reserve_order_funds: a market buy reserves its budget, a buy stop its stop
\* price, every buy with the taker's fee; a sell its quantity.
ReserveFor(ord) ==
    LET price == IF ord.price # 0 THEN ord.price ELSE ord.stop_price
    IN  IF ord.side = "SELL" THEN ord.quantity
        ELSE (IF ord.quote_quantity > 0 THEN ord.quote_quantity ELSE price * ord.quantity)
               * (Unit + TakerFee)

\* A market sell with a quote budget reserves its quantity and may sell more:
\* the loop goes on while either is left.
OverReserve(ord) == ord.order_type = "MARKET" /\ ord.side = "SELL" /\ ord.quote_quantity > 0

\* release_order_funds for a quantity that will not be traded.  The row of a
\* stop-market order has no price: a buy releases nothing.
Unneeded(o, quantity) ==
    IF asked[o].ord.side = "SELL" THEN quantity
    ELSE asked[o].ord.price * quantity * (Unit + TakerFee)

\* Mutant of Releasable: the release is not capped.
WholeRelease(w, amount) == amount

\* min(release, wallet.locked)
Releasable(w, amount) == IF wallet[w].locked <= amount THEN wallet[w].locked ELSE amount

Buyer(trade, tk)  == IF asked[tk].ord.side = "BUY" THEN tk ELSE trade.maker
Seller(trade, tk) == IF asked[tk].ord.side = "BUY" THEN trade.maker ELSE tk
FeeOf(o, tk)      == IF o = tk THEN TakerFee ELSE MakerFee

\* What a trade takes from the buyer, and what the seller receives.  GrossCredit
\* is a mutant of SellerCredit: the seller's fee is not taken.
BuyerDebit(trade, tk) ==
    trade.price * trade.quantity * (Unit + FeeOf(Buyer(trade, tk), tk))
GrossCredit(trade, tk) == trade.price * trade.quantity * Unit

SellerCredit(trade, tk) ==
    trade.price * trade.quantity * (Unit - FeeOf(Seller(trade, tk), tk))

\* What a trade takes of each asset, from whom, and what he has locked.
TradeNeed(trade, tk, asset) ==
    IF asset = "quote" THEN BuyerDebit(trade, tk) ELSE trade.quantity

Payer(trade, tk, asset) == IF asset = "quote" THEN Buyer(trade, tk) ELSE Seller(trade, tk)

LockedFor(trade, tk, asset) == wallet[<<asked[Payer(trade, tk, asset)].user, asset>>].locked

-----------------------------------------------------------------------------
(* Locks.                                                                  *)

Unlocked    == 0
KeyShare    == 1
NoKeyUpdate == 2
ForUpdate   == 3

\* Two tasks may share a row unless both update it or one holds it FOR UPDATE.
Conflict(held, wanted) == held # Unlocked /\ held + wanted >= 4

RowHolders(t, row, wanted) == {u \in Tasks \ {t} : Conflict(rowLock[row][u], wanted)}

LockRow(t, row, mode) ==
    rowLock' = [rowLock EXCEPT ![row][t] = IF @ < mode THEN mode ELSE @]

WalletHolders(t, w) == {holder[w]} \ {NoTask, t}

HeldBy(t) == {w \in Wallets : holder[w] = t}

\* settle_trade locks the wallets in this order; next is the first not yet held.
SettleOrder(trade, tk) ==
    LET b == asked[Buyer(trade, tk)].user
        s == asked[Seller(trade, tk)].user
    IN  << <<b, "quote">>, <<b, "base">>, <<s, "base">>, <<s, "quote">> >>

NextWallet(t) ==
    LET wanted  == SettleOrder(Head(task[t].trades), task[t].cur)
        missing == {i \in 1 .. 4 : holder[wanted[i]] # t}
    IN  wanted[Min(missing)]

AllLocked(t) ==
    LET wanted == SettleOrder(Head(task[t].trades), task[t].cur)
    IN  \A i \in 1 .. 4 : holder[wanted[i]] = t

\* What the handler has to release (release_order_funds): a cancel, what the row
\* it read says is open; a market order, its rest at once; any other order, its
\* rest if the engine has ended it, placing a stop excepted.
ReleaseDue(t) ==
    LET o   == task[t].cur
        ord == asked[o].ord
    IN  IF t \in CancelIds THEN Unneeded(o, task[t].seen.quantity - task[t].seen.filled)
        ELSE IF o = t /\ ord.order_type = "MARKET"
             THEN IF ord.side = "BUY"
                  THEN (ord.quote_quantity - task[t].spent) * (Unit + TakerFee)
                  ELSE Engine!Remaining(order[o])
        ELSE IF order[o].status \in EndStatuses /\ ~(o = t /\ ord.stop_price # 0)
             THEN Unneeded(o, Engine!Remaining(order[o]))
        ELSE 0

\* Whom the next database call of a task has to wait for.
Blockers(t) ==
    LET tk == task[t] IN
    CASE tk.stage = "reserve" -> WalletHolders(t, Spends(t))
      [] tk.stage = "insert"  -> IF tk.cur = t THEN RowHolders(t, Pair, KeyShare) ELSE {}
      [] tk.stage = "settle"  -> IF AllLocked(t) THEN {} ELSE WalletHolders(t, NextWallet(t))
      [] tk.stage = "flush"   -> RowHolders(t, Head(tk.trades).maker, KeyShare)
      [] tk.stage = "write"   -> RowHolders(t, Head(tk.trades).maker, NoKeyUpdate)
      [] tk.stage = "release" -> IF ReleaseDue(t) = 0 THEN {} ELSE WalletHolders(t, Spends(tk.cur))
      [] tk.stage = "trigger" -> IF Visible(t, Head(tk.triggered)) = NoRow THEN {}
                                 ELSE RowHolders(t, Head(tk.triggered), ForUpdate)
      [] tk.stage = "pair"    -> RowHolders(t, Pair, ForUpdate)
      [] OTHER                -> {}

At(t, stage) == pc = "idle" /\ task[t].stage = stage /\ Blockers(t) = {}

Waiting == {t \in Tasks : Blockers(t) # {}}

\* A cycle of tasks that wait for each other; PostgreSQL aborts one of them.
Deadlocked(t) ==
    /\ t \in Waiting
    /\ \E n \in 2 .. Cardinality(Waiting) : \E cycle \in [0 .. n - 1 -> Waiting] :
         /\ cycle[0] = t
         /\ \A i \in 0 .. n - 1 : cycle[(i + 1) % n] \in Blockers(cycle[i])

-----------------------------------------------------------------------------
(* Commit, rollback, failures.                                             *)

\* Mutant of Unlock: the row locks of the transaction stay.
UnlockWallets(t) ==
    /\ holder'  = [w \in Wallets |-> IF holder[w] = t THEN NoTask ELSE holder[w]]
    /\ UNCHANGED rowLock

\* Locks end with the transaction.
Unlock(t) ==
    /\ holder'  = [w \in Wallets |-> IF holder[w] = t THEN NoTask ELSE holder[w]]
    /\ rowLock' = [r \in Rows |-> [rowLock[r] EXCEPT ![t] = Unlocked]]

\* get_db: session.commit at the end of the request.
Commit(t) ==
    /\ At(t, "commit")
    /\ rows' = [o \in OrderIds |-> Visible(t, o)]
    /\ committed' = [w \in Wallets |-> IF holder[w] = t THEN wallet[w] ELSE committed[w]]
    /\ settled' = [o \in OrderIds |-> settled[o] + task[t].settled[o]]
    /\ fees' = fees + task[t].fees
    /\ made' = [a \in Assets |-> made[a] + task[t].made[a]]
    /\ Unlock(t)
    /\ task' = [task EXCEPT ![t] = Ended("done")]
    /\ UNCHANGED <<engineVars, asked, wallet, restarts, exposed>>

\* ... session.rollback on any exception.  What the engine has done stays.
Abort(t) ==
    /\ wallet' = [w \in Wallets |-> IF holder[w] = t THEN committed[w] ELSE wallet[w]]
    /\ Unlock(t)
    /\ task' = [task EXCEPT ![t] = Ended("failed")]
    /\ exposed' = (exposed \/ task[t].stage \notin {"reserve", "pair"})
    /\ UNCHANGED <<engineVars, asked, dbVars, restarts>>

\* The request fails somewhere: a lost connection, Kafka, Redis, the client
\* gone, or the database has chosen it as the victim of a deadlock.
Fail(t) ==
    /\ pc = "idle" /\ Running(t)
    /\ Abort(t)

\* The process dies and starts again with empty engines; the database rolls
\* every open transaction back.
Restart ==
    /\ restarts < MaxRestarts
    /\ restarts' = restarts + 1
    /\ order' = [o \in OrderIds |-> Engine!Blank]
    /\ levels' = [s \in Engine!Sides |-> [p \in Prices |-> <<>>]]
    /\ totals' = [s \in Engine!Sides |-> [p \in Prices |-> 0]]
    /\ stops'  = [s \in Engine!Sides |-> [p \in Prices |-> <<>>]]
    /\ ordersById' = {} /\ pendingStops' = <<>> /\ lastTradePrice' = Engine!NoPrice
    /\ pc' = "idle" /\ taker' = NoOrder
    /\ remaining' = 0 /\ quoteRemaining' = 0 /\ result' = <<>>
    /\ task' = [t \in Tasks |-> IF Running(t) THEN Ended("failed") ELSE task[t]]
    /\ wallet' = committed
    /\ holder' = [w \in Wallets |-> NoTask]
    /\ rowLock' = [r \in Rows |-> [t \in Tasks |-> Unlocked]]
    /\ UNCHANGED <<asked, dbVars, exposed>>

-----------------------------------------------------------------------------
(* Placing an order: place_market_order, place_limit_order,                *)
(* place_stop_order.                                                       *)

Liquidity(side) == Engine!Occupied(Engine!Opposite(side)) # {}

\* Up to the awaits of the risk check: a market order looks for a best price.
Begin(t, req) ==
    /\ At(t, "ready")
    /\ req.ord.order_type = "MARKET" => Liquidity(req.ord.side)
    /\ asked' = [asked EXCEPT ![t] = req]
    /\ task' = [task EXCEPT ![t].stage = "reserve"]
    /\ UNCHANGED <<engineVars, lockVars, wallet, dbVars, restarts, exposed>>

\* The wallet row is locked; reserve and process_order follow without an await.
Reserve(t) ==
    LET w      == Spends(t)
        amount == ReserveFor(asked[t].ord)
    IN  /\ At(t, "reserve")
        /\ wallet[w].available >= amount
        /\ wallet' = [wallet EXCEPT ![w] = [available |-> @.available - amount,
                                            locked    |-> @.locked + amount]]
        /\ holder' = [holder EXCEPT ![w] = t]
        /\ Engine!Process(t, asked[t].ord)
        /\ task' = [task EXCEPT ![t].stage = "insert", ![t].cur = t]
        /\ exposed' = (exposed \/ OverReserve(asked[t].ord))
        /\ UNCHANGED <<pendingStops, asked, rowLock, dbVars, restarts>>

\* 400 "Insufficient available balance"
Refuse(t) ==
    /\ At(t, "reserve")
    /\ wallet[Spends(t)].available < ReserveFor(asked[t].ord)
    /\ task' = [task EXCEPT ![t] = Ended("failed")]
    /\ UNCHANGED <<engineVars, asked, lockVars, wallet, dbVars, restarts, exposed>>

\* The engine runs; when its call ends, the task has the result.
Total(trades, Amount(_)) == SumFunction([i \in 1 .. Len(trades) |-> Amount(trades[i])])

EngineRuns ==
    /\ Engine!EngineStep
    /\ task' = IF pc' = "idle"
               THEN [t \in Tasks |->
                       IF task[t].stage = "insert" /\ task[t].cur = taker
                       THEN [task[t] EXCEPT
                               !.trades = result,
                               !.spent  = Total(result, LAMBDA x : x.price * x.quantity)]
                       ELSE task[t]]
               ELSE task
    /\ UNCHANGED <<asked, lockVars, wallet, dbVars, restarts, exposed>>

-----------------------------------------------------------------------------
(* persist_result and settle_trade.                                        *)

AfterTrades(trades) == IF trades = <<>> THEN "release" ELSE "settle"

\* The row of the processed order, from the engine's object as it is now.
RowOf(t, ord) ==
    LET row == Visible(t, task[t].cur)
    IN  [ status   |-> ord.status, filled |-> ord.filled_quantity,
          quantity |-> IF row = NoRow THEN ord.quantity ELSE row.quantity ]

\* A market buy's size is what it has bought: EngineOrder.fill caps it at 0.
Sized(t) ==
    LET o == task[t].cur IN
    IF o = t /\ order[o].order_type = "MARKET" /\ order[o].side = "BUY"
    THEN LET bought == Total(task[t].trades, LAMBDA x : x.quantity)
         IN  [order[o] EXCEPT !.filled_quantity = bought, !.quantity = bought]
    ELSE order[o]

\* The order is selected, inserted or updated, and flushed.
Insert(t) ==
    LET o == task[t].cur IN
    /\ At(t, "insert")
    /\ order' = [order EXCEPT ![o] = Sized(t)]
    /\ task' = [task EXCEPT ![t].draft[o] = RowOf(t, Sized(t)),
                            ![t].stage = AfterTrades(task[t].trades)]
    /\ rowLock' = [rowLock EXCEPT ![o][t] = IF @ < NoKeyUpdate THEN NoKeyUpdate ELSE @,
                                  ![Pair][t] = IF @ < KeyShare THEN KeyShare ELSE @]
    /\ UNCHANGED <<levels, totals, ordersById, stops, pendingStops, lastTradePrice,
                   pc, taker, remaining, quoteRemaining, result,
                   asked, holder, wallet, dbVars, restarts, exposed>>

\* get_wallet_for_update
LockWallet(t) ==
    /\ At(t, "settle") /\ ~AllLocked(t)
    /\ holder' = [holder EXCEPT ![NextWallet(t)] = t]
    /\ UNCHANGED <<engineVars, asked, task, rowLock, wallet, dbVars, restarts, exposed>>

\* What the rounding of a division may leave short: _SETTLE_TOLERANCE.
Slack(needed) == needed \div Tolerance

\* Mutant of ReserveOk: whatever is locked will do.
AnyReserve(locked, needed) == TRUE

\* _reserve_ok
ReserveOk(locked, needed) == locked >= needed - Slack(needed)

\* ... of both sides.
Covered(trade, tk) ==
    \A a \in Assets : ReserveOk(LockedFor(trade, tk, a), TradeNeed(trade, tk, a))

\* What is taken from the payer of an asset: at most what is locked.
Taken(trade, tk, asset) == Engine!Lesser(TradeNeed(trade, tk, asset), LockedFor(trade, tk, asset))

\* Both orders of a trade have settled its quantity.
SettledWith(done, trade, tk) ==
    [done EXCEPT ![tk] = @ + trade.quantity, ![trade.maker] = @ + trade.quantity]

\* The four wallets change; buyer and seller may be the same user.  Each gets
\* all of what the other owes, also where less was taken.
Transfer(t) ==
    LET trade == Head(task[t].trades)
        tk    == task[t].cur
        w     == SettleOrder(trade, tk)
    IN  /\ At(t, "settle") /\ AllLocked(t) /\ Covered(trade, tk)
        /\ wallet' = [wallet EXCEPT ![w[1]].locked    = @ - Taken(trade, tk, "quote"),
                                    ![w[2]].available = @ + trade.quantity,
                                    ![w[3]].locked    = @ - Taken(trade, tk, "base"),
                                    ![w[4]].available = @ + SellerCredit(trade, tk)]
        /\ task' = [task EXCEPT ![t].stage = "flush",
                      ![t].fees = @ + trade.price * trade.quantity * (TakerFee + MakerFee),
                      ![t].made = [a \in Assets |->
                                     @[a] + TradeNeed(trade, tk, a) - Taken(trade, tk, a)],
                      ![t].settled = SettledWith(@, trade, tk)]
        /\ UNCHANGED <<engineVars, asked, lockVars, dbVars, restarts, exposed>>

\* 409 "Buyer reserve invariant violated", or the seller's
Short(t) ==
    /\ At(t, "settle") /\ AllLocked(t) /\ ~Covered(Head(task[t].trades), task[t].cur)
    /\ Abort(t)

\* The trade is inserted, its foreign key locks the maker's row, and the row is read.
FlushTrade(t) ==
    LET maker == Head(task[t].trades).maker IN
    /\ At(t, "flush") /\ Head(task[t].trades).quantity > 0 /\ Visible(t, maker) # NoRow
    /\ LockRow(t, maker, KeyShare)
    /\ task' = [task EXCEPT ![t].stage = "write", ![t].seen = Visible(t, maker)]
    /\ UNCHANGED <<engineVars, asked, holder, wallet, dbVars, restarts, exposed>>

\* ... which fails if there is no row: the maker's placement was rolled back.
NoMaker(t) ==
    /\ At(t, "flush") /\ Visible(t, Head(task[t].trades).maker) = NoRow
    /\ Abort(t)

\* ... or if the ledger entries of a crumb come to nothing: ck_ledger_single_sided.
EmptyTrade(t) ==
    /\ At(t, "flush") /\ Head(task[t].trades).quantity = 0
    /\ Abort(t)

\* Mutant of RestOfTrades: a trade is settled again.
KeepTrade(trades) == trades

\* What is still to be settled after a trade.
RestOfTrades(trades) == Tail(trades)

\* Kafka and Redis have been told; the maker's row is written as it was read.
WriteMaker(t) ==
    LET trade  == Head(task[t].trades)
        filled == task[t].seen.filled + trade.quantity
        rest   == RestOfTrades(task[t].trades)
    IN  /\ At(t, "write")
        /\ LockRow(t, trade.maker, NoKeyUpdate)
        /\ task' = [task EXCEPT
                      ![t].draft[trade.maker] =
                          [task[t].seen EXCEPT
                             !.filled = filled,
                             !.status = IF filled >= task[t].seen.quantity THEN "FILLED"
                                        ELSE "PARTIALLY_FILLED"],
                      ![t].seen = NoRow, ![t].trades = rest, ![t].stage = AfterTrades(rest)]
        /\ UNCHANGED <<engineVars, asked, holder, wallet, dbVars, restarts, exposed>>

-----------------------------------------------------------------------------
(* Releases, triggered stops, cancellation.                                *)

AfterRelease(t) ==
    IF t \in CancelIds \/ (task[t].cur = t /\ asked[t].ord.stop_price # 0) THEN "commit"
    ELSE IF task[t].triggered # <<>> THEN "trigger" ELSE "stops"

\* release_order_funds, when there is something to release ...
Release(t) ==
    LET w      == Spends(task[t].cur)
        amount == Releasable(w, ReleaseDue(t))
    IN  /\ At(t, "release") /\ amount > 0
        /\ wallet' = [wallet EXCEPT ![w] = [available |-> @.available + amount,
                                            locked    |-> @.locked - amount]]
        /\ holder' = [holder EXCEPT ![w] = t]
        /\ task' = [task EXCEPT ![t].stage = AfterRelease(t)]
        /\ UNCHANGED <<engineVars, asked, rowLock, dbVars, restarts, exposed>>

\* ... and when there is not.
NoRelease(t) ==
    /\ At(t, "release") /\ ReleaseDue(t) = 0
    /\ task' = [task EXCEPT ![t].stage = AfterRelease(t)]
    /\ UNCHANGED <<engineVars, asked, lockVars, wallet, dbVars, restarts, exposed>>

\* Nothing is locked that could be released: ck_ledger_single_sided refuses the
\* ledger entry with neither debit nor credit.
EmptyRelease(t) ==
    /\ At(t, "release") /\ ReleaseDue(t) > 0
    /\ Releasable(Spends(task[t].cur), ReleaseDue(t)) = 0
    /\ Abort(t)

\* process_triggered_stop_orders: take the list ...
TakeStops(t) ==
    /\ At(t, "stops")
    /\ task' = [task EXCEPT ![t].triggered = pendingStops,
                            ![t].stage = IF pendingStops = <<>> THEN "commit" ELSE "trigger"]
    /\ pendingStops' = <<>>
    /\ UNCHANGED <<order, levels, totals, ordersById, stops, lastTradePrice,
                   pc, taker, remaining, quoteRemaining, result,
                   asked, lockVars, wallet, dbVars, restarts, exposed>>

\* ... pass over a stop without a row, be it that its placement has not
\* committed yet ...
SkipStop(t) ==
    LET rest == Tail(task[t].triggered) IN
    /\ At(t, "trigger") /\ Visible(t, Head(task[t].triggered)) = NoRow
    /\ task' = [task EXCEPT ![t].triggered = rest,
                            ![t].stage = IF rest = <<>> THEN "stops" ELSE "trigger"]
    /\ UNCHANGED <<engineVars, asked, lockVars, wallet, dbVars, restarts, exposed>>

\* ... mark the row TRIGGERED whatever its status was ...
Trigger(t) ==
    LET s == Head(task[t].triggered) IN
    /\ At(t, "trigger") /\ Visible(t, s) # NoRow
    /\ LockRow(t, s, ForUpdate)
    /\ task' = [task EXCEPT ![t].draft[s] = [Visible(t, s) EXCEPT !.status = "TRIGGERED"],
                            ![t].stage = "fire"]
    /\ UNCHANGED <<engineVars, asked, holder, wallet, dbVars, restarts, exposed>>

\* ... and process it as a market or limit order.  A buy at market may cost
\* more than its stop price.
Fire(t) ==
    LET s == Head(task[t].triggered) IN
    /\ At(t, "fire")
    /\ Engine!Process(s, Engine!Triggered(order[s]))
    /\ task' = [task EXCEPT ![t].stage = "insert", ![t].cur = s,
                            ![t].trades = <<>>, ![t].triggered = Tail(@)]
    /\ exposed' = \/ exposed
                  \/ asked[s].ord.side = "BUY" /\ order[s].order_type = "STOP_MARKET"
    /\ UNCHANGED <<pendingStops, asked, lockVars, wallet, dbVars, restarts>>

\* cancel_order: SELECT ... FOR UPDATE of the order joined with its pair locks
\* the order's row, then the pair's.  For a row that is not open the request
\* ends here (400, 404) and changes nothing.
CancelSelect(t, o) ==
    /\ At(t, "ready") /\ RowHolders(t, o, ForUpdate) = {}
    /\ rows[o].status \in OpenStatuses
    /\ LockRow(t, o, ForUpdate)
    /\ task' = [task EXCEPT ![t].stage = "pair", ![t].cur = o, ![t].seen = rows[o]]
    /\ UNCHANGED <<engineVars, asked, holder, wallet, dbVars, restarts, exposed>>

\* The engine forgets the order if it rests on the book; a stop stays where it
\* is.  What is released then is what the row says is open.
CancelOrder(t) ==
    LET o == task[t].cur IN
    /\ At(t, "pair")
    /\ LockRow(t, Pair, ForUpdate)
    /\ IF o \in ordersById THEN Engine!CancelOrder(o) ELSE UNCHANGED engineVars
    /\ task' = [task EXCEPT ![t].draft[o] = [task[t].seen EXCEPT !.status = "CANCELLED"],
                            ![t].stage = "release"]
    /\ exposed' = \/ exposed \/ o \notin ordersById
                  \/ Engine!Remaining(order[o]) # task[t].seen.quantity - task[t].seen.filled
    /\ UNCHANGED <<asked, holder, wallet, dbVars, restarts>>

-----------------------------------------------------------------------------
Init ==
    /\ Engine!Init
    /\ asked = [o \in OrderIds |-> [user |-> CHOOSE u \in Users : TRUE, ord |-> Engine!Blank]]
    /\ task = [t \in Tasks |-> Fresh]
    /\ rows = [o \in OrderIds |-> NoRow]
    /\ rowLock = [r \in Rows |-> [t \in Tasks |-> Unlocked]]
    /\ wallet = [w \in Wallets |-> [available |-> Funds[w], locked |-> 0]]
    /\ committed = wallet
    /\ holder = [w \in Wallets |-> NoTask]
    /\ settled = [o \in OrderIds |-> 0] /\ fees = 0 /\ made = [a \in Assets |-> 0]
    /\ restarts = 0 /\ exposed = FALSE

\* What a request does next on its own.
TaskStep(t) ==
    \/ Reserve(t) \/ Refuse(t) \/ Insert(t)
    \/ LockWallet(t) \/ Transfer(t) \/ Short(t)
    \/ FlushTrade(t) \/ NoMaker(t) \/ EmptyTrade(t) \/ WriteMaker(t)
    \/ Release(t) \/ NoRelease(t) \/ EmptyRelease(t)
    \/ TakeStops(t) \/ SkipStop(t) \/ Trigger(t) \/ Fire(t)
    \/ CancelOrder(t)
    \/ Commit(t)

Next ==
    \/ EngineRuns
    \/ \E t \in OrderIds : \E req \in RequestsOf[t] : Begin(t, req)
    \/ \E t \in CancelIds, o \in OrderIds : CancelSelect(t, o)
    \/ \E t \in Tasks : TaskStep(t) \/ Fail(t)
    \/ Restart

DeadlockVictim(t) == Deadlocked(t) /\ Fail(t)

\* What happens with no client asking for anything and nothing failing.
Progress ==
    \/ EngineRuns
    \/ \E t \in Tasks : TaskStep(t) \/ DeadlockVictim(t)

\* While some request can go on, some request does: the event loop runs what is
\* ready, and PostgreSQL looks for deadlocks.  Nothing obliges a client to ask
\* or a request to fail.
Spec == Init /\ [][Next]_vars /\ WF_vars(Progress)

-----------------------------------------------------------------------------
(* Properties.                                                             *)

Stages == {"ready", "reserve", "insert", "settle", "flush", "write", "release", "stops",
           "trigger", "fire", "pair", "commit", "done", "failed"}

Balance == [available : Nat, locked : Nat]

\* No balance is ever negative, in place or committed (wallet.py, ck_wallet_*):
\* settlements clamp and releases are capped at what is locked.
TypeOK ==
    /\ wallet \in [Wallets -> Balance] /\ committed \in [Wallets -> Balance]
    /\ holder \in [Wallets -> Tasks \cup {NoTask}]
    /\ rowLock \in [Rows -> [Tasks -> Unlocked .. ForUpdate]]
    /\ \A t \in Tasks : task[t].stage \in Stages
    /\ \A o \in OrderIds : rows[o].status \in Engine!Statuses \cup {"NONE"}
    /\ settled \in [OrderIds -> Nat] /\ fees \in Nat /\ made \in [Assets -> Nat]

Held(balances, asset) ==
    SumFunction([u \in Users |-> balances[<<u, asset>>].available + balances[<<u, asset>>].locked])

Deposited(asset) == SumFunction([u \in Users |-> Funds[<<u, asset>>]])

\* Every unit is accounted for: the committed wallets hold what was deposited,
\* less the fees charged, more what a settlement paid out although less was
\* locked (settle_trade), whichever requests settled, failed or died in between
\* (get_db); and so they do in place, with what is not yet committed.
FundsConserved ==
    LET charged == SumFunction([t \in Tasks |-> task[t].fees])
        more(a) == SumFunction([t \in Tasks |-> task[t].made[a]])
    IN  /\ Held(committed, "base")  = Deposited("base") + made["base"]
        /\ Held(committed, "quote") = Deposited("quote") - fees + made["quote"]
        /\ Held(wallet, "base")     = Deposited("base") + made["base"] + more("base")
        /\ Held(wallet, "quote")    = Deposited("quote") - fees + made["quote"]
                                         - charged + more("quote")

\* The clamp of a settlement to what is locked makes no money before one of the
\* events that leave reserves short (exposed): the tolerance is there for
\* rounding errors, and it covers any reserve that was released too early.
NothingMade ==
    ~exposed => \A a \in Assets : made[a] = 0 /\ \A t \in Tasks : task[t].made[a] = 0

\* However the fills of an order are spread over requests, stops and failures,
\* no more of it is settled than its client asked for (persist_result settles
\* every trade of its own call once).  An order with a quote budget is not
\* bounded by a quantity: a market sell that names both may sell for both.
NeverOversettled ==
    \A o \in OrderIds :
        asked[o].ord.quote_quantity = 0 =>
            settled[o] + SumFunction([t \in Tasks |-> task[t].settled[o]])
                <= asked[o].ord.quantity

\* An order that waits to be triggered or to be processed when triggered.
WaitingStop(o) ==
    \/ \E s \in Engine!Sides, p \in Prices : \E i \in 1 .. Len(stops[s][p]) : stops[s][p][i] = o
    \/ \E i \in 1 .. Len(pendingStops) : pendingStops[i] = o
    \/ \E t \in Tasks : \E i \in 1 .. Len(task[t].triggered) : task[t].triggered[i] = o

OrderNeed(o) ==
    LET left == Engine!Remaining(order[o]) IN
    IF o \in ordersById
    THEN IF order[o].side = "SELL" THEN left ELSE order[o].price * left * (Unit + MakerFee)
    ELSE IF WaitingStop(o) THEN ReserveFor(asked[o].ord) ELSE 0

\* Trades a task has made and not yet settled: its first one is settled before
\* it leaves the list.
Unsettled(t) ==
    IF task[t].stage \in {"flush", "write"} THEN Tail(task[t].trades) ELSE task[t].trades

Need(w) ==
      SumFunction([o \in OrderIds |-> IF Spends(o) = w THEN OrderNeed(o) ELSE 0])
    + SumFunction([t \in Tasks |-> Total(Unsettled(t),
          LAMBDA x : IF asked[Payer(x, task[t].cur, w[2])].user = w[1]
                     THEN TradeNeed(x, task[t].cur, w[2]) ELSE 0)])

\* What is locked covers everything the engine has promised: resting orders,
\* waiting stops, and trades that are matched and not yet settled, even while
\* several requests are half done.  It ends to hold with the events the code
\* does not guard against (exposed): a request that fails after the engine has
\* acted, a cancel of an order that is not on the book or is being filled, a
\* triggered stop-market buy, and a market sell with a quote budget.
Backed ==
    ~exposed /\ pc = "idle" => \A w \in Wallets : Need(w) <= wallet[w].locked

\* Every request ends, however requests wait for each other's wallets and rows:
\* a task that fails frees what it has locked, and deadlocks are broken.
RequestsEnd == \A t \in Tasks : Running(t) ~> ~Running(t)

-----------------------------------------------------------------------------
(* What the code's own statements say and the code does not do.            *)

\* models/order.py, VALID_TRANSITIONS: a FILLED, CANCELLED, REJECTED or EXPIRED
\* order has no next status.
TerminalRowsFinal ==
    [][\A o \in OrderIds :
         rows[o].status \in EndStatuses => rows'[o].status = rows[o].status]_vars

\* docs/ARCHITECTURE.md: ACID transactions cover settlement and order
\* persistence.  When every request has been answered with success, an order
\* row has filled what the trades say.
RowsMatchTrades ==
    (\A t \in Tasks : task[t].stage \in {"ready", "done"}) =>
        \A o \in OrderIds : rows[o] # NoRow => rows[o].filled = settled[o]
=============================================================================
