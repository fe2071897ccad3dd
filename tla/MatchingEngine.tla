--------------------------- MODULE MatchingEngine ---------------------------
(***************************************************************************)
(* The in-memory matching engine of one trading pair:                      *)
(* backend/app/core/matching_engine/{orders,order_book,engine}.py.         *)
(*                                                                         *)
(* process_order holds the engine's asyncio lock and never awaits, so one  *)
(* call is atomic for everybody else.  It is modelled as a short run of    *)
(* steps (one per turn of the matching loop, one per price of the stop     *)
(* sweep) during which pc # "idle" and no other entry point is enabled.    *)
(* That keeps the loops free of recursion and shows their intermediate     *)
(* states to the invariants.                                               *)
(*                                                                         *)
(* A PriceLevel exists in the code exactly while it holds orders; here an  *)
(* absent level is the empty sequence with total 0, and the sorted lists   *)
(* bid_prices and ask_prices are the set of occupied prices in order.      *)
(* Quantities and prices are integers: one unit is one step_size, one tick.*)
(***************************************************************************)
EXTENDS Integers, Sequences, FiniteSets, Functions

CONSTANTS
    OrderIds,   \* identities of the orders the callers may submit
    Prices,     \* the prices in use, positive integers
    Requests,   \* the EngineOrder objects the callers may hand to process_order
    NoOrder,    \* stands for Python's None where an order is expected
    DustTurns   \* turns a budget's rounding error lasts until its quotient is 0

Sides       == {"BUY", "SELL"}
OrderTypes  == {"MARKET", "LIMIT", "STOP_MARKET", "STOP_LIMIT"}
TimeInForce == {"GTC", "IOC", "FOK", "GTD"}
Statuses    == {"PENDING", "OPEN", "PARTIALLY_FILLED", "FILLED", "CANCELLED",
                "REJECTED", "EXPIRED", "TRIGGERED"}
NoPrice     == 0

\* EngineOrder.  status "UNUSED" marks an id nobody has submitted yet;
\* expires says that expires_at is set; price and stop_price are NoPrice and
\* quote_quantity and iceberg_peak are 0 where the code has None.
EngineOrder ==
    [ order_type      : OrderTypes,
      side            : Sides,
      price           : Prices \cup {NoPrice},
      quantity        : Nat,
      filled_quantity : Nat,
      quote_quantity  : Nat,
      stop_price      : Prices \cup {NoPrice},
      time_in_force   : TimeInForce,
      iceberg_peak    : Nat,
      iceberg_base    : Nat,
      expires         : BOOLEAN,
      status          : Statuses \cup {"UNUSED"} ]

\* What the handlers of api/v1/trading.py construct: a limit order has a price
\* and a quantity; a market order is GTC, a market buy has a quote budget only,
\* a market sell a quantity and perhaps a budget too; a stop order has a stop price and
\* a quantity, and a price iff it is a stop-limit; only a limit order has an
\* iceberg peak.  EngineOrder carries expires_at and the engine honours it; no
\* handler sets it today.
WellFormed(r) ==
    /\ r.status = "PENDING" /\ r.filled_quantity = 0 /\ r.iceberg_base = 0
    /\ r.order_type # "MARKET" => r.quantity > 0 /\ r.quote_quantity = 0
    /\ r.order_type = "MARKET" =>
         /\ r.time_in_force = "GTC"
         /\ IF r.side = "BUY" THEN r.quantity = 0 /\ r.quote_quantity > 0
                              ELSE r.quantity > 0
    /\ r.price # NoPrice <=> r.order_type \in {"LIMIT", "STOP_LIMIT"}
    /\ r.stop_price # NoPrice <=> r.order_type \in {"STOP_MARKET", "STOP_LIMIT"}
    /\ r.iceberg_peak > 0 => r.order_type = "LIMIT"

\* Prices are decimals of bounded length; callers submit finitely many orders.
ASSUME PricesAssumption   == Prices \subseteq Nat \ {0} /\ IsFiniteSet(Prices)
ASSUME OrderIdsAssumption == IsFiniteSet(OrderIds)
ASSUME RequestsAssumption == /\ Requests \subseteq EngineOrder
                             /\ \A r \in Requests : WellFormed(r)
ASSUME NoOrderAssumption  == NoOrder \notin OrderIds
ASSUME DustAssumption     == DustTurns \in Nat

VARIABLES
    order,           \* the EngineOrder object of each id
    levels,          \* OrderBook.bids / asks: per side and price the FIFO of ids
    totals,          \* PriceLevel.total_quantity
    ordersById,      \* the keys of OrderBook.orders_by_id
    stops,           \* OrderBook.stop_buy / stop_sell: per side and stop price
    pendingStops,    \* MatchingEngine._pending_stop_orders
    batches,         \* lists handed out by get_pending_stop_orders, in work
    lastTradePrice,  \* OrderBook.last_trade_price
    pc,              \* where process_order stands: "idle" outside a call
    taker,           \* the order of the current call
    remaining,       \* local variable of the matching loops
    quoteRemaining,  \* local variable of the market loop
    result           \* MatchResult.trades of the current call

bookVars == <<levels, totals, ordersById>>
stopVars == <<stops, pendingStops, batches>>
callVars == <<pc, taker, remaining, quoteRemaining, result>>
vars     == <<order, bookVars, stopVars, lastTradePrice, callVars>>

-----------------------------------------------------------------------------
(* Helpers: EngineOrder's properties and the order book's queries.         *)

Opposite(side) == IF side = "BUY" THEN "SELL" ELSE "BUY"

Lesser(a, b) == IF a <= b THEN a ELSE b

Remaining(ord) == ord.quantity - ord.filled_quantity

\* EngineOrder.fill: caps the fill at what remains and moves the status.
Filled(ord, qty) ==
    LET filled == ord.filled_quantity + Lesser(qty, Remaining(ord))
    IN  [ord EXCEPT !.filled_quantity = filled,
                    !.status = IF ord.quantity <= filled THEN "FILLED"
                               ELSE IF filled > 0 THEN "PARTIALLY_FILLED"
                               ELSE @]

\* Mutant of VisiblePart: the peak is not capped at what remains.
PeakUncapped(ord) == ord.iceberg_peak

\* reveal_iceberg_peak: the visible part; the rest goes to iceberg_base.
VisiblePart(ord) == Lesser(ord.iceberg_peak, Remaining(ord))

\* The status both paths give a processed order; ifUnfilled is what it gets
\* when nothing was filled.
StatusAfterMatching(ord, ifUnfilled) ==
    IF Remaining(ord) <= 0 THEN "FILLED"
    ELSE IF ord.filled_quantity > 0 THEN "PARTIALLY_FILLED" ELSE ifUnfilled

Occupied(side) == {p \in Prices : levels[side][p] # <<>>}

Better(side, p, q) == IF side = "BUY" THEN p > q ELSE p < q

\* Mutant of IsBest: the sorted price list is read from the wrong end.
IsWorst(side, p) ==
    /\ p \in Occupied(side)
    /\ \A q \in Occupied(side) : ~Better(side, p, q)

\* best_bid, best_ask: the first element of the side's sorted price list.
IsBest(side, p) ==
    /\ p \in Occupied(side)
    /\ \A q \in Occupied(side) : ~Better(side, q, p)

\* Mutant of Crosses: equal prices do not match.
CrossesStrictly(side, limit, p) == IF side = "BUY" THEN limit > p ELSE limit < p

\* A limit order of this side and price can trade with a maker at price p.
Crosses(side, limit, p) == IF side = "BUY" THEN limit >= p ELSE limit <= p

\* get_best_order and the price test.  The code tests the best maker only;
\* if any occupied price crosses then the best one does.
CanMatch(side, limit) ==
    \E p \in Occupied(Opposite(side)) : Crosses(side, limit, p)

\* Mutant of CanFullyFill: the preflight forgets the limit price.
CanFillAtAnyPrice(ord) ==
    SumFunctionOnSet(totals[Opposite(ord.side)], Occupied(Opposite(ord.side))) >= ord.quantity

\* _can_fully_fill.  The code walks the sorted prices, stops at the first that
\* does not cross and takes each level's total_quantity.
CanFullyFill(ord) ==
    LET maker  == Opposite(ord.side)
        usable == {p \in Occupied(maker) :
                     ord.order_type = "LIMIT" => Crosses(ord.side, ord.price, p)}
    IN  IF ord.quantity > 0
        THEN SumFunctionOnSet(totals[maker], usable) >= ord.quantity
        ELSE /\ ord.quote_quantity > 0
             /\ SumFunction([p \in usable |-> totals[maker][p] * p]) >= ord.quote_quantity

-----------------------------------------------------------------------------
(* process_order: what it does before the matching loop.  Process(o, ord)  *)
(* is the call with the EngineOrder object ord, whose id is o.             *)

\* is_expired can be true only if expires_at is set; the order is dropped.
Expire(o, ord) ==
    /\ ord.expires
    /\ order' = [order EXCEPT ![o] = [ord EXCEPT !.status = "EXPIRED"]]
    /\ UNCHANGED <<bookVars, stops, lastTradePrice, callVars>>

\* FOK preflight failed: cancelled, the book untouched, no stop sweep.
KillFillOrKill(o, ord) ==
    /\ ord.order_type \in {"LIMIT", "MARKET"}
    /\ ord.time_in_force = "FOK" /\ ~CanFullyFill(ord)
    /\ order' = [order EXCEPT ![o] = [ord EXCEPT !.status = "CANCELLED"]]
    /\ UNCHANGED <<bookVars, stops, lastTradePrice, callVars>>

\* _process_limit_order and _process_market_order up to their loops.
StartMatching(o, ord) ==
    /\ ord.order_type \in {"LIMIT", "MARKET"}
    /\ ord.time_in_force = "FOK" => CanFullyFill(ord)
    /\ order' = [order EXCEPT ![o] =
                   IF ord.order_type = "LIMIT" THEN [ord EXCEPT !.status = "OPEN"] ELSE ord]
    /\ pc' = IF ord.order_type = "LIMIT" THEN "limit" ELSE "market"
    /\ taker' = o
    /\ remaining' = ord.quantity
    /\ quoteRemaining' = ord.quote_quantity
    /\ UNCHANGED <<bookVars, stops, lastTradePrice, result>>

\* _process_stop_order: the order waits in the stop book.
RestStop(o, ord) ==
    /\ ord.order_type \in {"STOP_MARKET", "STOP_LIMIT"}
    /\ order' = [order EXCEPT ![o] = [ord EXCEPT !.status = "PENDING"]]
    /\ stops' = [stops EXCEPT ![ord.side][ord.stop_price] = Append(@, o)]
    /\ UNCHANGED <<bookVars, lastTradePrice, callVars>>

Process(o, ord) ==
    /\ pc = "idle"
    /\ \/ Expire(o, ord)
       \/ KillFillOrKill(o, ord)
       \/ StartMatching(o, ord)
       \/ RestStop(o, ord)

-----------------------------------------------------------------------------
(* The matching loops.                                                     *)

\* Mutant of QueueAfterFill: a filled maker is added again too.
ReAddAlways(queue, makerRests) == Append(Tail(queue), Head(queue))

\* What becomes of the level the maker was popped from: a maker that is not
\* filled is added again, behind the others.  reveal_iceberg_peak of a filled
\* maker finds nothing hidden (quantity = filled_quantity): it never returns.
QueueAfterFill(queue, makerRests) ==
    IF makerRests THEN Append(Tail(queue), Head(queue)) ELSE Tail(queue)

\* PriceLevel.pop_best; the level disappears with its last order.
TotalAfterPop(queue, total) ==
    IF Len(queue) = 1 THEN 0 ELSE total - Remaining(order[Head(queue)])

\* One turn of either loop: pop the best maker, trade qty at its price.
Trade(p, qty) ==
    LET side  == Opposite(order[taker].side)
        queue == levels[side][p]
        maker == Head(queue)
        after == Filled(order[maker], qty)
        rests == Remaining(after) > 0
    IN  /\ order' = [order EXCEPT ![maker] = after, ![taker] = Filled(order[taker], qty)]
        /\ levels' = [levels EXCEPT ![side][p] = QueueAfterFill(queue, rests)]
        /\ totals' = [totals EXCEPT ![side][p] =
                        TotalAfterPop(queue, @) + Remaining(after)]
        /\ ordersById' = IF rests THEN ordersById ELSE ordersById \ {maker}
        /\ remaining' = remaining - qty
        /\ result' = Append(result, [maker |-> maker, price |-> p, quantity |-> qty])
        /\ UNCHANGED <<stopVars, lastTradePrice, pc, taker>>

MakerRemaining(p) == Remaining(order[Head(levels[Opposite(order[taker].side)][p])])

\* Mutant of FillQuantity: the maker's remaining quantity is not a limit.
FillWhole(p) == remaining

FillQuantity(p) == Lesser(remaining, MakerRemaining(p))

MatchLimit ==
    /\ pc = "limit" /\ remaining > 0
    /\ \E p \in Prices :
         /\ IsBest(Opposite(order[taker].side), p)
         /\ Crosses(order[taker].side, order[taker].price, p)
         /\ Trade(p, FillQuantity(p))
    /\ UNCHANGED quoteRemaining

\* Trades of this call whose quantity is less than a unit.
Crumbs == Cardinality({i \in 1 .. Len(result) : result[i].quantity = 0})

\* min(quote_remaining / price, maker.remaining_quantity), in whole units.  A
\* unit is the last digit the Decimal quotient holds: what the division leaves
\* over is a rounding error, which buys crumbs from then on.
QuoteFill(p) ==
    IF Crumbs > 0 THEN 0 ELSE Lesser(quoteRemaining \div p, MakerRemaining(p))

\* The market loop counts base down while it has a quantity, then the budget.
MarketFill(p) == IF remaining > 0 THEN FillQuantity(p) ELSE QuoteFill(p)

\* A budget that stops inside a maker is used up if the rounding of quotient
\* and product happens to close it; otherwise its error is left.
RoundsOff(p, qty) == remaining <= 0 /\ qty < MakerRemaining(p)

MarketWants == remaining > 0 \/ quoteRemaining > 0

\* Each crumb leaves a smaller error; after DustTurns of them the quotient is 0.
MatchMarket ==
    /\ pc = "market" /\ MarketWants
    /\ \E p \in Prices :
         LET qty == MarketFill(p) IN
         /\ IsBest(Opposite(order[taker].side), p)
         /\ qty > 0 \/ Crumbs < DustTurns
         /\ Trade(p, qty)
         /\ \/ quoteRemaining' = quoteRemaining - qty * p
            \/ RoundsOff(p, qty) /\ quoteRemaining' = 0

\* Mutant of DropMaker: the maker is put back, as after a trade.
PutMakerBack ==
    /\ pc = "market" /\ MarketWants
    /\ \E p \in Prices :
         LET side  == Opposite(order[taker].side)
             queue == levels[side][p]
         IN  /\ IsBest(side, p)
             /\ MarketFill(p) <= 0 /\ Crumbs >= DustTurns
             /\ levels' = [levels EXCEPT ![side][p] = Append(Tail(queue), Head(queue))]
    /\ UNCHANGED <<order, totals, ordersById, stopVars, lastTradePrice, callVars>>

\* fill_qty <= 0: the turn ends with the maker popped and not added again.
DropMaker ==
    /\ pc = "market" /\ MarketWants
    /\ \E p \in Prices :
         LET side  == Opposite(order[taker].side)
             queue == levels[side][p]
         IN  /\ IsBest(side, p)
             /\ MarketFill(p) <= 0 /\ Crumbs >= DustTurns
             /\ levels' = [levels EXCEPT ![side][p] = Tail(queue)]
             /\ totals' = [totals EXCEPT ![side][p] = TotalAfterPop(queue, @)]
             /\ ordersById' = ordersById \ {Head(queue)}
    /\ UNCHANGED <<order, stopVars, lastTradePrice, callVars>>

NewLastPrice == IF result = <<>> THEN lastTradePrice ELSE result[Len(result)].price

\* The loop has ended: what _process_limit_order does next.
Rests(ord) == ord.time_in_force \in {"GTC", "GTD"}

\* Mutant of AddToBook: the order is queued but not indexed.
AddUnindexed(o, ord) ==
    /\ levels' = [levels EXCEPT ![ord.side][ord.price] = Append(@, o)]
    /\ totals' = [totals EXCEPT ![ord.side][ord.price] = @ + Remaining(ord)]
    /\ UNCHANGED ordersById

AddToBook(o, ord) ==
    /\ levels' = [levels EXCEPT ![ord.side][ord.price] = Append(@, o)]
    /\ totals' = [totals EXCEPT ![ord.side][ord.price] = @ + Remaining(ord)]
    /\ ordersById' = ordersById \cup {o}

FinishLimit ==
    LET ord    == order[taker]
        status == StatusAfterMatching(ord, "OPEN")
        peak   == VisiblePart(ord)
        resting == IF ord.iceberg_peak > 0
                   THEN [ord EXCEPT !.status = status,
                                    !.quantity = ord.filled_quantity + peak,
                                    !.iceberg_base = Remaining(ord) - peak]
                   ELSE [ord EXCEPT !.status = status]
        dropped == [ord EXCEPT !.status =
                      IF remaining > 0 /\ ord.filled_quantity = 0 THEN "CANCELLED" ELSE status]
    IN  /\ pc = "limit"
        /\ remaining > 0 => ~CanMatch(ord.side, ord.price)
        /\ \/ /\ remaining > 0 /\ Rests(ord)
              /\ order' = [order EXCEPT ![taker] = resting]
              /\ AddToBook(taker, resting)
           \/ /\ ~(remaining > 0 /\ Rests(ord))
              /\ order' = [order EXCEPT ![taker] = dropped]
              /\ UNCHANGED bookVars
        /\ lastTradePrice' = NewLastPrice
        /\ pc' = "stops"
        /\ UNCHANGED <<stopVars, taker, remaining, quoteRemaining, result>>

FinishMarket ==
    /\ pc = "market"
    /\ MarketWants => Occupied(Opposite(order[taker].side)) = {}
    /\ order' = [order EXCEPT ![taker].status = StatusAfterMatching(order[taker], "CANCELLED")]
    /\ lastTradePrice' = NewLastPrice
    /\ pc' = "stops"
    /\ UNCHANGED <<bookVars, stopVars, taker, remaining, quoteRemaining, result>>

-----------------------------------------------------------------------------
(* check_stop_orders: sell stops upwards from the last price, then buy     *)
(* stops downwards from it.                                                *)

StopDue(side, sp) ==
    /\ lastTradePrice # NoPrice
    /\ stops[side][sp] # <<>>
    /\ IF side = "SELL" THEN sp >= lastTradePrice ELSE sp <= lastTradePrice

SweptBefore(side1, sp1, side2, sp2) ==
    \/ side1 = "SELL" /\ side2 = "BUY"
    \/ side1 = side2 /\ Better(side1, sp1, sp2)

FireStops(side, sp) ==
    /\ pc = "stops"
    /\ StopDue(side, sp)
    /\ \A s \in Sides, q \in Prices : StopDue(s, q) => ~SweptBefore(s, q, side, sp)
    /\ pendingStops' = pendingStops \o stops[side][sp]
    /\ stops' = [stops EXCEPT ![side][sp] = <<>>]
    /\ UNCHANGED <<order, bookVars, batches, lastTradePrice, callVars>>

\* process_order returns its MatchResult and releases the lock.
EndCall ==
    /\ pc = "stops"
    /\ \A side \in Sides, sp \in Prices : ~StopDue(side, sp)
    /\ pc' = "idle" /\ taker' = NoOrder
    /\ remaining' = 0 /\ quoteRemaining' = 0 /\ result' = <<>>
    /\ UNCHANGED <<order, bookVars, stopVars, lastTradePrice>>

-----------------------------------------------------------------------------
(* The callers.                                                            *)

Unused == {o \in OrderIds : order[o].status = "UNUSED"}

\* A handler of api/v1/trading.py submits a new order under a fresh uuid4.
\* Fresh ids are interchangeable, so the model takes them in a fixed order.
Submit(req) ==
    /\ Unused # {}
    /\ Process(CHOOSE o \in Unused : TRUE, req)
    /\ UNCHANGED <<pendingStops, batches>>

\* Mutant of GetPendingStops: the list is handed out and not cleared.
CopyPendingStops ==
    /\ pc = "idle" /\ pendingStops # <<>>
    /\ batches' = batches \cup {pendingStops}
    /\ UNCHANGED <<pendingStops, order, bookVars, stops, lastTradePrice, callVars>>

\* get_pending_stop_orders: copy and clear, under the lock.
GetPendingStops ==
    /\ pc = "idle" /\ pendingStops # <<>>
    /\ batches' = batches \cup {pendingStops}
    /\ pendingStops' = <<>>
    /\ UNCHANGED <<order, bookVars, stops, lastTradePrice, callVars>>

RestOf(batch) == IF Len(batch) = 1 THEN {} ELSE {Tail(batch)}

\* process_triggered_stop_orders: the next stop of its list becomes a market
\* or limit order and goes through process_order.
Triggered(ord) ==
    [ord EXCEPT !.order_type = IF @ = "STOP_MARKET" THEN "MARKET" ELSE "LIMIT"]

SubmitTriggered(batch) ==
    /\ Process(Head(batch), Triggered(order[Head(batch)]))
    /\ batches' = (batches \ {batch}) \cup RestOf(batch)
    /\ UNCHANGED pendingStops

\* ... whose database row does not exist: skipped.
SkipTriggered(batch) ==
    /\ pc = "idle"
    /\ batches' = (batches \ {batch}) \cup RestOf(batch)
    /\ UNCHANGED <<order, bookVars, stops, pendingStops, lastTradePrice, callVars>>

\* ... or the handler raises (settlement, database): the list is lost.
LoseBatch(batch) ==
    /\ pc = "idle"
    /\ batches' = batches \ {batch}
    /\ UNCHANGED <<order, bookVars, stops, pendingStops, lastTradePrice, callVars>>

\* Mutant of LevelTotalAfterRemoval: the removed quantity stays in the total.
TotalKept(queue, total, o) == total

\* cancel_order of a resting order; for any other id it changes nothing.
LevelTotalAfterRemoval(queue, total, o) ==
    IF Len(queue) = 1 THEN 0 ELSE total - Remaining(order[o])

\* Mutant of CancelOrder: the order leaves the index but not its level.
CancelInIndexOnly(o) ==
    /\ pc = "idle"
    /\ o \in ordersById
    /\ ordersById' = ordersById \ {o}
    /\ order' = [order EXCEPT ![o].status = "CANCELLED"]
    /\ UNCHANGED <<levels, totals, stopVars, lastTradePrice, callVars>>

CancelOrder(o) ==
    LET side  == order[o].side
        p     == order[o].price
        queue == levels[side][p]
    IN  /\ pc = "idle"
        /\ o \in ordersById
        /\ \E i \in 1 .. Len(queue) :
             /\ queue[i] = o
             /\ levels' = [levels EXCEPT ![side][p] =
                             SubSeq(queue, 1, i - 1) \o SubSeq(queue, i + 1, Len(queue))]
        /\ totals' = [totals EXCEPT ![side][p] = LevelTotalAfterRemoval(queue, @, o)]
        /\ ordersById' = ordersById \ {o}
        /\ order' = [order EXCEPT ![o].status =
                       IF @ \in {"OPEN", "PENDING", "PARTIALLY_FILLED"} THEN "CANCELLED" ELSE @]
        /\ UNCHANGED <<stopVars, lastTradePrice, callVars>>

-----------------------------------------------------------------------------
Blank == [ order_type |-> "LIMIT", side |-> "BUY", price |-> NoPrice, quantity |-> 0,
           filled_quantity |-> 0, quote_quantity |-> 0, stop_price |-> NoPrice,
           time_in_force |-> "GTC", iceberg_peak |-> 0, iceberg_base |-> 0,
           expires |-> FALSE, status |-> "UNUSED" ]

Init ==
    /\ order = [o \in OrderIds |-> Blank]
    /\ levels = [s \in Sides |-> [p \in Prices |-> <<>>]]
    /\ totals = [s \in Sides |-> [p \in Prices |-> 0]]
    /\ ordersById = {}
    /\ stops = [s \in Sides |-> [p \in Prices |-> <<>>]]
    /\ pendingStops = <<>>
    /\ batches = {}
    /\ lastTradePrice = NoPrice
    /\ pc = "idle" /\ taker = NoOrder
    /\ remaining = 0 /\ quoteRemaining = 0 /\ result = <<>>

\* Steps the engine takes on its own once a call has begun.
EngineStep ==
    \/ MatchLimit
    \/ MatchMarket
    \/ DropMaker
    \/ FinishLimit
    \/ FinishMarket
    \/ \E side \in Sides, sp \in Prices : FireStops(side, sp)
    \/ EndCall

CallerStep ==
    \/ \E req \in Requests : Submit(req)
    \/ GetPendingStops
    \/ \E batch \in batches : \/ SubmitTriggered(batch)
                              \/ SkipTriggered(batch)
                              \/ LoseBatch(batch)
    \/ \E o \in OrderIds : CancelOrder(o)

Next == EngineStep \/ CallerStep

\* A call runs to its end: the loops are synchronous code under the lock.
\* Nothing obliges a caller to call.
Spec == Init /\ [][Next]_vars /\ WF_vars(EngineStep)

-----------------------------------------------------------------------------
(* Properties.                                                             *)

TradeType == [maker : OrderIds, price : Prices, quantity : Nat]

\* Every variable keeps the shape the Python objects have; in particular
\* filled quantities never become negative (orders.py, EngineOrder.fill).
TypeOK ==
    /\ order \in [OrderIds -> EngineOrder]
    /\ levels \in [Sides -> [Prices -> Seq(OrderIds)]]
    /\ totals \in [Sides -> [Prices -> Int]]
    /\ ordersById \subseteq OrderIds
    /\ stops \in [Sides -> [Prices -> Seq(OrderIds)]]
    /\ pendingStops \in Seq(OrderIds)
    /\ batches \subseteq Seq(OrderIds) \ {<<>>}
    /\ lastTradePrice \in Prices \cup {NoPrice}
    /\ pc \in {"idle", "limit", "market", "stops"}
    /\ taker \in OrderIds \cup {NoOrder}
    /\ remaining \in Int /\ quoteRemaining \in Int
    /\ result \in Seq(TradeType)

\* The book is never crossed or locked: whatever callers submit and cancel,
\* every resting bid is below every resting ask (engine.py, the price test of
\* _process_limit_order before it lets an order rest).
NotCrossed ==
    \A b, a \in Prices : b \in Occupied("BUY") /\ a \in Occupied("SELL") => b < a

OnLevel(o, side, p) == \E i \in 1 .. Len(levels[side][p]) : levels[side][p][i] = o

\* orders_by_id is exactly the set of orders on the levels, each of them once,
\* at its own side and price, alive and with something left to trade.  Pops,
\* re-adds and cancels maintain the two structures separately (order_book.py).
BookIndexed ==
    /\ \A o \in OrderIds :
         o \in ordersById <=> \E side \in Sides, p \in Prices : OnLevel(o, side, p)
    /\ \A side \in Sides, p \in Prices :
         LET queue == levels[side][p] IN
         /\ \A i, j \in 1 .. Len(queue) : queue[i] = queue[j] => i = j
         /\ \A i \in 1 .. Len(queue) :
              LET ord == order[queue[i]] IN
              /\ ord.side = side /\ ord.price = p
              /\ ord.status \in {"OPEN", "PARTIALLY_FILLED"}
              /\ ord.filled_quantity < ord.quantity

\* PriceLevel.total_quantity, kept by increments, is what the level's orders
\* have left: it is the published depth and what the FOK preflight trusts.
DepthExact ==
    \A side \in Sides, p \in Prices :
        LET queue == levels[side][p] IN
        totals[side][p] = SumFunction([i \in 1 .. Len(queue) |-> Remaining(order[queue[i]])])

\* A fill-or-kill order, seen outside a call, was filled whole or not at all:
\* the preflight on the level totals (_can_fully_fill) agrees with the loop
\* that then trades order by order.
FillOrKill ==
    \A o \in OrderIds :
        order[o].time_in_force = "FOK" /\ o # taker =>
            order[o].filled_quantity \in {0, order[o].quantity}

Waiting(queue, o) == Cardinality({i \in 1 .. Len(queue) : queue[i] = o})

Places(o) ==
      SumFunction([k \in Sides \X Prices |->
                     Waiting(levels[k[1]][k[2]], o) + Waiting(stops[k[1]][k[2]], o)])
    + Waiting(pendingStops, o)
    + SumFunction([batch \in batches |-> Waiting(batch, o)])
    + (IF taker = o /\ pc \in {"limit", "market"} THEN 1 ELSE 0)

\* An order is held in at most one place: book, stop book, triggered stops, a
\* handler's list, or the call in progress.  Held twice, it would be executed
\* twice (check_stop_orders and get_pending_stop_orders move lists about).
HeldOnce == \A o \in OrderIds : Places(o) <= 1

\* Price priority across a whole call: once a taker has traded at a price,
\* nothing better than that price is left on the maker side.
PricePriority ==
    \A i \in 1 .. Len(result) :
        \A p \in Occupied(Opposite(order[taker].side)) :
            ~Better(Opposite(order[taker].side), p, result[i].price)

\* A good-till-cancelled limit order that is not finished and not in a call.
OpenLimit(o) ==
    /\ order[o].order_type = "LIMIT" /\ order[o].time_in_force \in {"GTC", "GTD"}
    /\ order[o].status \in {"OPEN", "PARTIALLY_FILLED"}
    /\ ~(pc = "limit" /\ taker = o)

\* An order with a quote budget has been sent against this side of the book.
BudgetAgainst(side) ==
    \E o \in OrderIds : order[o].side = Opposite(side) /\ order[o].quote_quantity > 0

\* A good-till-cancelled limit order the engine reports as open is really on
\* the book: popping, filling and re-adding a maker never loses it, and what
\* can is only a quote budget spent on the order's own side (engine.py, the
\* turn of _process_market_order that ends with nothing to fill).
OpenOrdersRest ==
    \A o \in OrderIds : OpenLimit(o) => o \in ordersById \/ BudgetAgainst(order[o].side)

FilledOn(side) ==
    SumFunction([o \in OrderIds |->
                   IF order[o].side = side THEN order[o].filled_quantity ELSE 0])

\* What the buyers got is what the sellers gave, in every state, as long as
\* no order has a quote budget (whose fills EngineOrder.fill does not record).
FillsBalance ==
    (\A o \in OrderIds : order[o].quote_quantity = 0) => FilledOn("BUY") = FilledOn("SELL")

Terminal == {"FILLED", "CANCELLED", "REJECTED", "EXPIRED"}

\* An order the engine has finished with never changes again: it is in none
\* of the structures a later match, trigger or cancel could reach it through.
TerminalIsFinal ==
    [][\A o \in OrderIds : order[o].status \in Terminal => order'[o] = order[o]]_vars

\* Every call of process_order returns: the loops, in which a maker goes back
\* on the book and the market loop has two budgets, always end.
CallReturns == pc # "idle" ~> pc = "idle"

-----------------------------------------------------------------------------
(* What the documents say and the code does not do.                        *)

\* docs/ARCHITECTURE.md: each price level is a FIFO queue.  A maker that is
\* filled in part and stays on the book keeps its place in front of those that
\* came later.
TimePriority ==
    [][\A side \in Sides, p \in Prices :
         LET queue == levels[side][p] IN
         \A i, j \in 1 .. Len(queue) :
            i < j /\ {queue[i], queue[j]} \subseteq ordersById' =>
                \E k, l \in 1 .. Len(levels'[side][p]) :
                    /\ k < l
                    /\ levels'[side][p][k] = queue[i] /\ levels'[side][p][l] = queue[j]]_vars

\* docs/ARCHITECTURE.md: limit orders cross at maker prices or rest on the
\* book, the makers a quote budget has met included.
LimitOrdersRest == \A o \in OrderIds : OpenLimit(o) => o \in ordersById
=============================================================================
