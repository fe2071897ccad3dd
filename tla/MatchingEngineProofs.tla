------------------------ MODULE MatchingEngineProofs ------------------------
(***************************************************************************)
(* Theorems about MatchingEngine for every set of orders, prices and       *)
(* requests, checked by TLAPS.                                             *)
(***************************************************************************)
EXTENDS MatchingEngine, SumTheorems, SequenceTheorems, TLAPS

\* An EngineOrder that is well typed and not filled beyond its quantity.
Sound(ord) == ord \in EngineOrder /\ ord.filled_quantity <= ord.quantity

\* A function that gives every id a sound order.
SoundOrders(f) == f \in [OrderIds -> EngineOrder] /\ \A o \in OrderIds : Sound(f[o])

\* A call in progress is about a submitted order.
InCall == pc # "idle" => taker \in OrderIds

\* TypeOK is not inductive on its own: the type of a fill depends on every
\* maker having a non-negative quantity left.
TypeInv == TypeOK /\ SoundOrders(order) /\ InCall

-----------------------------------------------------------------------------
(* Orders.                                                                 *)

\* Single-field updates keep an order well typed and the other fields alone.
LEMMA SetStatus ==
    ASSUME NEW ord \in EngineOrder, NEW st \in Statuses \cup {"UNUSED"}
    PROVE  /\ [ord EXCEPT !.status = st] \in EngineOrder
           /\ Sound(ord) => Sound([ord EXCEPT !.status = st])
           /\ Remaining([ord EXCEPT !.status = st]) = Remaining(ord)
           /\ [ord EXCEPT !.status = st].side = ord.side
           /\ [ord EXCEPT !.status = st].price = ord.price
BY DEF EngineOrder, Sound, Remaining

LEMMA SetFilled ==
    ASSUME NEW ord \in EngineOrder, NEW q \in Nat
    PROVE  /\ [ord EXCEPT !.filled_quantity = q] \in EngineOrder
           /\ [ord EXCEPT !.filled_quantity = q].filled_quantity = q
           /\ [ord EXCEPT !.filled_quantity = q].quantity = ord.quantity
           /\ [ord EXCEPT !.filled_quantity = q].side = ord.side
           /\ [ord EXCEPT !.filled_quantity = q].price = ord.price
BY DEF EngineOrder

LEMMA SetQuantity ==
    ASSUME NEW ord \in EngineOrder, NEW q \in Nat
    PROVE  /\ [ord EXCEPT !.quantity = q] \in EngineOrder
           /\ [ord EXCEPT !.quantity = q].quantity = q
           /\ [ord EXCEPT !.quantity = q].filled_quantity = ord.filled_quantity
           /\ [ord EXCEPT !.quantity = q].side = ord.side
           /\ [ord EXCEPT !.quantity = q].price = ord.price
BY DEF EngineOrder

LEMMA SetBase ==
    ASSUME NEW ord \in EngineOrder, NEW q \in Nat
    PROVE  /\ [ord EXCEPT !.iceberg_base = q] \in EngineOrder
           /\ Sound(ord) => Sound([ord EXCEPT !.iceberg_base = q])
           /\ [ord EXCEPT !.iceberg_base = q].side = ord.side
           /\ [ord EXCEPT !.iceberg_base = q].price = ord.price
BY DEF EngineOrder, Sound

LEMMA SetType ==
    ASSUME NEW ord \in EngineOrder
    PROVE  /\ Triggered(ord) \in EngineOrder
           /\ Sound(ord) => Sound(Triggered(ord))
BY DEF EngineOrder, Sound, Triggered, OrderTypes

\* What remains of a sound order is never negative.
LEMMA RemainingNat ==
    ASSUME NEW ord, Sound(ord)
    PROVE  Remaining(ord) \in Nat
BY DEF Sound, EngineOrder, Remaining

\* EngineOrder.fill keeps an order sound, with its quantity, side and price.
LEMMA FilledOrder ==
    ASSUME NEW ord, Sound(ord), NEW qty \in Nat
    PROVE  /\ Sound(Filled(ord, qty))
           /\ Filled(ord, qty).side = ord.side
           /\ Filled(ord, qty).price = ord.price
<1> DEFINE filled == ord.filled_quantity + Lesser(qty, Remaining(ord))
           status == IF ord.quantity <= filled THEN "FILLED"
                     ELSE IF filled > 0 THEN "PARTIALLY_FILLED" ELSE ord.status
           ord1   == [ord EXCEPT !.filled_quantity = filled]
<1>1. ord \in EngineOrder
  BY DEF Sound
<1>2. filled \in Nat /\ filled <= ord.quantity
  BY DEF Sound, EngineOrder, Lesser, Remaining
<1>3. status \in Statuses \cup {"UNUSED"}
  BY <1>1 DEF EngineOrder, Statuses
<1>4. Filled(ord, qty) = [ord1 EXCEPT !.status = status]
  BY DEF Filled
<1> HIDE DEF filled, status
<1>5. /\ ord1 \in EngineOrder /\ Sound(ord1)
      /\ ord1.side = ord.side /\ ord1.price = ord.price
  BY <1>1, <1>2, SetFilled DEF Sound
<1> HIDE DEF ord1
<1> QED
  BY <1>3, <1>4, <1>5, SetStatus

\* Replacing one order by a sound one keeps all of them sound.
LEMMA SoundUpdate ==
    ASSUME NEW f, SoundOrders(f), NEW o \in OrderIds, NEW ord, Sound(ord)
    PROVE  SoundOrders([f EXCEPT ![o] = ord])
BY DEF SoundOrders, Sound

\* StatusAfterMatching yields statuses.
LEMMA StatusAfterMatchingType ==
    ASSUME NEW ord, NEW st \in Statuses
    PROVE  StatusAfterMatching(ord, st) \in Statuses
BY DEF StatusAfterMatching, Statuses

\* Replacing the entry of one side and price keeps a two-level map typed.
LEMMA LevelUpdate ==
    ASSUME NEW S, NEW f \in [Sides -> [Prices -> S]], NEW side, NEW p, NEW v,
           side \in Sides /\ p \in Prices => v \in S
    PROVE  [f EXCEPT ![side][p] = v] \in [Sides -> [Prices -> S]]
OBVIOUS

LEMMA ProductInt == \A m, n \in Int : m * n \in Int
OBVIOUS

-----------------------------------------------------------------------------
(* Steps.                                                                  *)

\* The initial state is well typed.
LEMMA TypeInit == Init => TypeInv
<1> SUFFICES ASSUME Init PROVE TypeInv
  OBVIOUS
<1>1. Blank \in EngineOrder /\ Sound(Blank)
  BY DEF Blank, EngineOrder, Sound, OrderTypes, Sides, TimeInForce, NoPrice
<1>2. SoundOrders(order)
  BY <1>1 DEF Init, SoundOrders
<1> QED
  BY <1>2 DEF Init, TypeInv, TypeOK, SoundOrders, InCall, NoPrice, Sides

\* Replacing the order of one id by a sound one, whatever the step is.
LEMMA ProcessType ==
    ASSUME TypeInv, NEW o \in OrderIds, NEW ord, Sound(ord), Process(o, ord),
           pendingStops' \in Seq(OrderIds), batches' \subseteq Seq(OrderIds) \ {<<>>}
    PROVE  TypeInv'
<1>1. ord \in EngineOrder
  BY DEF Sound
<1>2. CASE Expire(o, ord)
  <2>1. SoundOrders(order')
    BY <1>1, <1>2, SetStatus, SoundUpdate DEF Expire, TypeInv, Statuses
  <2> QED
    BY <1>2, <2>1 DEF Expire, TypeInv, TypeOK, SoundOrders, InCall, bookVars, callVars
<1>3. CASE KillFillOrKill(o, ord)
  <2>1. SoundOrders(order')
    BY <1>1, <1>3, SetStatus, SoundUpdate DEF KillFillOrKill, TypeInv, Statuses
  <2> QED
    BY <1>3, <2>1 DEF KillFillOrKill, TypeInv, TypeOK, SoundOrders, InCall, bookVars, callVars
<1>4. CASE StartMatching(o, ord)
  <2> DEFINE started == IF ord.order_type = "LIMIT"
                        THEN [ord EXCEPT !.status = "OPEN"] ELSE ord
  <2>1. Sound(started)
    BY <1>1, SetStatus DEF Statuses
  <2>2. order' = [order EXCEPT ![o] = started]
    BY <1>4 DEF StartMatching
  <2> HIDE DEF started
  <2>3. SoundOrders(order')
    BY <2>1, <2>2, SoundUpdate DEF TypeInv
  <2>4. ord.quantity \in Nat /\ ord.quote_quantity \in Nat
    BY <1>1 DEF EngineOrder
  <2>5. /\ taker' = o /\ remaining' = ord.quantity /\ quoteRemaining' = ord.quote_quantity
        /\ pc' \in {"limit", "market"}
        /\ UNCHANGED <<bookVars, stops, lastTradePrice, result>>
    BY <1>4 DEF StartMatching
  <2> QED
    BY <2>3, <2>4, <2>5 DEF TypeInv, TypeOK, SoundOrders, InCall, bookVars
<1>5. CASE RestStop(o, ord)
  <2>1. SoundOrders(order')
    BY <1>1, <1>5, SetStatus, SoundUpdate DEF RestStop, TypeInv, Statuses
  <2> DEFINE side == ord.side
             sp   == ord.stop_price
             v    == Append(stops[side][sp], o)
  <2>2. stops' = [stops EXCEPT ![side][sp] = v]
    BY <1>5 DEF RestStop
  <2>3. side \in Sides /\ sp \in Prices => v \in Seq(OrderIds)
    BY DEF TypeInv, TypeOK
  <2>4. stops \in [Sides -> [Prices -> Seq(OrderIds)]]
    BY DEF TypeInv, TypeOK
  <2> HIDE DEF side, sp, v
  <2>5. stops' \in [Sides -> [Prices -> Seq(OrderIds)]]
    BY <2>2, <2>3, <2>4, LevelUpdate
  <2> QED
    BY <1>5, <2>1, <2>5 DEF RestStop, TypeInv, TypeOK, SoundOrders, InCall, bookVars, callVars
<1> QED
  BY <1>2, <1>3, <1>4, <1>5 DEF Process


\* A trade: maker and taker stay sound, the book and the result stay typed.
LEMMA TradePreservesTypes ==
    ASSUME TypeInv, pc # "idle", NEW p \in Prices, NEW qty \in Nat,
           p \in Occupied(Opposite(order[taker].side)), Trade(p, qty)
    PROVE  /\ SoundOrders(order')
           /\ levels' \in [Sides -> [Prices -> Seq(OrderIds)]]
           /\ totals' \in [Sides -> [Prices -> Int]]
           /\ ordersById' \subseteq OrderIds
           /\ remaining' \in Int
           /\ result' \in Seq(TradeType)
<1> DEFINE side  == Opposite(order[taker].side)
           queue == levels[side][p]
           maker == Head(queue)
           after == Filled(order[maker], qty)
           rests == Remaining(after) > 0
           mid   == [order EXCEPT ![maker] = after]
<1>1. taker \in OrderIds /\ side \in Sides
  BY DEF TypeInv, InCall, Opposite, Sides
<1>2. queue \in Seq(OrderIds) /\ queue # <<>> /\ maker \in OrderIds
  BY <1>1 DEF TypeInv, TypeOK, Occupied
<1>3. Sound(order[maker]) /\ SoundOrders(order)
  BY <1>2 DEF TypeInv, SoundOrders
<1>4. Sound(after)
  BY <1>3, FilledOrder
<1>5. SoundOrders(order')
  <2> DEFINE bought == Filled(order[taker], qty)
  <2>1. order' = [mid EXCEPT ![taker] = bought]
    BY DEF Trade
  <2>2. SoundOrders(mid)
    BY <1>2, <1>3, <1>4, SoundUpdate
  <2>3. Sound(bought)
    BY <1>1, <1>3, FilledOrder DEF SoundOrders
  <2> HIDE DEF mid, bought
  <2> QED
    BY <1>1, <2>1, <2>2, <2>3, SoundUpdate
<1>6. levels' \in [Sides -> [Prices -> Seq(OrderIds)]]
  <2>1. QueueAfterFill(queue, rests) \in Seq(OrderIds)
    BY <1>2 DEF QueueAfterFill
  <2>2. levels' = [levels EXCEPT ![side][p] = QueueAfterFill(queue, rests)]
    BY DEF Trade
  <2>3. levels \in [Sides -> [Prices -> Seq(OrderIds)]]
    BY DEF TypeInv, TypeOK
  <2> HIDE DEF side, queue, rests
  <2> QED
    BY <2>1, <2>2, <2>3, LevelUpdate
<1>7. totals' \in [Sides -> [Prices -> Int]]
  <2> DEFINE v == TotalAfterPop(queue, totals[side][p]) + Remaining(after)
  <2>1. totals \in [Sides -> [Prices -> Int]]
    BY DEF TypeInv, TypeOK
  <2>2. Remaining(after) \in Nat /\ Remaining(order[maker]) \in Nat
    BY <1>3, <1>4, RemainingNat
  <2>3. v \in Int
    BY SMTT(30), <1>1, <2>1, <2>2 DEF TotalAfterPop
  <2>4. totals' = [totals EXCEPT ![side][p] = v]
    BY DEF Trade
  <2> HIDE DEF v, side
  <2> QED
    BY <2>1, <2>3, <2>4, LevelUpdate
<1>8. ordersById' \subseteq OrderIds
  BY DEF Trade, TypeInv, TypeOK
<1>9. remaining' \in Int
  BY SMTT(30) DEF Trade, TypeInv, TypeOK
<1>10. result' \in Seq(TradeType)
  <2>1. result' = Append(result, [maker |-> maker, price |-> p, quantity |-> qty])
    BY DEF Trade
  <2>2. [maker |-> maker, price |-> p, quantity |-> qty] \in TradeType
    BY <1>2 DEF TradeType
  <2> QED
    BY <2>1, <2>2 DEF TypeInv, TypeOK
<1> QED
  BY <1>5, <1>6, <1>7, <1>8, <1>9, <1>10


\* The level of an occupied best price has a maker with something that can
\* be filled: the quantity a limit taker trades is a natural number.
LEMMA FillQuantityNat ==
    ASSUME TypeInv, pc # "idle", remaining > 0, NEW p \in Prices,
           p \in Occupied(Opposite(order[taker].side))
    PROVE  FillQuantity(p) \in Nat
<1> DEFINE side  == Opposite(order[taker].side)
           maker == Head(levels[side][p])
<1>1. maker \in OrderIds
  BY DEF TypeInv, TypeOK, InCall, Opposite, Sides, Occupied
<1>2. Remaining(order[maker]) \in Nat
  BY <1>1, RemainingNat DEF TypeInv, SoundOrders
<1> QED
  BY <1>2 DEF FillQuantity, MakerRemaining, Lesser, TypeInv, TypeOK

LEMMA MatchLimitType == TypeInv /\ MatchLimit => TypeInv'
<1> SUFFICES ASSUME TypeInv, MatchLimit PROVE TypeInv'
  OBVIOUS
<1>1. PICK p \in Prices : /\ IsBest(Opposite(order[taker].side), p)
                          /\ Trade(p, FillQuantity(p))
  BY DEF MatchLimit
<1>2. p \in Occupied(Opposite(order[taker].side)) /\ pc # "idle" /\ remaining > 0
  BY <1>1 DEF IsBest, MatchLimit
<1>3. FillQuantity(p) \in Nat
  BY <1>2, FillQuantityNat
<1>4. /\ SoundOrders(order')
      /\ levels' \in [Sides -> [Prices -> Seq(OrderIds)]]
      /\ totals' \in [Sides -> [Prices -> Int]]
      /\ ordersById' \subseteq OrderIds
      /\ remaining' \in Int
      /\ result' \in Seq(TradeType)
  BY <1>1, <1>2, <1>3, TradePreservesTypes
<1>5. UNCHANGED <<stopVars, lastTradePrice, pc, taker, quoteRemaining>>
  BY <1>1 DEF Trade, MatchLimit
<1> QED
  BY <1>4, <1>5 DEF TypeInv, TypeOK, SoundOrders, InCall, stopVars

\* The best maker of an occupied price.
LEMMA MakerRemainingNat ==
    ASSUME TypeInv, pc # "idle", NEW p \in Prices, p \in Occupied(Opposite(order[taker].side))
    PROVE  MakerRemaining(p) \in Nat
<1>1. Head(levels[Opposite(order[taker].side)][p]) \in OrderIds
  BY DEF Occupied, TypeInv, TypeOK, InCall, Opposite, Sides
<1> QED
  BY <1>1, RemainingNat DEF TypeInv, SoundOrders, MakerRemaining

LEMMA QuotientNat == \A m, n \in Nat : n # 0 => m \div n \in Nat
OBVIOUS

\* What a turn of the market loop fills is a natural number and no more than
\* the maker, or the taker's quantity, has left.
LEMMA MarketFillNat ==
    ASSUME TypeInv, pc # "idle", MarketWants, NEW p \in Prices,
           p \in Occupied(Opposite(order[taker].side))
    PROVE  /\ MarketFill(p) \in Nat /\ MarketFill(p) <= MakerRemaining(p)
           /\ remaining > 0 => MarketFill(p) <= remaining
<1>1. MakerRemaining(p) \in Nat /\ remaining \in Int /\ quoteRemaining \in Int
  BY MakerRemainingNat DEF TypeInv, TypeOK
<1>2. CASE remaining > 0
  BY <1>1, <1>2, FillQuantityNat DEF MarketFill, FillQuantity, Lesser
<1>3. CASE ~(remaining > 0)
  <2>1. quoteRemaining \in Nat /\ p \in Nat /\ p # 0
    BY <1>1, <1>3, PricesAssumption DEF MarketWants
  <2>2. quoteRemaining \div p \in Nat
    BY <2>1, QuotientNat
  <2> QED
    BY <1>1, <1>3, <2>2 DEF MarketFill, QuoteFill, Lesser
<1> QED
  BY <1>2, <1>3

LEMMA MatchMarketType == TypeInv /\ MatchMarket => TypeInv'
<1> SUFFICES ASSUME TypeInv, MatchMarket PROVE TypeInv'
  OBVIOUS
<1>0. PICK p \in Prices :
        /\ IsBest(Opposite(order[taker].side), p)
        /\ Trade(p, MarketFill(p))
        /\ quoteRemaining' \in {quoteRemaining - MarketFill(p) * p, 0}
  BY DEF MatchMarket
<1> DEFINE qty == MarketFill(p)
<1>1. Trade(p, qty) /\ quoteRemaining' \in {quoteRemaining - qty * p, 0}
  BY <1>0
<1>2. p \in Occupied(Opposite(order[taker].side)) /\ pc # "idle" /\ qty \in Nat
  BY <1>0, MarketFillNat DEF IsBest, MatchMarket
<1> HIDE DEF qty
<1>3. quoteRemaining' \in Int
  <2>1. p \in Int /\ qty \in Int /\ quoteRemaining \in Int
    BY <1>2, PricesAssumption DEF TypeInv, TypeOK
  <2>2. qty * p \in Int
    BY <2>1, ProductInt
  <2> QED
    BY <1>1, <2>1, <2>2
<1>4. /\ SoundOrders(order')
      /\ levels' \in [Sides -> [Prices -> Seq(OrderIds)]]
      /\ totals' \in [Sides -> [Prices -> Int]]
      /\ ordersById' \subseteq OrderIds
      /\ remaining' \in Int
      /\ result' \in Seq(TradeType)
  BY <1>1, <1>2, TradePreservesTypes
<1>5. UNCHANGED <<stopVars, lastTradePrice, pc, taker>>
  BY <1>1 DEF Trade
<1> QED
  BY <1>3, <1>4, <1>5 DEF TypeInv, TypeOK, SoundOrders, InCall, stopVars


\* The price of the last trade of the call, if there was one.
LEMMA TailType ==
    ASSUME NEW queue \in Seq(OrderIds), queue # <<>>
    PROVE  Tail(queue) \in Seq(OrderIds) /\ Head(queue) \in OrderIds
BY EmptySeq, HeadTailProperties

LEMMA DropMakerType == TypeInv /\ DropMaker => TypeInv'
<1> SUFFICES ASSUME TypeInv, DropMaker PROVE TypeInv'
  OBVIOUS
<1> DEFINE side == Opposite(order[taker].side)
<1>1. PICK p \in Prices :
        /\ IsBest(side, p)
        /\ levels' = [levels EXCEPT ![side][p] = Tail(levels[side][p])]
        /\ totals' = [totals EXCEPT ![side][p] = TotalAfterPop(levels[side][p], @)]
        /\ ordersById' = ordersById \ {Head(levels[side][p])}
  BY DEF DropMaker
<1>2. UNCHANGED <<order, stopVars, lastTradePrice, callVars>>
  BY DEF DropMaker
<1> DEFINE queue == levels[side][p]
           total == TotalAfterPop(queue, totals[side][p])
<1>3. side \in Sides /\ queue \in Seq(OrderIds) /\ queue # <<>>
  BY <1>1 DEF TypeInv, TypeOK, InCall, Opposite, Sides, DropMaker, IsBest, Occupied
<1>4. Tail(queue) \in Seq(OrderIds) /\ Head(queue) \in OrderIds
  <2> HIDE DEF queue
  <2> QED
    BY <1>3, TailType
<1>5. total \in Int
  <2>1. Remaining(order[Head(queue)]) \in Nat
    BY <1>4, RemainingNat DEF TypeInv, SoundOrders
  <2> QED
    BY <1>3, <2>1 DEF TotalAfterPop, TypeInv, TypeOK
<1>6. /\ levels' = [levels EXCEPT ![side][p] = Tail(queue)]
      /\ totals' = [totals EXCEPT ![side][p] = total]
      /\ levels \in [Sides -> [Prices -> Seq(OrderIds)]]
      /\ totals \in [Sides -> [Prices -> Int]]
  BY <1>1 DEF TypeInv, TypeOK
<1> HIDE DEF side, queue, total
<1>7. /\ levels' \in [Sides -> [Prices -> Seq(OrderIds)]]
      /\ totals' \in [Sides -> [Prices -> Int]]
  BY <1>3, <1>4, <1>5, <1>6, LevelUpdate
<1>8. ordersById' \subseteq OrderIds
  BY <1>1 DEF TypeInv, TypeOK
<1> QED
  BY <1>2, <1>7, <1>8 DEF TypeInv, TypeOK, SoundOrders, InCall, stopVars, callVars

LEMMA NewLastPriceType ==
    ASSUME TypeInv
    PROVE  NewLastPrice \in Prices \cup {NoPrice}
<1>1. CASE result = <<>>
  BY <1>1 DEF NewLastPrice, TypeInv, TypeOK
<1>2. CASE result # <<>>
  <2>1. Len(result) \in 1 .. Len(result)
    BY <1>2 DEF TypeInv, TypeOK
  <2>2. result[Len(result)] \in TradeType
    BY <2>1 DEF TypeInv, TypeOK
  <2> QED
    BY <1>2, <2>2 DEF NewLastPrice, TradeType
<1> QED
  BY <1>1, <1>2

\* What an iceberg order looks like when it rests: its quantity shrinks to
\* what is filled plus the visible part, and stays sound.
LEMMA RestingIceberg ==
    ASSUME NEW ord, Sound(ord), NEW st \in Statuses, VisiblePart(ord) \in Nat
    PROVE  LET rested == [ord EXCEPT !.status = st,
                                     !.quantity = ord.filled_quantity + VisiblePart(ord),
                                     !.iceberg_base = Remaining(ord) - VisiblePart(ord)]
           IN  Sound(rested) /\ rested.side = ord.side /\ rested.price = ord.price
<1> DEFINE shown  == ord.filled_quantity + VisiblePart(ord)
           hidden == Remaining(ord) - VisiblePart(ord)
           ord1   == [ord EXCEPT !.status = st]
           ord2   == [ord1 EXCEPT !.quantity = shown]
           ord3   == [ord2 EXCEPT !.iceberg_base = hidden]
<1>1. ord \in EngineOrder /\ ord.filled_quantity \in Nat
  BY DEF Sound, EngineOrder
<1>2. shown \in Nat /\ ord.filled_quantity <= shown
  BY <1>1
<1>3. hidden \in Nat
  BY <1>1, RemainingNat DEF VisiblePart, Lesser, EngineOrder
<1>4. [ord EXCEPT !.status = st, !.quantity = shown, !.iceberg_base = hidden] = ord3
  OBVIOUS
<1> HIDE DEF shown, hidden
<1>5. /\ ord1 \in EngineOrder /\ ord1.filled_quantity = ord.filled_quantity
      /\ ord1.side = ord.side /\ ord1.price = ord.price
  BY <1>1, SetStatus DEF EngineOrder
<1> HIDE DEF ord1
<1>6. ord2 \in EngineOrder /\ Sound(ord2) /\ ord2.side = ord.side /\ ord2.price = ord.price
  BY <1>2, <1>5, SetQuantity DEF Sound
<1> HIDE DEF ord2
<1>7. Sound(ord3) /\ ord3.side = ord.side /\ ord3.price = ord.price
  BY <1>3, <1>6, SetBase
<1> QED
  BY <1>4, <1>7 DEF shown, hidden

\* Resting the taker appends it to the level of its side and price.
LEMMA AddToBookType ==
    ASSUME TypeInv, NEW o \in OrderIds, NEW ord, Sound(ord), AddToBook(o, ord)
    PROVE  /\ levels' \in [Sides -> [Prices -> Seq(OrderIds)]]
           /\ totals' \in [Sides -> [Prices -> Int]]
           /\ ordersById' \subseteq OrderIds
<1> DEFINE side  == ord.side
           p     == ord.price
           queue == Append(levels[side][p], o)
           total == totals[side][p] + Remaining(ord)
<1>1. /\ levels' = [levels EXCEPT ![side][p] = queue]
      /\ totals' = [totals EXCEPT ![side][p] = total]
      /\ ordersById' = ordersById \cup {o}
  BY DEF AddToBook
<1>2. /\ side \in Sides /\ p \in Prices => queue \in Seq(OrderIds)
      /\ side \in Sides /\ p \in Prices => total \in Int
  BY RemainingNat DEF TypeInv, TypeOK
<1>3. /\ levels \in [Sides -> [Prices -> Seq(OrderIds)]]
      /\ totals \in [Sides -> [Prices -> Int]]
      /\ ordersById \subseteq OrderIds
  BY DEF TypeInv, TypeOK
<1> HIDE DEF side, p, queue, total
<1> QED
  BY <1>1, <1>2, <1>3, LevelUpdate

LEMMA FinishLimitType == TypeInv /\ FinishLimit => TypeInv'
<1> SUFFICES ASSUME TypeInv, FinishLimit PROVE TypeInv'
  OBVIOUS
<1> DEFINE ord     == order[taker]
           status  == StatusAfterMatching(ord, "OPEN")
           peak    == VisiblePart(ord)
           resting == IF ord.iceberg_peak > 0
                      THEN [ord EXCEPT !.status = status,
                                       !.quantity = ord.filled_quantity + peak,
                                       !.iceberg_base = Remaining(ord) - peak]
                      ELSE [ord EXCEPT !.status = status]
           last    == IF remaining > 0 /\ ord.filled_quantity = 0 THEN "CANCELLED" ELSE status
           dropped == [ord EXCEPT !.status = last]
<1>1. taker \in OrderIds /\ Sound(ord) /\ ord \in EngineOrder
  BY DEF FinishLimit, TypeInv, InCall, SoundOrders, Sound
<1>2. status \in Statuses /\ last \in Statuses
  BY <1>1, StatusAfterMatchingType DEF Statuses
<1>3. peak \in Nat
  BY <1>1, RemainingNat DEF VisiblePart, Lesser, EngineOrder
<1>4. Sound(resting) /\ Sound(dropped)
  BY <1>1, <1>2, <1>3, RestingIceberg, SetStatus
<1>5. \/ order' = [order EXCEPT ![taker] = resting] /\ AddToBook(taker, resting)
      \/ order' = [order EXCEPT ![taker] = dropped] /\ UNCHANGED bookVars
  BY DEF FinishLimit
<1>6. /\ lastTradePrice' \in Prices \cup {NoPrice}
      /\ pc' = "stops"
      /\ UNCHANGED <<stopVars, taker, remaining, quoteRemaining, result>>
  BY NewLastPriceType DEF FinishLimit
<1> HIDE DEF resting, dropped
<1>7. SoundOrders(order')
  BY <1>1, <1>4, <1>5, SoundUpdate DEF TypeInv
<1>8. /\ levels' \in [Sides -> [Prices -> Seq(OrderIds)]]
      /\ totals' \in [Sides -> [Prices -> Int]]
      /\ ordersById' \subseteq OrderIds
  BY <1>1, <1>4, <1>5, AddToBookType DEF bookVars, TypeInv, TypeOK
<1> QED
  BY <1>1, <1>6, <1>7, <1>8 DEF TypeInv, TypeOK, SoundOrders, InCall, stopVars

LEMMA FinishMarketType == TypeInv /\ FinishMarket => TypeInv'
<1> SUFFICES ASSUME TypeInv, FinishMarket PROVE TypeInv'
  OBVIOUS
<1> DEFINE status == StatusAfterMatching(order[taker], "CANCELLED")
           done   == [order[taker] EXCEPT !.status = status]
<1>1. taker \in OrderIds /\ Sound(order[taker]) /\ order[taker] \in EngineOrder
  BY DEF FinishMarket, TypeInv, InCall, SoundOrders, Sound
<1>2. Sound(done)
  BY <1>1, StatusAfterMatchingType, SetStatus DEF Statuses
<1>3. order' = [order EXCEPT ![taker] = done]
  BY DEF FinishMarket
<1> HIDE DEF done
<1>4. SoundOrders(order')
  BY <1>1, <1>2, <1>3, SoundUpdate DEF TypeInv
<1>5. /\ lastTradePrice' \in Prices \cup {NoPrice}
      /\ pc' = "stops"
      /\ UNCHANGED <<bookVars, stopVars, taker, remaining, quoteRemaining, result>>
  BY NewLastPriceType DEF FinishMarket
<1> QED
  BY <1>1, <1>4, <1>5 DEF TypeInv, TypeOK, SoundOrders, InCall, stopVars, bookVars


LEMMA FireStopsType ==
    ASSUME TypeInv, NEW side \in Sides, NEW sp \in Prices, FireStops(side, sp)
    PROVE  TypeInv'
<1>1. pendingStops' \in Seq(OrderIds)
  BY DEF FireStops, TypeInv, TypeOK
<1>2. stops' \in [Sides -> [Prices -> Seq(OrderIds)]]
  <2>1. /\ stops \in [Sides -> [Prices -> Seq(OrderIds)]]
        /\ stops' = [stops EXCEPT ![side][sp] = <<>>]
        /\ <<>> \in Seq(OrderIds)
    BY DEF FireStops, TypeInv, TypeOK
  <2> QED
    BY <2>1, LevelUpdate
<1> QED
  BY <1>1, <1>2 DEF FireStops, TypeInv, TypeOK, SoundOrders, InCall, bookVars, callVars

LEMMA EndCallType == TypeInv /\ EndCall => TypeInv'
BY DEF EndCall, TypeInv, TypeOK, SoundOrders, InCall, bookVars, stopVars

\* Taking one stop off a handler's list leaves lists of order ids.
LEMMA RestOfType ==
    ASSUME TypeInv, NEW batch \in batches
    PROVE  /\ Head(batch) \in OrderIds
           /\ (batches \ {batch}) \cup RestOf(batch) \subseteq Seq(OrderIds) \ {<<>>}
<1>1. batch \in Seq(OrderIds) /\ batch # <<>>
  BY DEF TypeInv, TypeOK
<1>2. RestOf(batch) \subseteq Seq(OrderIds) \ {<<>>}
  <2>1. CASE Len(batch) = 1
    BY <2>1 DEF RestOf
  <2>2. CASE Len(batch) # 1
    <3>1. Tail(batch) \in Seq(OrderIds) /\ Len(Tail(batch)) = Len(batch) - 1
      BY <1>1
    <3>2. Len(batch) \in Nat /\ Len(batch) # 0
      BY <1>1
    <3>3. Tail(batch) # <<>>
      <4>1. Len(<<>>) = 0
        BY EmptySeq
      <4>2. Len(Tail(batch)) # Len(<<>>)
        BY <2>2, <3>1, <3>2, <4>1
      <4> QED
        BY <4>2, Zenon
    <3> QED
      BY <2>2, <3>1, <3>3 DEF RestOf
  <2> QED
    BY <2>1, <2>2
<1> QED
  BY <1>1, <1>2 DEF TypeInv, TypeOK

LEMMA SubmitType ==
    ASSUME TypeInv, NEW req \in Requests, Submit(req)
    PROVE  TypeInv'
<1> DEFINE o == CHOOSE x \in Unused : TRUE
<1>1. o \in OrderIds
  BY DEF Submit, Unused
<1>2. Sound(req)
  BY RequestsAssumption DEF WellFormed, Sound, EngineOrder
<1>3. Process(o, req)
  BY DEF Submit
<1> HIDE DEF o
<1> QED
  BY <1>1, <1>2, <1>3, ProcessType DEF Submit, TypeInv, TypeOK

LEMMA SubmitTriggeredType ==
    ASSUME TypeInv, NEW batch \in batches, SubmitTriggered(batch)
    PROVE  TypeInv'
<1> DEFINE o   == Head(batch)
           ord == Triggered(order[o])
<1>1. o \in OrderIds
  BY RestOfType
<1>2. Sound(ord)
  BY <1>1, SetType DEF TypeInv, SoundOrders, Sound
<1>3. Process(o, ord)
  BY DEF SubmitTriggered
<1>4. pendingStops' \in Seq(OrderIds) /\ batches' \subseteq Seq(OrderIds) \ {<<>>}
  BY RestOfType DEF SubmitTriggered, TypeInv, TypeOK
<1> HIDE DEF o, ord
<1> QED
  BY <1>1, <1>2, <1>3, <1>4, ProcessType

\* Deleting one position of a sequence.
LEMMA WithoutType ==
    ASSUME NEW queue \in Seq(OrderIds), NEW i \in 1 .. Len(queue)
    PROVE  SubSeq(queue, 1, i - 1) \o SubSeq(queue, i + 1, Len(queue)) \in Seq(OrderIds)
<1>1. SubSeq(queue, 1, i - 1) \in Seq(OrderIds)
  OBVIOUS
<1>2. SubSeq(queue, i + 1, Len(queue)) \in Seq(OrderIds)
  OBVIOUS
<1> QED
  BY <1>1, <1>2

LEMMA CancelOrderType ==
    ASSUME TypeInv, NEW o \in OrderIds, CancelOrder(o)
    PROVE  TypeInv'
<1> DEFINE side   == order[o].side
           p      == order[o].price
           queue  == levels[side][p]
           total  == LevelTotalAfterRemoval(queue, totals[side][p], o)
           status == IF order[o].status \in {"OPEN", "PENDING", "PARTIALLY_FILLED"}
                     THEN "CANCELLED" ELSE order[o].status
           done   == [order[o] EXCEPT !.status = status]
<1>1. Sound(order[o]) /\ order[o] \in EngineOrder
  BY DEF TypeInv, SoundOrders, Sound
<1>2. SoundOrders(order')
  <2>1. status \in Statuses \cup {"UNUSED"}
    BY <1>1 DEF EngineOrder, Statuses
  <2>2. Sound(done)
    BY <1>1, <2>1, SetStatus
  <2>3. order' = [order EXCEPT ![o] = done]
    BY DEF CancelOrder
  <2> HIDE DEF done
  <2> QED
    BY <2>2, <2>3, SoundUpdate DEF TypeInv
<1>3. levels' \in [Sides -> [Prices -> Seq(OrderIds)]]
  <2> DEFINE without(i) == SubSeq(queue, 1, i - 1) \o SubSeq(queue, i + 1, Len(queue))
  <2>1. PICK i \in 1 .. Len(queue) : levels' = [levels EXCEPT ![side][p] = without(i)]
    BY DEF CancelOrder
  <2>2. ASSUME side \in Sides, p \in Prices PROVE without(i) \in Seq(OrderIds)
    BY <2>2, WithoutType DEF TypeInv, TypeOK
  <2>3. levels \in [Sides -> [Prices -> Seq(OrderIds)]]
    BY DEF TypeInv, TypeOK
  <2> HIDE DEF side, p, without
  <2> QED
    BY <2>1, <2>2, <2>3, LevelUpdate
<1>4. totals' \in [Sides -> [Prices -> Int]]
  <2>1. totals' = [totals EXCEPT ![side][p] = total]
    BY DEF CancelOrder
  <2>2. side \in Sides /\ p \in Prices => total \in Int
    BY <1>1, RemainingNat DEF TypeInv, TypeOK, LevelTotalAfterRemoval
  <2>3. totals \in [Sides -> [Prices -> Int]]
    BY DEF TypeInv, TypeOK
  <2> HIDE DEF side, p, total
  <2> QED
    BY <2>1, <2>2, <2>3, LevelUpdate
<1> QED
  BY <1>2, <1>3, <1>4 DEF CancelOrder, TypeInv, TypeOK, SoundOrders, InCall, stopVars, callVars

-----------------------------------------------------------------------------
\* Every step, and stuttering, preserves the inductive invariant.
LEMMA TypeStep == TypeInv /\ [Next]_vars => TypeInv'
<1> SUFFICES ASSUME TypeInv, [Next]_vars PROVE TypeInv'
  OBVIOUS
<1>1. CASE MatchLimit
  BY <1>1, MatchLimitType
<1>2. CASE MatchMarket
  BY <1>2, MatchMarketType
<1>3. CASE FinishLimit
  BY <1>3, FinishLimitType
<1>4. CASE FinishMarket
  BY <1>4, FinishMarketType
<1>5. ASSUME NEW side \in Sides, NEW sp \in Prices, FireStops(side, sp) PROVE TypeInv'
  BY <1>5, FireStopsType
<1>6. CASE EndCall
  BY <1>6, EndCallType
<1>7. ASSUME NEW req \in Requests, Submit(req) PROVE TypeInv'
  BY <1>7, SubmitType
<1>8. CASE GetPendingStops
  BY <1>8 DEF GetPendingStops, TypeInv, TypeOK, SoundOrders, InCall, bookVars, callVars
<1>9. ASSUME NEW batch \in batches, SubmitTriggered(batch) PROVE TypeInv'
  BY <1>9, SubmitTriggeredType
<1>10. ASSUME NEW batch \in batches, SkipTriggered(batch) PROVE TypeInv'
  BY <1>10, RestOfType DEF SkipTriggered, TypeInv, TypeOK, SoundOrders, InCall, bookVars, callVars
<1>11. ASSUME NEW batch \in batches, LoseBatch(batch) PROVE TypeInv'
  BY <1>11 DEF LoseBatch, TypeInv, TypeOK, SoundOrders, InCall, bookVars, callVars
<1>12. ASSUME NEW o \in OrderIds, CancelOrder(o) PROVE TypeInv'
  BY <1>12, CancelOrderType
<1>13. CASE UNCHANGED vars
  BY <1>13 DEF vars, bookVars, stopVars, callVars, TypeInv, TypeOK, SoundOrders, InCall
<1>14. CASE DropMaker
  BY <1>14, DropMakerType
<1> QED
  BY <1>1, <1>2, <1>3, <1>4, <1>5, <1>6, <1>7, <1>8, <1>9, <1>10, <1>11, <1>12, <1>13, <1>14
     DEF Next, EngineStep, CallerStep

\* For any orders, prices and requests: every reachable state of the engine
\* is well typed, no order is filled beyond its quantity, and a call in
\* progress has a taker (orders.py, EngineOrder.fill; engine.py, both loops).
THEOREM TypeCorrect == Spec => []TypeOK
<1>1. Spec => []TypeInv
  BY TypeInit, TypeStep, PTL DEF Spec
<1>2. TypeInv => TypeOK
  BY DEF TypeInv
<1> QED
  BY <1>1, <1>2, PTL

-----------------------------------------------------------------------------
(* The book is never crossed.                                              *)

\* A step after which no side has a newly occupied price keeps the book
\* uncrossed.
LEMMA ShrinkingBook ==
    ASSUME NotCrossed, \A s \in Sides : Occupied(s)' \subseteq Occupied(s)
    PROVE  NotCrossed'
BY DEF NotCrossed, Sides

\* A trade happens on an occupied price and occupies no other.
LEMMA TradeOccupies ==
    ASSUME TypeInv, NEW p \in Prices, NEW qty,
           p \in Occupied(Opposite(order[taker].side)), Trade(p, qty)
    PROVE  \A s \in Sides : Occupied(s)' \subseteq Occupied(s)
<1> DEFINE side == Opposite(order[taker].side)
<1>1. PICK v : levels' = [levels EXCEPT ![side][p] = v]
  BY DEF Trade
<1>2. \A s \in Sides, q \in Prices :
        levels'[s][q] # <<>> => levels[s][q] # <<>> \/ (s = side /\ q = p)
  BY <1>1 DEF TypeInv, TypeOK
<1>3. levels[side][p] # <<>>
  BY DEF Occupied
<1> HIDE DEF side
<1> QED
  BY <1>2, <1>3 DEF Occupied

\* So does a maker that is dropped.
LEMMA DropOccupies ==
    ASSUME TypeInv, DropMaker
    PROVE  \A s \in Sides : Occupied(s)' \subseteq Occupied(s)
<1> DEFINE side == Opposite(order[taker].side)
<1>1. PICK p \in Prices :
        IsBest(side, p) /\ levels' = [levels EXCEPT ![side][p] = Tail(levels[side][p])]
  BY DEF DropMaker
<1>2. \A s \in Sides, q \in Prices :
        levels'[s][q] # <<>> => levels[s][q] # <<>> \/ (s = side /\ q = p)
  BY <1>1 DEF TypeInv, TypeOK
<1>3. levels[side][p] # <<>>
  BY <1>1 DEF IsBest, Occupied
<1> HIDE DEF side
<1> QED
  BY <1>2, <1>3 DEF Occupied

\* A cancelled order was on an occupied price.
LEMMA CancelOccupies ==
    ASSUME TypeInv, NEW o \in OrderIds, CancelOrder(o)
    PROVE  \A s \in Sides : Occupied(s)' \subseteq Occupied(s)
<1> DEFINE side  == order[o].side
           p     == order[o].price
           queue == levels[side][p]
<1>0. PICK i \in 1 .. Len(queue) :
        levels' = [levels EXCEPT ![side][p] =
                     SubSeq(queue, 1, i - 1) \o SubSeq(queue, i + 1, Len(queue))]
  BY DEF CancelOrder
<1>1. PICK v : levels' = [levels EXCEPT ![side][p] = v]
  BY <1>0
<1>2. \A s \in Sides, q \in Prices :
        levels'[s][q] # <<>> => levels[s][q] # <<>> \/ (s = side /\ q = p)
  BY <1>1 DEF TypeInv, TypeOK
<1>3. queue # <<>>
  <2>1. SUFFICES ASSUME queue = <<>> PROVE FALSE
    OBVIOUS
  <2>2. Len(<<>>) = 0
    BY EmptySeq
  <2>3. 1 .. Len(queue) = {}
    BY <2>1, <2>2
  <2> QED
    BY <1>0, <2>3
<1> HIDE DEF side, p
<1> QED
  BY <1>2, <1>3 DEF Occupied

\* An order rests at its own price only when that price crosses no resting
\* order of the other side.
LEMMA FinishLimitNotCrossed ==
    ASSUME TypeInv, NotCrossed, FinishLimit
    PROVE  NotCrossed'
<1> DEFINE ord == order[taker]
<1>1. taker \in OrderIds /\ Sound(ord) /\ ord \in EngineOrder
  BY DEF FinishLimit, TypeInv, InCall, SoundOrders, Sound
<1>2. CASE UNCHANGED bookVars
  BY <1>2 DEF NotCrossed, Occupied, bookVars
<1>3. ASSUME remaining > 0,
             NEW v, levels' = [levels EXCEPT ![ord.side][ord.price] = v]
      PROVE  NotCrossed'
  <2>1. \A s \in Sides : \A q \in Occupied(s)' :
          q \in Occupied(s) \/ (s = ord.side /\ q = ord.price)
    BY <1>3 DEF TypeInv, TypeOK, Occupied
  <2>2. \A q \in Occupied(Opposite(ord.side)) : ~Crosses(ord.side, ord.price, q)
    BY <1>3 DEF FinishLimit, CanMatch
  <2>3. SUFFICES ASSUME NEW b \in Prices, NEW a \in Prices,
                        b \in Occupied("BUY")', a \in Occupied("SELL")'
                 PROVE  b < a
    BY DEF NotCrossed
  <2>4. b \in Nat /\ a \in Nat
    BY PricesAssumption
  <2>5. b \in Occupied("BUY") \/ (ord.side = "BUY" /\ b = ord.price)
    BY <2>1, <2>3 DEF Sides
  <2>6. a \in Occupied("SELL") \/ (ord.side = "SELL" /\ a = ord.price)
    BY <2>1, <2>3 DEF Sides
  <2>7. CASE b \in Occupied("BUY") /\ a \in Occupied("SELL")
    BY <2>7 DEF NotCrossed
  <2>8. CASE ord.side = "BUY" /\ b = ord.price /\ a \in Occupied("SELL")
    BY <2>2, <2>4, <2>8 DEF Crosses, Opposite
  <2>9. CASE ord.side = "SELL" /\ a = ord.price /\ b \in Occupied("BUY")
    BY <2>2, <2>4, <2>9 DEF Crosses, Opposite
  <2> QED
    BY <2>5, <2>6, <2>7, <2>8, <2>9
<1>4. CASE ~UNCHANGED bookVars
  <2>1. PICK rested : /\ remaining > 0
                      /\ rested.side = ord.side /\ rested.price = ord.price
                      /\ AddToBook(taker, rested)
    <3> DEFINE status  == StatusAfterMatching(ord, "OPEN")
               resting == IF ord.iceberg_peak > 0
                          THEN [ord EXCEPT !.status = status,
                                           !.quantity = ord.filled_quantity + VisiblePart(ord),
                                           !.iceberg_base = Remaining(ord) - VisiblePart(ord)]
                          ELSE [ord EXCEPT !.status = status]
    <3>1. remaining > 0 /\ AddToBook(taker, resting)
      BY <1>4 DEF FinishLimit
    <3>2. status \in Statuses
      BY StatusAfterMatchingType DEF Statuses
    <3>3. VisiblePart(ord) \in Nat
      BY <1>1, RemainingNat DEF VisiblePart, Lesser, EngineOrder
    <3>4. resting.side = ord.side /\ resting.price = ord.price
      BY <1>1, <3>2, <3>3, RestingIceberg, SetStatus
    <3> QED
      BY <3>1, <3>4
  <2>2. levels' = [levels EXCEPT ![ord.side][ord.price] = Append(@, taker)]
    BY <2>1 DEF AddToBook
  <2> QED
    BY <1>3, <2>1, <2>2
<1> QED
  BY <1>2, <1>4

\* For any orders, prices and requests: in every reachable state, inside a
\* call and between calls, every resting bid is below every resting ask
\* (engine.py, _process_limit_order; order_book.py, add and pop).
THEOREM NeverCrossed == Spec => []NotCrossed
<1>1. Init => NotCrossed
  BY DEF Init, NotCrossed, Occupied, Sides
<1>2. TypeInv /\ NotCrossed /\ [Next]_vars => NotCrossed'
  <2> SUFFICES ASSUME TypeInv, NotCrossed, [Next]_vars PROVE NotCrossed'
    OBVIOUS
  <2>1. ASSUME NEW p \in Prices, NEW qty, IsBest(Opposite(order[taker].side), p), Trade(p, qty)
        PROVE  NotCrossed'
    BY <2>1, TradeOccupies, ShrinkingBook DEF IsBest
  <2>2. CASE MatchLimit
    BY <2>1, <2>2 DEF MatchLimit
  <2>3. CASE MatchMarket
    BY <2>1, <2>3 DEF MatchMarket
  <2>4. CASE FinishLimit
    BY <2>4, FinishLimitNotCrossed
  <2>5. ASSUME NEW o \in OrderIds, CancelOrder(o) PROVE NotCrossed'
    BY <2>5, CancelOccupies, ShrinkingBook
  <2>6. CASE UNCHANGED levels
    BY <2>6 DEF NotCrossed, Occupied
  <2>7. ASSUME NEW o, NEW ord, Process(o, ord) PROVE UNCHANGED levels
    BY <2>7 DEF Process, Expire, KillFillOrKill, StartMatching, RestStop, bookVars
  <2>8. CASE DropMaker
    BY <2>8, DropOccupies, ShrinkingBook
  <2> QED
    BY <2>2, <2>3, <2>4, <2>5, <2>6, <2>7, <2>8
       DEF Next, EngineStep, CallerStep, FinishMarket, FireStops, EndCall, Submit,
           GetPendingStops, SubmitTriggered, SkipTriggered, LoseBatch, vars, bookVars
<1> QED
  BY <1>1, <1>2, TypeInit, TypeStep, PTL DEF Spec

-----------------------------------------------------------------------------
(* Where orders are kept: the book, the stop book, the triggered stops and *)
(* the call in progress hold each order once, and what follows from it.    *)

\* queue has o; queue has nothing twice.
Has(queue, o) == \E i \in 1 .. Len(queue) : queue[i] = o
Distinct(queue) == \A i, j \in 1 .. Len(queue) : queue[i] = queue[j] => i = j

-----------------------------------------------------------------------------
(* Queues.                                                                 *)

LEMMA EmptyQueue == Distinct(<<>>) /\ \A x : ~Has(<<>>, x)
BY DEF Distinct, Has

LEMMA HeadOfQueue ==
    ASSUME NEW queue \in Seq(OrderIds), queue # <<>>
    PROVE  Head(queue) \in OrderIds /\ Has(queue, Head(queue))
<1>1. Len(queue) \in Nat \ {0} /\ Head(queue) = queue[1]
  BY EmptySeq
<1> QED
  BY <1>1 DEF Has

LEMMA TailOfQueue ==
    ASSUME NEW queue \in Seq(OrderIds), queue # <<>>, Distinct(queue)
    PROVE  /\ Tail(queue) \in Seq(OrderIds) /\ Distinct(Tail(queue))
           /\ \A x : Has(Tail(queue), x) <=> Has(queue, x) /\ x # Head(queue)
<1> DEFINE n == Len(queue)
           rest == Tail(queue)
<1>1. /\ n \in Nat \ {0} /\ Head(queue) = queue[1] /\ rest \in Seq(OrderIds)
      /\ Len(rest) = n - 1 /\ \A i \in 1 .. n - 1 : rest[i] = queue[i + 1]
  BY EmptySeq, HeadTailProperties
<1> HIDE DEF rest, n
<1>2. \A i, j \in 1 .. n : queue[i] = queue[j] => i = j
  BY DEF Distinct, n
<1>3. Distinct(rest)
  BY <1>1, <1>2 DEF Distinct
<1>4. ASSUME NEW x PROVE Has(rest, x) <=> Has(queue, x) /\ x # Head(queue)
  <2>1. ASSUME Has(rest, x) PROVE Has(queue, x) /\ x # Head(queue)
    <3>1. PICK i \in 1 .. n - 1 : rest[i] = x
      BY <1>1, <2>1 DEF Has
    <3>2. queue[i + 1] = x /\ i + 1 \in 1 .. n /\ i + 1 # 1
      BY <1>1, <3>1
    <3> QED
      BY <1>1, <1>2, <3>2 DEF Has, n
  <2>2. ASSUME Has(queue, x), x # Head(queue) PROVE Has(rest, x)
    <3>1. PICK i \in 1 .. n : queue[i] = x
      BY <2>2 DEF Has, n
    <3>2. i - 1 \in 1 .. n - 1 /\ (i - 1) + 1 = i
      BY <1>1, <2>2, <3>1
    <3> QED
      BY <1>1, <3>1, <3>2 DEF Has
  <2> QED
    BY <2>1, <2>2
<1> QED
  BY <1>1, <1>3, <1>4 DEF rest

LEMMA AppendToQueue ==
    ASSUME NEW queue \in Seq(OrderIds), Distinct(queue), NEW o \in OrderIds, ~Has(queue, o)
    PROVE  /\ Append(queue, o) \in Seq(OrderIds) /\ Distinct(Append(queue, o))
           /\ \A x : Has(Append(queue, o), x) <=> Has(queue, x) \/ x = o
<1> DEFINE n == Len(queue)
           longer == Append(queue, o)
<1>1. /\ n \in Nat /\ longer \in Seq(OrderIds) /\ Len(longer) = n + 1
      /\ \A i \in 1 .. n : longer[i] = queue[i]
      /\ longer[n + 1] = o
  BY AppendProperties
<1> HIDE DEF longer, n
<1>2. \A i \in 1 .. n + 1 : i \in 1 .. n \/ i = n + 1
  BY <1>1
<1>3. \A i, j \in 1 .. n : queue[i] = queue[j] => i = j
  BY DEF Distinct, n
<1>4. \A i \in 1 .. n : queue[i] # o
  BY DEF Has, n
<1>5. Distinct(longer)
  BY <1>1, <1>2, <1>3, <1>4 DEF Distinct
<1>6. \A x : Has(longer, x) <=> Has(queue, x) \/ x = o
  BY <1>1, <1>2 DEF Has, n
<1> QED
  BY <1>1, <1>5, <1>6 DEF longer

LEMMA JoinQueues ==
    ASSUME NEW q \in Seq(OrderIds), NEW r \in Seq(OrderIds), Distinct(q), Distinct(r),
           \A x : ~(Has(q, x) /\ Has(r, x))
    PROVE  /\ q \o r \in Seq(OrderIds) /\ Distinct(q \o r)
           /\ \A x : Has(q \o r, x) <=> Has(q, x) \/ Has(r, x)
<1> DEFINE m == Len(q)
           n == Len(r)
           both == q \o r
<1>1. /\ m \in Nat /\ n \in Nat /\ both \in Seq(OrderIds) /\ Len(both) = m + n
      /\ \A i \in 1 .. m : both[i] = q[i]
      /\ \A i \in m + 1 .. m + n : both[i] = r[i - m]
  BY ConcatProperties
<1> HIDE DEF both, m, n
<1>2. \A i \in 1 .. m + n : i \in 1 .. m \/ (i \in m + 1 .. m + n /\ i - m \in 1 .. n)
  BY <1>1
<1>3. /\ \A i, j \in 1 .. m : q[i] = q[j] => i = j
      /\ \A i, j \in 1 .. n : r[i] = r[j] => i = j
      /\ \A i \in 1 .. m, j \in 1 .. n : q[i] # r[j]
  BY DEF Distinct, Has, m, n
<1>4. ASSUME NEW i \in 1 .. m + n, NEW j \in 1 .. m + n, both[i] = both[j] PROVE i = j
  BY <1>1, <1>2, <1>3, <1>4
<1>5. ASSUME NEW x PROVE Has(both, x) <=> Has(q, x) \/ Has(r, x)
  <2>1. ASSUME Has(both, x) PROVE Has(q, x) \/ Has(r, x)
    BY <1>1, <1>2, <2>1 DEF Has, m, n
  <2>2. ASSUME Has(q, x) PROVE Has(both, x)
    BY <1>1, <2>2 DEF Has, m
  <2>3. ASSUME Has(r, x) PROVE Has(both, x)
    <3>1. PICK j \in 1 .. n : r[j] = x
      BY <2>3 DEF Has, n
    <3>2. j + m \in m + 1 .. m + n /\ j + m \in 1 .. m + n /\ (j + m) - m = j
      BY <1>1
    <3> QED
      BY <1>1, <3>1, <3>2 DEF Has
  <2> QED
    BY <2>1, <2>2, <2>3
<1> QED
  BY <1>1, <1>4, <1>5 DEF both, Distinct

\* Deleting the one position of an order.
Without(queue, i) == SubSeq(queue, 1, i - 1) \o SubSeq(queue, i + 1, Len(queue))

LEMMA WithoutShape ==
    ASSUME NEW queue \in Seq(OrderIds), NEW i \in 1 .. Len(queue)
    PROVE  /\ Without(queue, i) \in Seq(OrderIds)
           /\ Len(Without(queue, i)) = Len(queue) - 1
           /\ \A j \in 1 .. i - 1 : Without(queue, i)[j] = queue[j]
           /\ \A j \in i .. Len(queue) - 1 : Without(queue, i)[j] = queue[j + 1]
<1> DEFINE n == Len(queue)
           before == SubSeq(queue, 1, i - 1)
           behind == SubSeq(queue, i + 1, n)
<1>1. n \in Nat /\ i \in Int /\ \A j \in 1 .. n : queue[j] \in OrderIds
  OBVIOUS
<1>2. /\ before \in Seq(OrderIds) /\ Len(before) = i - 1
      /\ \A j \in 1 .. i - 1 : before[j] = queue[j]
  BY <1>1, SubSeqProperties
<1>3. /\ behind \in Seq(OrderIds) /\ Len(behind) = n - i
      /\ \A j \in 1 .. n - i : behind[j] = queue[i + j]
  BY <1>1, SubSeqProperties
<1> HIDE DEF before, behind
<1>4. /\ before \o behind \in Seq(OrderIds)
      /\ Len(before \o behind) = n - 1
      /\ \A j \in 1 .. n - 1 : (before \o behind)[j] =
            IF j <= i - 1 THEN before[j] ELSE behind[j - (i - 1)]
  <2>1. Len(before) + Len(behind) = n - 1
    BY <1>1, <1>2, <1>3
  <2>2. /\ before \o behind \in Seq(OrderIds)
        /\ Len(before \o behind) = Len(before) + Len(behind)
        /\ \A j \in 1 .. Len(before) + Len(behind) : (before \o behind)[j] =
              IF j <= Len(before) THEN before[j] ELSE behind[j - Len(before)]
    BY <1>2, <1>3, ConcatProperties
  <2> QED
    BY <1>2, <2>1, <2>2
<1>5. \A j \in i .. n - 1 : j - (i - 1) \in 1 .. n - i /\ i + (j - (i - 1)) = j + 1
  BY <1>1
<1> HIDE DEF n
<1>6. \A j \in 1 .. i - 1 : (before \o behind)[j] = queue[j]
  BY <1>1, <1>2, <1>4 DEF n
<1>7. \A j \in i .. n - 1 : (before \o behind)[j] = queue[j + 1]
  BY <1>1, <1>3, <1>4, <1>5
<1> QED
  BY <1>4, <1>6, <1>7 DEF Without, before, behind, n

LEMMA WithoutOne ==
    ASSUME NEW queue \in Seq(OrderIds), Distinct(queue), NEW i \in 1 .. Len(queue)
    PROVE  /\ Without(queue, i) \in Seq(OrderIds) /\ Distinct(Without(queue, i))
           /\ \A x : Has(Without(queue, i), x) <=> Has(queue, x) /\ x # queue[i]
<1> DEFINE n == Len(queue)
           rest == Without(queue, i)
<1>1. /\ n \in Nat /\ i \in 1 .. n /\ rest \in Seq(OrderIds) /\ Len(rest) = n - 1
      /\ \A j \in 1 .. i - 1 : rest[j] = queue[j]
      /\ \A j \in i .. n - 1 : rest[j] = queue[j + 1]
  BY WithoutShape
<1> HIDE DEF rest, n
<1>2. \A j, k \in 1 .. n : queue[j] = queue[k] => j = k
  BY DEF Distinct, n
<1>3. \A j \in 1 .. n - 1 : j \in 1 .. i - 1 \/ j \in i .. n - 1
  BY <1>1
<1>4. ASSUME NEW j \in 1 .. n - 1, NEW k \in 1 .. n - 1, rest[j] = rest[k] PROVE j = k
  BY <1>1, <1>2, <1>3, <1>4
<1>5. ASSUME NEW x PROVE Has(rest, x) <=> Has(queue, x) /\ x # queue[i]
  <2>1. ASSUME Has(rest, x) PROVE Has(queue, x) /\ x # queue[i]
    <3>1. PICK j \in 1 .. n - 1 : rest[j] = x
      BY <1>1, <2>1 DEF Has
    <3>2. PICK k \in 1 .. n : queue[k] = x /\ k # i
      BY SMTT(30), <1>1, <1>3, <3>1
    <3> QED
      BY <1>1, <1>2, <3>2 DEF Has, n
  <2>2. ASSUME Has(queue, x), x # queue[i] PROVE Has(rest, x)
    <3>1. PICK k \in 1 .. n : queue[k] = x /\ k # i
      BY <2>2 DEF Has, n
    <3>2. CASE k < i
      <4>1. k \in 1 .. i - 1 /\ k \in 1 .. n - 1
        BY <1>1, <3>2
      <4> QED
        BY <1>1, <3>1, <4>1 DEF Has
    <3>3. CASE k > i
      <4>1. k - 1 \in i .. n - 1 /\ k - 1 \in 1 .. n - 1 /\ (k - 1) + 1 = k
        BY <1>1, <3>3
      <4> QED
        BY <1>1, <3>1, <4>1 DEF Has
    <3> QED
      BY <1>1, <3>1, <3>2, <3>3
  <2> QED
    BY <2>1, <2>2
<1> QED
  BY <1>1, <1>4, <1>5 DEF rest, Distinct

-----------------------------------------------------------------------------
(* The inductive invariant.                                                *)

\* An order as a handler or the stop book hands it to process_order.
Fresh(ord) ==
    /\ ord.status = "PENDING" /\ ord.filled_quantity = 0
    /\ ord.order_type # "MARKET" => ord.quantity > 0 /\ ord.quote_quantity = 0
    /\ ord.order_type \in {"LIMIT", "STOP_LIMIT"} => ord.price \in Prices
    /\ ord.order_type \in {"STOP_MARKET", "STOP_LIMIT"} => ord.stop_price \in Prices
    /\ ord.time_in_force = "FOK" => ord.quantity > 0 /\ ord.quote_quantity = 0

\* A stop order that has not been triggered yet.
StopOrder(ord) == Fresh(ord) /\ ord.order_type \in {"STOP_MARKET", "STOP_LIMIT"}

\* An order as it stands on the level of this side and price.
RestingOrder(ord, side, p) ==
    /\ ord.side = side /\ ord.price = p
    /\ ord.order_type = "LIMIT" /\ ord.time_in_force \in {"GTC", "GTD"}
    /\ ord.status \in {"OPEN", "PARTIALLY_FILLED"}
    /\ ord.filled_quantity < ord.quantity

Matching == pc \in {"limit", "market"}

OrdersInv ==
    \A o \in OrderIds :
      /\ order[o].status = "UNUSED" => order[o] = Blank
      /\ order[o].status = "FILLED" => Remaining(order[o]) = 0

BookInv ==
    /\ \A o \in OrderIds :
         o \in ordersById <=> \E side \in Sides, p \in Prices : Has(levels[side][p], o)
    /\ \A side \in Sides, p \in Prices : Distinct(levels[side][p])
    /\ \A side \in Sides, p \in Prices, o \in OrderIds :
         Has(levels[side][p], o) => RestingOrder(order[o], side, p)

\* The stop lists st, pending and handed of orders f: each holds an untriggered
\* stop order at most once, and no two of them hold the same one.
StopsApart(st, pending, handed, f) ==
    /\ \A side \in Sides, sp \in Prices :
         /\ Distinct(st[side][sp])
         /\ \A o \in OrderIds : Has(st[side][sp], o) =>
              /\ StopOrder(f[o]) /\ f[o].side = side /\ f[o].stop_price = sp
              /\ ~Has(pending, o)
              /\ \A batch \in handed : ~Has(batch, o)
    /\ Distinct(pending)
    /\ \A o \in OrderIds : Has(pending, o) =>
         StopOrder(f[o]) /\ \A batch \in handed : ~Has(batch, o)
    /\ \A batch \in handed :
         Distinct(batch) /\ \A o \in OrderIds : Has(batch, o) => StopOrder(f[o])
    /\ \A b1, b2 \in handed, o \in OrderIds : Has(b1, o) /\ Has(b2, o) => b1 = b2

StopInv == StopsApart(stops, pendingStops, batches, order)

TakerInv ==
    /\ pc = "idle" => result = <<>>
    /\ Matching =>
         /\ taker \notin ordersById
         /\ order[taker].status \in {"PENDING", "OPEN", "PARTIALLY_FILLED", "FILLED"}
         /\ order[taker].order_type \in {"LIMIT", "MARKET"}
    /\ pc = "limit" =>
         /\ order[taker].order_type = "LIMIT" /\ order[taker].price \in Prices
         /\ order[taker].status # "PENDING"
         /\ remaining = Remaining(order[taker])
    /\ pc = "market" =>
         /\ order[taker].order_type = "MARKET"
         /\ remaining > 0 => remaining = Remaining(order[taker])
         /\ remaining <= 0 => Remaining(order[taker]) = 0
         /\ quoteRemaining <= order[taker].quote_quantity

EngineInv == OrdersInv /\ BookInv /\ StopInv /\ TakerInv

-----------------------------------------------------------------------------
(* What the steps do to orders.                                            *)

LEMMA RemainingBounds ==
    ASSUME NEW ord, Sound(ord)
    PROVE  /\ Remaining(ord) \in Nat
           /\ Remaining(ord) = 0 <=> ord.filled_quantity = ord.quantity
           /\ ord.filled_quantity < ord.quantity <=> Remaining(ord) > 0
           /\ ord.quantity \in Nat /\ ord.filled_quantity \in Nat
BY DEF Sound, EngineOrder, Remaining

\* EngineOrder.fill moves the filled quantity and the status, nothing else.
LEMMA FilledEffect ==
    ASSUME NEW ord, Sound(ord), NEW qty \in Nat
    PROVE  LET after == Filled(ord, qty) IN
           /\ Sound(after)
           /\ after.side = ord.side /\ after.price = ord.price
           /\ after.order_type = ord.order_type
           /\ after.time_in_force = ord.time_in_force
           /\ after.quantity = ord.quantity
           /\ after.quote_quantity = ord.quote_quantity
           /\ after.filled_quantity = ord.filled_quantity + Lesser(qty, Remaining(ord))
           /\ Remaining(after) = Remaining(ord) - Lesser(qty, Remaining(ord))
           /\ Remaining(after) = 0 => after.status = "FILLED"
           /\ Remaining(after) > 0 => after.status \in {"PARTIALLY_FILLED", ord.status}
           /\ Remaining(ord) = 0 /\ ord.status = "FILLED" => after = ord
<1> DEFINE filled == ord.filled_quantity + Lesser(qty, Remaining(ord))
           status == IF ord.quantity <= filled THEN "FILLED"
                     ELSE IF filled > 0 THEN "PARTIALLY_FILLED" ELSE ord.status
           after  == [ord EXCEPT !.filled_quantity = filled, !.status = status]
<1>1. Filled(ord, qty) = after
  BY DEF Filled
<1>2. ord \in EngineOrder /\ ord.quantity \in Nat /\ ord.filled_quantity \in Nat
  BY DEF Sound, EngineOrder
<1>3. filled \in Nat /\ ord.quantity - filled = Remaining(ord) - Lesser(qty, Remaining(ord))
  BY <1>2 DEF Sound, Lesser, Remaining
<1>4. /\ after.side = ord.side /\ after.price = ord.price
      /\ after.order_type = ord.order_type /\ after.time_in_force = ord.time_in_force
      /\ after.quantity = ord.quantity /\ after.quote_quantity = ord.quote_quantity
      /\ after.filled_quantity = filled /\ after.status = status
  BY <1>2 DEF EngineOrder
<1>5. Remaining(after) = ord.quantity - filled
  BY <1>4 DEF Remaining
<1>6. ASSUME Remaining(ord) = 0, ord.status = "FILLED" PROVE after = ord
  <2>1. filled = ord.filled_quantity /\ ord.quantity = ord.filled_quantity
    BY <1>2, <1>6 DEF Lesser, Remaining
  <2>2. status = ord.status
    BY <1>2, <1>6, <2>1
  <2> HIDE DEF filled, status
  <2> QED
    BY <1>2, <2>1, <2>2 DEF EngineOrder
<1>7. Remaining(after) = 0 => after.status = "FILLED"
  BY <1>2, <1>3, <1>4, <1>5
<1>8. Remaining(after) > 0 => after.status \in {"PARTIALLY_FILLED", ord.status}
  BY <1>2, <1>3, <1>4, <1>5
<1> HIDE DEF after, filled, status
<1> QED
  BY <1>1, <1>3, <1>4, <1>5, <1>6, <1>7, <1>8, FilledOrder DEF filled

\* Changing only the status changes nothing else.
LEMMA StatusEffect ==
    ASSUME NEW ord \in EngineOrder, NEW st
    PROVE  LET after == [ord EXCEPT !.status = st] IN
           /\ after.status = st
           /\ after.side = ord.side /\ after.price = ord.price
           /\ after.stop_price = ord.stop_price
           /\ after.order_type = ord.order_type
           /\ after.time_in_force = ord.time_in_force
           /\ after.quantity = ord.quantity
           /\ after.quote_quantity = ord.quote_quantity
           /\ after.filled_quantity = ord.filled_quantity
           /\ Remaining(after) = Remaining(ord)
BY DEF EngineOrder, Remaining

LEMMA StatusAfterMatchingCases ==
    ASSUME NEW ord, Sound(ord), NEW st
    PROVE  /\ Remaining(ord) = 0 => StatusAfterMatching(ord, st) = "FILLED"
           /\ Remaining(ord) > 0 /\ ord.filled_quantity = 0 => StatusAfterMatching(ord, st) = st
           /\ Remaining(ord) > 0 /\ ord.filled_quantity > 0
                => StatusAfterMatching(ord, st) = "PARTIALLY_FILLED"
BY RemainingBounds DEF StatusAfterMatching

\* What a trade does to the book and the orders: the maker is a resting order
\* other than the taker, both are filled, and the maker goes to the end of its
\* level or off the book.
LEMMA TradeEffect ==
    ASSUME TypeInv, EngineInv, Matching, NEW p \in Prices, NEW qty \in Nat,
           p \in Occupied(Opposite(order[taker].side)), Trade(p, qty)
    PROVE  LET side  == Opposite(order[taker].side)
               queue == levels[side][p]
               maker == Head(queue)
               rests == Remaining(Filled(order[maker], qty)) > 0
           IN
           /\ side \in Sides /\ taker \in OrderIds /\ maker \in OrderIds /\ maker # taker
           /\ Has(queue, maker) /\ RestingOrder(order[maker], side, p)
           /\ queue \in Seq(OrderIds) /\ queue # <<>>
           /\ order'[maker] = Filled(order[maker], qty)
           /\ order'[taker] = Filled(order[taker], qty)
           /\ \A o \in OrderIds \ {maker, taker} : order'[o] = order[o]
           /\ \A s \in Sides, q \in Prices : s # side \/ q # p => levels'[s][q] = levels[s][q]
           /\ levels'[side][p] = QueueAfterFill(queue, rests)
           /\ Distinct(levels'[side][p])
           /\ \A x \in OrderIds : Has(levels'[side][p], x) <=> Has(queue, x) /\ (rests \/ x # maker)
           /\ ordersById' = IF rests THEN ordersById ELSE ordersById \ {maker}
<1> DEFINE side  == Opposite(order[taker].side)
           queue == levels[side][p]
           maker == Head(queue)
           rests == Remaining(Filled(order[maker], qty)) > 0
<1>1. side \in Sides /\ taker \in OrderIds /\ taker \notin ordersById
  BY DEF TypeInv, InCall, Opposite, Sides, Matching, EngineInv, TakerInv
<1>2. queue \in Seq(OrderIds) /\ queue # <<>>
  BY <1>1 DEF TypeInv, TypeOK, Occupied
<1>3. maker \in OrderIds /\ Has(queue, maker)
  BY <1>2, HeadOfQueue
<1>4. maker \in ordersById /\ RestingOrder(order[maker], side, p) /\ Distinct(queue)
  BY <1>1, <1>3 DEF EngineInv, BookInv
<1>5. maker # taker
  BY <1>1, <1>4
<1>6. /\ order' = [order EXCEPT ![maker] = Filled(order[maker], qty),
                                ![taker] = Filled(order[taker], qty)]
      /\ levels' = [levels EXCEPT ![side][p] = QueueAfterFill(queue, rests)]
      /\ ordersById' = IF rests THEN ordersById ELSE ordersById \ {maker}
  BY DEF Trade
<1>7. /\ order \in [OrderIds -> EngineOrder]
      /\ levels \in [Sides -> [Prices -> Seq(OrderIds)]]
  BY DEF TypeInv, TypeOK
<1>8. /\ order'[maker] = Filled(order[maker], qty)
      /\ order'[taker] = Filled(order[taker], qty)
      /\ \A o \in OrderIds \ {maker, taker} : order'[o] = order[o]
  <2> HIDE DEF maker
  <2> QED
    BY <1>1, <1>3, <1>5, <1>6, <1>7
<1>9. levels'[side][p] = QueueAfterFill(queue, rests)
  BY <1>1, <1>6, <1>7
<1>10. \A s \in Sides, q \in Prices : s # side \/ q # p => levels'[s][q] = levels[s][q]
  BY <1>6, <1>7
<1>11. /\ Tail(queue) \in Seq(OrderIds) /\ Distinct(Tail(queue))
       /\ \A x : Has(Tail(queue), x) <=> Has(queue, x) /\ x # maker
  BY <1>2, <1>4, TailOfQueue
<1> HIDE DEF queue, maker, rests
<1>12. /\ Distinct(Append(Tail(queue), maker))
       /\ \A x : Has(Append(Tail(queue), maker), x) <=> Has(Tail(queue), x) \/ x = maker
  BY <1>3, <1>11, AppendToQueue
<1>13. /\ Distinct(levels'[side][p])
       /\ \A x \in OrderIds : Has(levels'[side][p], x) <=> Has(queue, x) /\ (rests \/ x # maker)
  BY <1>3, <1>9, <1>11, <1>12 DEF QueueAfterFill, maker
<1> QED
  BY <1>1, <1>2, <1>3, <1>4, <1>5, <1>6, <1>8, <1>9, <1>10, <1>13 DEF queue, maker, rests

-----------------------------------------------------------------------------
(* Each step keeps the invariant.                                          *)

\* The book keeps its invariant if it and the orders on it stay the same.
LEMMA BookFrame ==
    ASSUME BookInv, UNCHANGED <<levels, ordersById>>, \A o \in ordersById : order'[o] = order[o]
    PROVE  BookInv'
BY DEF BookInv

\* So do the stop lists.
LEMMA StopFrame ==
    ASSUME StopInv, UNCHANGED <<stops, pendingStops, batches>>,
           \A o \in OrderIds : StopOrder(order[o]) => order'[o] = order[o]
    PROVE  StopInv'
BY DEF StopInv, StopsApart

LEMMA EngineInit == Init => EngineInv
<1> SUFFICES ASSUME Init PROVE EngineInv
  OBVIOUS
<1>1. OrdersInv
  BY DEF Init, OrdersInv, Blank
<1>2. BookInv
  BY EmptyQueue DEF Init, BookInv
<1>3. StopInv
  BY EmptyQueue DEF Init, StopInv, StopsApart
<1>4. TakerInv
  BY DEF Init, TakerInv, Matching
<1> QED
  BY <1>1, <1>2, <1>3, <1>4 DEF EngineInv

\* A trade disturbs neither the orders that wait nor the stop lists.
LEMMA TradeKeeps ==
    ASSUME TypeInv, EngineInv, Matching, NEW p \in Prices, NEW qty \in Nat,
           p \in Occupied(Opposite(order[taker].side)), Trade(p, qty)
    PROVE  /\ OrdersInv' /\ BookInv' /\ StopInv'
           /\ taker' = taker /\ pc' = pc /\ taker \in OrderIds
           /\ taker \notin ordersById'
           /\ order'[taker] = Filled(order[taker], qty)
           /\ Sound(order[taker])
<1> DEFINE side  == Opposite(order[taker].side)
           queue == levels[side][p]
           maker == Head(queue)
           rests == Remaining(Filled(order[maker], qty)) > 0
           after == Filled(order[maker], qty)
<1>1. /\ side \in Sides /\ taker \in OrderIds /\ maker \in OrderIds /\ maker # taker
      /\ Has(queue, maker) /\ RestingOrder(order[maker], side, p)
      /\ order'[maker] = after
      /\ order'[taker] = Filled(order[taker], qty)
      /\ \A o \in OrderIds \ {maker, taker} : order'[o] = order[o]
      /\ \A s \in Sides, q \in Prices : s # side \/ q # p => levels'[s][q] = levels[s][q]
      /\ Distinct(levels'[side][p])
      /\ \A x \in OrderIds : Has(levels'[side][p], x) <=> Has(queue, x) /\ (rests \/ x # maker)
      /\ ordersById' = IF rests THEN ordersById ELSE ordersById \ {maker}
  BY TradeEffect
<1>2. /\ taker' = taker /\ pc' = pc /\ UNCHANGED <<stops, pendingStops, batches>>
  BY DEF Trade, stopVars
<1>3. Sound(order[taker]) /\ Sound(order[maker])
  BY <1>1 DEF TypeInv, SoundOrders
<1>4. /\ taker \notin ordersById
      /\ order[taker].status \in {"PENDING", "OPEN", "PARTIALLY_FILLED", "FILLED"}
      /\ order[taker].order_type \in {"LIMIT", "MARKET"}
  BY DEF EngineInv, TakerInv
<1> DEFINE bought == Filled(order[taker], qty)
<1>5. /\ Remaining(after) \in Nat /\ Remaining(order[maker]) \in Nat
      /\ after.side = side /\ after.price = p
      /\ after.order_type = "LIMIT" /\ after.time_in_force \in {"GTC", "GTD"}
      /\ Remaining(after) > 0 => after.status \in {"OPEN", "PARTIALLY_FILLED"}
      /\ Remaining(after) = 0 => after.status = "FILLED"
      /\ Remaining(after) > 0 => after.filled_quantity < after.quantity
  BY <1>1, <1>3, FilledEffect, RemainingBounds DEF RestingOrder
<1>6. /\ Remaining(bought) \in Nat
      /\ bought.status # "UNUSED"
      /\ bought.status = "FILLED" => Remaining(bought) = 0
  <2>1. Sound(bought) /\ Remaining(bought) \in Nat
    BY <1>3, FilledEffect, RemainingBounds
  <2>2. Remaining(bought) = 0 => bought.status = "FILLED"
    BY <1>3, FilledEffect
  <2>3. Remaining(bought) > 0 => bought.status \in {"PARTIALLY_FILLED", order[taker].status}
    BY <1>3, FilledEffect
  <2>4. Remaining(bought) > 0 => Remaining(order[taker]) # 0
    <3>1. /\ Remaining(bought) = Remaining(order[taker]) - Lesser(qty, Remaining(order[taker]))
          /\ Remaining(order[taker]) \in Nat
      BY <1>3, FilledEffect, RemainingBounds
    <3> HIDE DEF bought
    <3> QED
      BY <3>1 DEF Lesser
  <2>5. order[taker].status = "FILLED" => Remaining(order[taker]) = 0
    BY <1>1 DEF EngineInv, OrdersInv
  <2> HIDE DEF bought
  <2> QED
    BY <1>4, <2>1, <2>2, <2>3, <2>4, <2>5
<1> HIDE DEF after, bought
<1>7. OrdersInv'
  <2> SUFFICES ASSUME NEW o \in OrderIds
               PROVE  /\ order'[o].status = "UNUSED" => order'[o] = Blank
                      /\ order'[o].status = "FILLED" => Remaining(order'[o]) = 0
    BY DEF OrdersInv
  <2>1. CASE o = maker
    <3>0. order'[o] = after
      BY <1>1, <2>1
    <3>1. Remaining(after) = 0 \/ Remaining(after) > 0
      BY <1>5
    <3>2. after.status \in {"OPEN", "PARTIALLY_FILLED", "FILLED"}
      BY <1>5, <3>1
    <3>3. after.status = "FILLED" => Remaining(after) = 0
      BY <1>5, <3>1
    <3> QED
      BY <3>0, <3>2, <3>3
  <2>2. CASE o = taker
    BY <1>1, <1>6, <2>2 DEF bought
  <2>3. CASE o \notin {maker, taker}
    BY <1>1, <2>3 DEF EngineInv, OrdersInv
  <2> QED
    BY <2>1, <2>2, <2>3
<1>8. StopInv'
  <2>1. \A o \in OrderIds : StopOrder(order[o]) => order'[o] = order[o]
    BY <1>1, <1>4 DEF StopOrder, RestingOrder
  <2> QED
    BY <1>2, <2>1, StopFrame DEF EngineInv
<1>9. BookInv'
  <2> USE DEF EngineInv, BookInv
  <2>0. rests <=> Remaining(after) > 0
    BY DEF after
  <2> HIDE DEF rests, queue, maker
  <2>1. \A s \in Sides, q \in Prices : Distinct(levels'[s][q])
    BY <1>1
  <2>2. \A s \in Sides, q \in Prices, x \in OrderIds :
          Has(levels'[s][q], x) <=> Has(levels[s][q], x) /\ (rests \/ x # maker)
    <3> SUFFICES ASSUME NEW s \in Sides, NEW q \in Prices, NEW x \in OrderIds
                 PROVE  Has(levels'[s][q], x) <=> Has(levels[s][q], x) /\ (rests \/ x # maker)
      OBVIOUS
    <3>1. CASE s = side /\ q = p
      BY <1>1, <3>1 DEF queue
    <3>2. CASE s # side \/ q # p
      BY <1>1, <3>2 DEF RestingOrder
    <3> QED
      BY <3>1, <3>2
  <2>3. \A o \in OrderIds :
          o \in ordersById' <=> \E s \in Sides, q \in Prices : Has(levels'[s][q], o)
    BY <1>1, <2>2
  <2>4. ASSUME NEW s \in Sides, NEW q \in Prices, NEW o \in OrderIds, Has(levels'[s][q], o)
        PROVE  RestingOrder(order'[o], s, q)
    <3>1. Has(levels[s][q], o) /\ (rests \/ o # maker) /\ RestingOrder(order[o], s, q)
      BY <2>2, <2>4
    <3>2. CASE o = maker
      <4>1. s = side /\ q = p /\ Remaining(after) > 0
        BY <1>1, <2>0, <3>1, <3>2 DEF RestingOrder
      <4> QED
        BY <1>1, <1>5, <3>2, <4>1 DEF RestingOrder
    <3>3. CASE o # maker
      <4>1. o \in ordersById
        BY <3>1
      <4> QED
        BY <1>1, <1>4, <3>1, <3>3, <4>1
    <3> QED
      BY <3>2, <3>3
  <2> QED
    BY <2>1, <2>3, <2>4
<1> QED
  BY <1>1, <1>2, <1>3, <1>4, <1>7, <1>8, <1>9

LEMMA ProductNat == \A m, n \in Nat : m * n \in Nat
OBVIOUS

\* The taker of a loop after a fill, whatever the loop.
LEMMA TakerFilled ==
    ASSUME TypeInv, TakerInv, Matching, NEW qty \in Nat
    PROVE  LET after == Filled(order[taker], qty) IN
           /\ after.order_type = order[taker].order_type
           /\ after.price = order[taker].price
           /\ after.quote_quantity = order[taker].quote_quantity
           /\ after.status \in {"PENDING", "OPEN", "PARTIALLY_FILLED", "FILLED"}
           /\ order[taker].status # "PENDING" => after.status # "PENDING"
           /\ Remaining(after) = Remaining(order[taker]) - Lesser(qty, Remaining(order[taker]))
           /\ Remaining(order[taker]) \in Nat
<1> DEFINE after == Filled(order[taker], qty)
<1>1. Sound(order[taker])
  BY DEF Matching, TypeInv, InCall, SoundOrders
<1>2. Sound(after) /\ Remaining(after) \in Nat /\ Remaining(order[taker]) \in Nat
  BY <1>1, FilledEffect, RemainingBounds
<1>3. /\ Remaining(after) = 0 => after.status = "FILLED"
      /\ Remaining(after) > 0 => after.status \in {"PARTIALLY_FILLED", order[taker].status}
  BY <1>1, FilledEffect
<1>4. order[taker].status \in {"PENDING", "OPEN", "PARTIALLY_FILLED", "FILLED"}
  BY DEF TakerInv
<1>5. /\ after.status \in {"PENDING", "OPEN", "PARTIALLY_FILLED", "FILLED"}
      /\ order[taker].status # "PENDING" => after.status # "PENDING"
  <2> HIDE DEF after
  <2> QED
    BY <1>2, <1>3, <1>4
<1> QED
  BY <1>1, <1>2, <1>5, FilledEffect

LEMMA MatchLimitKeeps == TypeInv /\ EngineInv /\ MatchLimit => EngineInv'
<1> SUFFICES ASSUME TypeInv, EngineInv, MatchLimit PROVE EngineInv'
  OBVIOUS
<1>0. PICK p \in Prices : /\ IsBest(Opposite(order[taker].side), p)
                          /\ Trade(p, FillQuantity(p))
  BY DEF MatchLimit
<1> DEFINE qty == FillQuantity(p)
<1>1. /\ pc = "limit" /\ remaining > 0 /\ Matching
      /\ p \in Occupied(Opposite(order[taker].side))
  BY <1>0 DEF MatchLimit, IsBest, Matching
<1>2. qty \in Nat /\ qty <= remaining /\ remaining \in Int
  <2>1. qty \in Nat
    BY <1>1, FillQuantityNat
  <2> QED
    BY <1>1, <2>1 DEF FillQuantity, Lesser, TypeInv, TypeOK
<1>3. /\ OrdersInv' /\ BookInv' /\ StopInv'
      /\ taker' = taker /\ pc' = pc /\ taker \notin ordersById'
      /\ order'[taker] = Filled(order[taker], qty)
  BY <1>0, <1>1, <1>2, TradeKeeps
<1>4. remaining' = remaining - qty
  BY <1>0 DEF Trade
<1> HIDE DEF qty
<1>5. TakerInv
  BY DEF EngineInv
<1>6. /\ order[taker].order_type = "LIMIT" /\ order[taker].price \in Prices
      /\ order[taker].status # "PENDING" /\ remaining = Remaining(order[taker])
  BY <1>1, <1>5 DEF TakerInv
<1>7. /\ order'[taker].order_type = "LIMIT" /\ order'[taker].price \in Prices
      /\ order'[taker].status \in {"OPEN", "PARTIALLY_FILLED", "FILLED"}
      /\ Remaining(order'[taker]) = remaining - Lesser(qty, remaining)
  BY <1>1, <1>2, <1>3, <1>5, <1>6, TakerFilled
<1>8. Lesser(qty, remaining) = qty
  BY <1>2 DEF Lesser
<1>9. TakerInv'
  BY <1>1, <1>3, <1>4, <1>7, <1>8 DEF TakerInv, Matching
<1> QED
  BY <1>3, <1>9 DEF EngineInv

LEMMA MatchMarketKeeps == TypeInv /\ EngineInv /\ MatchMarket => EngineInv'
<1> SUFFICES ASSUME TypeInv, EngineInv, MatchMarket PROVE EngineInv'
  OBVIOUS
<1>1. PICK p \in Prices :
        /\ IsBest(Opposite(order[taker].side), p)
        /\ Trade(p, MarketFill(p))
        /\ quoteRemaining' \in {quoteRemaining - MarketFill(p) * p, 0}
  BY DEF MatchMarket
<1> DEFINE qty == MarketFill(p)
<1>2. Trade(p, qty) /\ quoteRemaining' \in {quoteRemaining - qty * p, 0}
  BY <1>1
<1>3. /\ pc = "market" /\ Matching /\ qty \in Nat
      /\ p \in Occupied(Opposite(order[taker].side))
      /\ remaining > 0 => qty <= remaining
  BY <1>1, MarketFillNat DEF IsBest, MatchMarket, Matching
<1> HIDE DEF qty
<1>4. /\ OrdersInv' /\ BookInv' /\ StopInv'
      /\ taker' = taker /\ pc' = pc /\ taker \notin ordersById'
      /\ order'[taker] = Filled(order[taker], qty)
  BY <1>2, <1>3, TradeKeeps
<1>5. /\ remaining' = remaining - qty /\ remaining \in Int
      /\ quoteRemaining \in Int /\ p \in Nat
  BY <1>2, PricesAssumption DEF Trade, TypeInv, TypeOK
<1>6. TakerInv
  BY DEF EngineInv
<1>7. /\ order[taker].order_type = "MARKET"
      /\ remaining > 0 => remaining = Remaining(order[taker])
      /\ remaining <= 0 => Remaining(order[taker]) = 0
      /\ quoteRemaining <= order[taker].quote_quantity
  BY <1>3, <1>6 DEF TakerInv
<1>8. /\ order'[taker].order_type = "MARKET"
      /\ order'[taker].status \in {"PENDING", "OPEN", "PARTIALLY_FILLED", "FILLED"}
      /\ order'[taker].quote_quantity = order[taker].quote_quantity
      /\ Remaining(order'[taker]) = Remaining(order[taker]) - Lesser(qty, Remaining(order[taker]))
      /\ Remaining(order[taker]) \in Nat
  BY <1>3, <1>4, <1>6, <1>7, TakerFilled
<1>10. /\ remaining' > 0 => remaining' = Remaining(order'[taker])
       /\ remaining' <= 0 => Remaining(order'[taker]) = 0
  BY <1>3, <1>5, <1>7, <1>8 DEF Lesser
<1>11. quoteRemaining' <= order'[taker].quote_quantity
  <2>1. qty * p \in Nat
    BY <1>3, <1>5, ProductNat
  <2>2. order[taker].quote_quantity \in Nat
    BY <1>3 DEF Matching, TypeInv, TypeOK, InCall, EngineOrder
  <2> QED
    BY <1>2, <1>5, <1>7, <1>8, <2>1, <2>2
<1>12. TakerInv'
  BY <1>3, <1>4, <1>8, <1>10, <1>11 DEF TakerInv, Matching
<1> QED
  BY <1>4, <1>12 DEF EngineInv

\* o is on no stop list.
OnNoList(o, st, pending, handed) ==
    /\ \A side \in Sides, sp \in Prices : ~Has(st[side][sp], o)
    /\ ~Has(pending, o) /\ \A batch \in handed : ~Has(batch, o)

\* Changing an order that is on no list leaves the lists apart.
LEMMA OtherOrder ==
    ASSUME NEW st, NEW pending, NEW handed, NEW f, NEW g, NEW o \in OrderIds,
           StopsApart(st, pending, handed, f), OnNoList(o, st, pending, handed),
           \A x \in OrderIds \ {o} : g[x] = f[x]
    PROVE  StopsApart(st, pending, handed, g)
BY DEF StopsApart, OnNoList

\* A stop order that comes to rest on the list of its side and stop price.
LEMMA OneMoreStop ==
    ASSUME TypeInv, NEW handed, NEW f, NEW o \in OrderIds,
           StopsApart(stops, pendingStops, handed, f),
           OnNoList(o, stops, pendingStops, handed),
           StopOrder(f[o]), f[o].side \in Sides,
           NEW st, st = [stops EXCEPT ![f[o].side][f[o].stop_price] = Append(@, o)]
    PROVE  StopsApart(st, pendingStops, handed, f)
<1> DEFINE side == f[o].side
           sp   == f[o].stop_price
<1>1. sp \in Prices
  BY DEF StopOrder, Fresh
<1>2. stops \in [Sides -> [Prices -> Seq(OrderIds)]]
  BY DEF TypeInv, TypeOK
<1>3. /\ stops[side][sp] \in Seq(OrderIds) /\ Distinct(stops[side][sp])
      /\ ~Has(stops[side][sp], o)
  BY <1>1, <1>2 DEF StopsApart, OnNoList
<1>4. /\ Distinct(Append(stops[side][sp], o))
      /\ \A x : Has(Append(stops[side][sp], o), x) <=> Has(stops[side][sp], x) \/ x = o
  BY <1>3, AppendToQueue
<1>5. /\ st[side][sp] = Append(stops[side][sp], o)
      /\ \A s \in Sides, q \in Prices : s # side \/ q # sp => st[s][q] = stops[s][q]
  BY <1>1, <1>2
<1>6. /\ \A s \in Sides, q \in Prices : Distinct(st[s][q])
      /\ \A s \in Sides, q \in Prices, x \in OrderIds :
           Has(st[s][q], x) <=> Has(stops[s][q], x) \/ (x = o /\ s = side /\ q = sp)
  <2> SUFFICES ASSUME NEW s \in Sides, NEW q \in Prices
               PROVE  /\ Distinct(st[s][q])
                      /\ \A x \in OrderIds : Has(st[s][q], x) <=>
                           Has(stops[s][q], x) \/ (x = o /\ s = side /\ q = sp)
    OBVIOUS
  <2> DEFINE there == Append(stops[side][sp], o)
  <2>0. /\ st[side][sp] = there
        /\ Distinct(there) /\ \A x : Has(there, x) <=> Has(stops[side][sp], x) \/ x = o
        /\ s # side \/ q # sp => st[s][q] = stops[s][q] /\ Distinct(stops[s][q])
    BY <1>4, <1>5 DEF StopsApart
  <2> HIDE DEF there, side, sp
  <2>1. CASE s = side /\ q = sp
    BY <2>0, <2>1
  <2>2. CASE s # side \/ q # sp
    BY <2>0, <2>2
  <2> QED
    BY <2>1, <2>2
<1> HIDE DEF side, sp
<1> QED
  BY <1>6 DEF StopsApart, OnNoList, side, sp

\* process_order of a fresh order that is neither on the book nor on a list,
\* whatever becomes of the lists the stop came from.
LEMMA ProcessKeeps ==
    ASSUME TypeInv, EngineInv, NEW o \in OrderIds, NEW ord, Sound(ord), Fresh(ord),
           o \notin ordersById, Process(o, ord), UNCHANGED pendingStops,
           StopsApart(stops, pendingStops, batches', order),
           OnNoList(o, stops, pendingStops, batches')
    PROVE  EngineInv'
<1>1. /\ order \in [OrderIds -> EngineOrder] /\ ord \in EngineOrder
      /\ Remaining(ord) = ord.quantity
  <2>1. order \in [OrderIds -> EngineOrder] /\ ord \in EngineOrder
    BY DEF TypeInv, TypeOK, Sound
  <2>2. ord.quantity \in Nat /\ ord.filled_quantity = 0
    BY RemainingBounds DEF Fresh
  <2> QED
    BY <2>1, <2>2 DEF Remaining
<1>2. ASSUME NEW new, order' = [order EXCEPT ![o] = new],
             new.status # "UNUSED", new.status # "FILLED",
             UNCHANGED <<levels, ordersById>>
      PROVE  /\ order'[o] = new /\ \A x \in OrderIds \ {o} : order'[x] = order[x]
             /\ OrdersInv' /\ BookInv'
             /\ StopsApart(stops, pendingStops, batches', order')
  <2>1. order'[o] = new /\ \A x \in OrderIds \ {o} : order'[x] = order[x]
    BY <1>1, <1>2
  <2>2. OrdersInv'
    BY <1>2, <2>1 DEF EngineInv, OrdersInv
  <2>3. ordersById \subseteq OrderIds
    BY DEF TypeInv, TypeOK
  <2>4. BookInv'
    BY <1>2, <2>1, <2>3, BookFrame DEF EngineInv
  <2>5. StopsApart(stops, pendingStops, batches', order')
    BY <2>1, OtherOrder
  <2> QED
    BY <2>1, <2>2, <2>4, <2>5
<1>3. pc = "idle" /\ result = <<>>
  BY DEF Process, EngineInv, TakerInv
<1>4. ASSUME NEW st, order' = [order EXCEPT ![o] = [ord EXCEPT !.status = st]],
             st \in {"EXPIRED", "CANCELLED"}, UNCHANGED <<bookVars, stops, callVars>>
      PROVE  EngineInv'
  <2>1. [ord EXCEPT !.status = st].status = st
    BY <1>1, StatusEffect
  <2>2. UNCHANGED <<levels, ordersById, pc, result>>
    BY <1>4 DEF bookVars, callVars
  <2>3. OrdersInv' /\ BookInv' /\ StopsApart(stops, pendingStops, batches', order')
    BY <1>2, <1>4, <2>1, <2>2
  <2>4. StopInv'
    BY <1>4, <2>3 DEF StopInv
  <2>5. TakerInv'
    BY <1>3, <2>2 DEF TakerInv, Matching
  <2> QED
    BY <2>3, <2>4, <2>5 DEF EngineInv
<1>5. CASE Expire(o, ord)
  BY <1>4, <1>5 DEF Expire
<1>6. CASE KillFillOrKill(o, ord)
  BY <1>4, <1>6 DEF KillFillOrKill
<1>7. CASE StartMatching(o, ord)
  <2> DEFINE new == IF ord.order_type = "LIMIT" THEN [ord EXCEPT !.status = "OPEN"] ELSE ord
  <2>1. /\ new.order_type = ord.order_type /\ new.price = ord.price
        /\ Remaining(new) = ord.quantity /\ new.quote_quantity = ord.quote_quantity
        /\ new.status = IF ord.order_type = "LIMIT" THEN "OPEN" ELSE "PENDING"
    BY <1>1, StatusEffect DEF Fresh
  <2>2. /\ order' = [order EXCEPT ![o] = new]
        /\ pc' = IF ord.order_type = "LIMIT" THEN "limit" ELSE "market"
        /\ ord.order_type \in {"LIMIT", "MARKET"}
        /\ taker' = o /\ remaining' = ord.quantity /\ quoteRemaining' = ord.quote_quantity
        /\ UNCHANGED <<levels, ordersById, stops>>
    BY <1>7 DEF StartMatching, bookVars
  <2> HIDE DEF new
  <2>3. /\ order'[o] = new /\ OrdersInv' /\ BookInv'
        /\ StopsApart(stops, pendingStops, batches', order')
    BY <1>2, <2>1, <2>2
  <2>4. StopInv'
    BY <2>2, <2>3 DEF StopInv
  <2>5. ord.quantity \in Nat /\ ord.quote_quantity \in Nat
    BY <1>1 DEF EngineOrder
  <2>6. TakerInv'
    BY <2>1, <2>2, <2>3, <2>5 DEF TakerInv, Matching, Fresh
  <2> QED
    BY <2>3, <2>4, <2>6 DEF EngineInv
<1>8. CASE RestStop(o, ord)
  <2> DEFINE new == [ord EXCEPT !.status = "PENDING"]
  <2>1. new = ord
    BY <1>1 DEF Fresh, EngineOrder
  <2>2. /\ order' = [order EXCEPT ![o] = ord]
        /\ stops' = [stops EXCEPT ![ord.side][ord.stop_price] = Append(@, o)]
        /\ ord.order_type \in {"STOP_MARKET", "STOP_LIMIT"}
        /\ UNCHANGED <<levels, ordersById, pc, result>>
    BY <1>8, <2>1 DEF RestStop, bookVars, callVars
  <2>3. /\ order'[o] = ord /\ OrdersInv' /\ BookInv'
        /\ StopsApart(stops, pendingStops, batches', order')
    BY <1>2, <2>2 DEF Fresh
  <2>4. ord.side \in Sides /\ StopOrder(ord)
    BY <1>1, <2>2 DEF EngineOrder, StopOrder
  <2>5. StopsApart(stops', pendingStops, batches', order')
    BY <2>2, <2>3, <2>4, OneMoreStop
  <2>6. TakerInv'
    BY <1>3, <2>2 DEF TakerInv, Matching
  <2> QED
    BY <2>3, <2>5, <2>6 DEF EngineInv, StopInv
<1> QED
  BY <1>5, <1>6, <1>7, <1>8 DEF Process

LEMMA FinishLimitKeeps == TypeInv /\ EngineInv /\ FinishLimit => EngineInv'
<1> SUFFICES ASSUME TypeInv, EngineInv, FinishLimit PROVE EngineInv'
  OBVIOUS
<1> DEFINE ord     == order[taker]
           status  == StatusAfterMatching(ord, "OPEN")
           peak    == VisiblePart(ord)
           resting == IF ord.iceberg_peak > 0
                      THEN [ord EXCEPT !.status = status,
                                       !.quantity = ord.filled_quantity + peak,
                                       !.iceberg_base = Remaining(ord) - peak]
                      ELSE [ord EXCEPT !.status = status]
           dropped == [ord EXCEPT !.status =
                         IF remaining > 0 /\ ord.filled_quantity = 0 THEN "CANCELLED" ELSE status]
<1>1. /\ pc = "limit" /\ pc' = "stops" /\ taker' = taker
      /\ UNCHANGED <<stops, pendingStops, batches>>
      /\ \/ /\ remaining > 0 /\ Rests(ord)
            /\ order' = [order EXCEPT ![taker] = resting] /\ AddToBook(taker, resting)
         \/ order' = [order EXCEPT ![taker] = dropped] /\ UNCHANGED <<levels, ordersById>>
  BY DEF FinishLimit, stopVars, bookVars
<1>2. /\ taker \in OrderIds /\ ord \in EngineOrder /\ Sound(ord)
      /\ order \in [OrderIds -> EngineOrder]
      /\ levels \in [Sides -> [Prices -> Seq(OrderIds)]]
      /\ ordersById \subseteq OrderIds
  BY <1>1 DEF TypeInv, TypeOK, InCall, SoundOrders, Sound
<1>3. /\ ord.order_type = "LIMIT" /\ ord.price \in Prices /\ taker \notin ordersById
      /\ remaining = Remaining(ord)
      /\ ord.status \in {"OPEN", "PARTIALLY_FILLED", "FILLED"}
  BY <1>1 DEF EngineInv, TakerInv, Matching
<1>4. /\ Remaining(ord) \in Nat
      /\ Remaining(ord) = 0 => status = "FILLED"
      /\ Remaining(ord) > 0 => status \in {"OPEN", "PARTIALLY_FILLED"}
  <2>1. ord.filled_quantity \in Nat /\ Remaining(ord) \in Nat
    BY <1>2, RemainingBounds
  <2> QED
    BY <1>2, <2>1, StatusAfterMatchingCases
<1>5. /\ dropped.status # "UNUSED"
      /\ dropped.status = "FILLED" => Remaining(dropped) = 0
  <2>1. Remaining(dropped) = Remaining(ord)
    BY <1>2, StatusEffect
  <2>2. dropped.status = IF remaining > 0 /\ ord.filled_quantity = 0 THEN "CANCELLED" ELSE status
    BY <1>2, StatusEffect
  <2> HIDE DEF dropped, ord, status
  <2> QED
    BY <1>4, <2>1, <2>2
<1>6. ASSUME Remaining(ord) > 0, Rests(ord)
      PROVE  RestingOrder(resting, ord.side, ord.price)
  <2>1. status \in {"OPEN", "PARTIALLY_FILLED"}
    BY <1>4, <1>6
  <2>2. CASE ord.iceberg_peak > 0
    <3>1. ord.filled_quantity \in Nat /\ ord.iceberg_peak \in Nat
      BY <1>2 DEF EngineOrder
    <3>2. peak \in Nat /\ peak > 0
      BY <1>4, <1>6, <2>2, <3>1 DEF VisiblePart, Lesser
    <3>3. /\ resting.side = ord.side /\ resting.price = ord.price
          /\ resting.order_type = ord.order_type /\ resting.time_in_force = ord.time_in_force
          /\ resting.status = status /\ resting.filled_quantity = ord.filled_quantity
          /\ resting.quantity = ord.filled_quantity + peak
      BY <1>2, <2>2 DEF EngineOrder
    <3> HIDE DEF resting, peak, status
    <3> QED
      BY <1>3, <1>6, <2>1, <3>1, <3>2, <3>3 DEF RestingOrder, Rests
  <2>3. CASE ~(ord.iceberg_peak > 0)
    <3>1. resting = [ord EXCEPT !.status = status]
      BY <2>3
    <3>2. ord.filled_quantity < ord.quantity
      BY <1>2, <1>6, RemainingBounds
    <3> HIDE DEF resting, status
    <3> QED
      BY <1>2, <1>3, <1>6, <2>1, <3>1, <3>2, StatusEffect DEF RestingOrder, Rests
  <2> QED
    BY <2>2, <2>3
<1>7. StopInv'
  <2>1. \A o \in OrderIds : StopOrder(order[o]) => order'[o] = order[o]
    BY <1>1, <1>2, <1>3 DEF StopOrder
  <2> QED
    BY <1>1, <2>1, StopFrame DEF EngineInv
<1>8. TakerInv'
  BY <1>1 DEF TakerInv, Matching
<1> HIDE DEF resting, dropped, status, peak
<1>9. CASE order' = [order EXCEPT ![taker] = dropped] /\ UNCHANGED <<levels, ordersById>>
  <2>1. order'[taker] = dropped /\ \A o \in OrderIds \ {taker} : order'[o] = order[o]
    BY <1>2, <1>9
  <2>2. OrdersInv'
    BY <1>5, <2>1 DEF EngineInv, OrdersInv
  <2>3. BookInv'
    BY <1>2, <1>3, <1>9, <2>1, BookFrame DEF EngineInv
  <2> QED
    BY <1>7, <1>8, <2>2, <2>3 DEF EngineInv
<1>10. CASE /\ remaining > 0 /\ Rests(ord)
            /\ order' = [order EXCEPT ![taker] = resting] /\ AddToBook(taker, resting)
  <2> DEFINE side == ord.side
             p    == ord.price
  <2>1. order'[taker] = resting /\ \A o \in OrderIds \ {taker} : order'[o] = order[o]
    BY <1>2, <1>10
  <2>2. RestingOrder(resting, side, p)
    BY <1>3, <1>6, <1>10
  <2>3. side \in Sides /\ p \in Prices
    BY <1>2, <1>3 DEF EngineOrder
  <2>4. /\ levels' = [levels EXCEPT ![side][p] = Append(@, taker)]
        /\ ordersById' = ordersById \cup {taker}
    BY <1>10, <2>2 DEF AddToBook, RestingOrder
  <2> HIDE DEF side, p
  <2>5. OrdersInv'
    BY <2>1, <2>2 DEF EngineInv, OrdersInv, RestingOrder
  <2>6. \A s \in Sides, q \in Prices : ~Has(levels[s][q], taker)
    BY <1>2, <1>3 DEF EngineInv, BookInv
  <2>7. /\ Distinct(Append(levels[side][p], taker))
        /\ \A x : Has(Append(levels[side][p], taker), x) <=> Has(levels[side][p], x) \/ x = taker
    <3>1. levels[side][p] \in Seq(OrderIds) /\ Distinct(levels[side][p])
      BY <1>2, <2>3 DEF EngineInv, BookInv
    <3> QED
      BY <1>2, <2>3, <2>6, <3>1, AppendToQueue
  <2>8. \A s \in Sides, q \in Prices :
          /\ Distinct(levels'[s][q])
          /\ \A x \in OrderIds : Has(levels'[s][q], x) <=>
               Has(levels[s][q], x) \/ (x = taker /\ s = side /\ q = p)
    <3> SUFFICES ASSUME NEW s \in Sides, NEW q \in Prices
                 PROVE  /\ Distinct(levels'[s][q])
                        /\ \A x \in OrderIds : Has(levels'[s][q], x) <=>
                             Has(levels[s][q], x) \/ (x = taker /\ s = side /\ q = p)
      OBVIOUS
    <3>1. CASE s = side /\ q = p
      BY <1>2, <2>3, <2>4, <2>7, <3>1
    <3>2. CASE s # side \/ q # p
      <4>1. levels'[s][q] = levels[s][q]
        BY <1>2, <2>4, <3>2
      <4> QED
        BY <3>2, <4>1 DEF EngineInv, BookInv
    <3> QED
      BY <3>1, <3>2
  <2>9. BookInv'
    <3>1. \A o \in OrderIds :
            o \in ordersById' <=> \E s \in Sides, q \in Prices : Has(levels'[s][q], o)
      BY <2>3, <2>4, <2>8 DEF EngineInv, BookInv
    <3>2. \A s \in Sides, q \in Prices, o \in OrderIds :
            Has(levels'[s][q], o) => RestingOrder(order'[o], s, q)
      BY <2>1, <2>2, <2>6, <2>8 DEF EngineInv, BookInv
    <3> QED
      BY <2>8, <3>1, <3>2 DEF BookInv
  <2> QED
    BY <1>7, <1>8, <2>5, <2>9 DEF EngineInv
<1> QED
  BY <1>1, <1>9, <1>10

LEMMA FinishMarketKeeps == TypeInv /\ EngineInv /\ FinishMarket => EngineInv'
<1> SUFFICES ASSUME TypeInv, EngineInv, FinishMarket PROVE EngineInv'
  OBVIOUS
<1> DEFINE ord    == order[taker]
           status == StatusAfterMatching(ord, "CANCELLED")
           done   == [ord EXCEPT !.status = status]
<1>1. /\ pc = "market" /\ pc' = "stops" /\ order' = [order EXCEPT ![taker] = done]
      /\ UNCHANGED <<levels, ordersById, stops, pendingStops, batches>>
  BY DEF FinishMarket, stopVars, bookVars
<1>2. /\ taker \in OrderIds /\ ord \in EngineOrder /\ Sound(ord)
      /\ order \in [OrderIds -> EngineOrder] /\ ordersById \subseteq OrderIds
  BY <1>1 DEF TypeInv, TypeOK, InCall, SoundOrders, Sound
<1>3. ord.order_type = "MARKET" /\ taker \notin ordersById
  BY <1>1 DEF EngineInv, TakerInv, Matching
<1>4. /\ status # "UNUSED"
      /\ status = "FILLED" => Remaining(ord) = 0
      /\ done.status = status /\ Remaining(done) = Remaining(ord)
  <2>1. ord.filled_quantity \in Nat /\ Remaining(ord) \in Nat
    BY <1>2, RemainingBounds
  <2> QED
    BY <1>2, <2>1, StatusAfterMatchingCases, StatusEffect
<1> HIDE DEF done, status
<1>5. order'[taker] = done /\ \A o \in OrderIds \ {taker} : order'[o] = order[o]
  BY <1>1, <1>2
<1>6. OrdersInv'
  <2> SUFFICES ASSUME NEW o \in OrderIds
               PROVE  /\ order'[o].status = "UNUSED" => order'[o] = Blank
                      /\ order'[o].status = "FILLED" => Remaining(order'[o]) = 0
    BY DEF OrdersInv
  <2>1. CASE o = taker
    BY <1>4, <1>5, <2>1
  <2>2. CASE o # taker
    BY <1>5, <2>2 DEF EngineInv, OrdersInv
  <2> QED
    BY <2>1, <2>2
<1>7. BookInv'
  BY <1>1, <1>2, <1>3, <1>5, BookFrame DEF EngineInv
<1>8. StopInv'
  BY <1>1, <1>3, <1>5, StopFrame DEF EngineInv, StopOrder
<1>9. TakerInv'
  BY <1>1 DEF TakerInv, Matching
<1> QED
  BY <1>6, <1>7, <1>8, <1>9 DEF EngineInv

\* A stop list moves, whole, to the end of the triggered stops.
LEMMA FireStopsKeeps ==
    ASSUME TypeInv, EngineInv, NEW side \in Sides, NEW sp \in Prices, FireStops(side, sp)
    PROVE  EngineInv'
<1> DEFINE fired == stops[side][sp]
<1>1. /\ UNCHANGED <<order, levels, ordersById, batches, pc, taker, remaining,
                     quoteRemaining, result>>
      /\ pendingStops' = pendingStops \o fired
      /\ stops' = [stops EXCEPT ![side][sp] = <<>>]
  BY DEF FireStops, bookVars, callVars
<1>2. /\ stops \in [Sides -> [Prices -> Seq(OrderIds)]] /\ pendingStops \in Seq(OrderIds)
      /\ fired \in Seq(OrderIds) /\ Distinct(fired) /\ Distinct(pendingStops)
      /\ \A x \in OrderIds : Has(fired, x) => ~Has(pendingStops, x)
  BY DEF TypeInv, TypeOK, EngineInv, StopInv, StopsApart
<1>3. \A q \in Seq(OrderIds) : \A x : Has(q, x) => x \in OrderIds
  BY DEF Has
<1>4. /\ Distinct(pendingStops \o fired)
      /\ \A x : Has(pendingStops \o fired, x) <=> Has(pendingStops, x) \/ Has(fired, x)
  BY <1>2, <1>3, JoinQueues
<1>5. /\ stops'[side][sp] = <<>>
      /\ \A s \in Sides, q \in Prices : s # side \/ q # sp => stops'[s][q] = stops[s][q]
  BY <1>1, <1>2
<1>6. \A s \in Sides, q \in Prices :
        /\ Distinct(stops'[s][q])
        /\ \A x \in OrderIds : Has(stops'[s][q], x) <=>
             Has(stops[s][q], x) /\ (s # side \/ q # sp)
  <2> SUFFICES ASSUME NEW s \in Sides, NEW q \in Prices
               PROVE  /\ Distinct(stops'[s][q])
                      /\ \A x \in OrderIds : Has(stops'[s][q], x) <=>
                           Has(stops[s][q], x) /\ (s # side \/ q # sp)
    OBVIOUS
  <2>1. CASE s = side /\ q = sp
    BY <1>5, <2>1, EmptyQueue
  <2>2. CASE s # side \/ q # sp
    BY <1>5, <2>2 DEF EngineInv, StopInv, StopsApart
  <2> QED
    BY <2>1, <2>2
<1> HIDE DEF fired
<1>7. /\ OrdersInv' /\ BookInv'
  BY <1>1, BookFrame DEF EngineInv, OrdersInv
<1>8. TakerInv'
  BY <1>1 DEF EngineInv, TakerInv, Matching
<1>9. StopsApart(stops', pendingStops', batches, order)
  <2> USE <1>4, <1>6 DEF EngineInv, StopInv, StopsApart
  <2>1. \A s \in Sides, q \in Prices, o \in OrderIds : Has(stops'[s][q], o) =>
          /\ StopOrder(order[o]) /\ order[o].side = s /\ order[o].stop_price = q
          /\ ~Has(pendingStops, o) /\ ~Has(fired, o)
          /\ \A batch \in batches : ~Has(batch, o)
    <3> SUFFICES ASSUME NEW s \in Sides, NEW q \in Prices, NEW o \in OrderIds,
                        Has(stops'[s][q], o)
                 PROVE  ~Has(fired, o)
      OBVIOUS
    <3>1. order[o].side = s /\ order[o].stop_price = q /\ (s # side \/ q # sp)
      OBVIOUS
    <3> QED
      BY <3>1 DEF fired
  <2>2. \A o \in OrderIds : Has(fired, o) =>
          StopOrder(order[o]) /\ \A batch \in batches : ~Has(batch, o)
    BY DEF fired
  <2> QED
    BY <1>1, <2>1, <2>2
<1>10. StopInv'
  BY <1>1, <1>9 DEF StopInv
<1> QED
  BY <1>7, <1>8, <1>10 DEF EngineInv

LEMMA EndCallKeeps == TypeInv /\ EngineInv /\ EndCall => EngineInv'
<1> SUFFICES ASSUME TypeInv, EngineInv, EndCall PROVE EngineInv'
  OBVIOUS
<1>1. UNCHANGED <<order, levels, ordersById, stops, pendingStops, batches>>
      /\ pc' = "idle" /\ result' = <<>>
  BY DEF EndCall, bookVars, stopVars
<1>2. OrdersInv' /\ BookInv' /\ StopInv'
  BY <1>1, BookFrame, StopFrame DEF EngineInv, OrdersInv
<1>3. TakerInv'
  BY <1>1 DEF TakerInv, Matching
<1> QED
  BY <1>2, <1>3 DEF EngineInv

\* The triggered stops become a list of their own.
LEMMA GetPendingStopsKeeps == TypeInv /\ EngineInv /\ GetPendingStops => EngineInv'
<1> SUFFICES ASSUME TypeInv, EngineInv, GetPendingStops PROVE EngineInv'
  OBVIOUS
<1>1. /\ UNCHANGED <<order, levels, ordersById, stops, pc, taker, remaining,
                     quoteRemaining, result>>
      /\ batches' = batches \cup {pendingStops} /\ pendingStops' = <<>>
  BY DEF GetPendingStops, bookVars, callVars
<1>2. OrdersInv' /\ BookInv' /\ TakerInv'
  BY <1>1, BookFrame DEF EngineInv, OrdersInv, TakerInv, Matching
<1>3. StopsApart(stops, <<>>, batches \cup {pendingStops}, order)
  <2> USE EmptyQueue DEF EngineInv, StopInv, StopsApart
  <2>1. \A batch \in batches \cup {pendingStops} :
          Distinct(batch) /\ \A o \in OrderIds : Has(batch, o) => StopOrder(order[o])
    OBVIOUS
  <2>2. \A b1, b2 \in batches \cup {pendingStops}, o \in OrderIds :
          Has(b1, o) /\ Has(b2, o) => b1 = b2
    OBVIOUS
  <2> QED
    BY <2>1, <2>2
<1> QED
  BY <1>1, <1>2, <1>3 DEF EngineInv, StopInv

\* Dropping lists leaves the rest apart.
LEMMA FewerBatches ==
    ASSUME NEW st, NEW pending, NEW handed, NEW f, StopsApart(st, pending, handed, f),
           NEW fewer \in SUBSET handed
    PROVE  StopsApart(st, pending, fewer, f)
BY DEF StopsApart

\* Working on a list takes its first order off: that order is a stop order and
\* on no list any more.
LEMMA RestOfBatch ==
    ASSUME TypeInv, EngineInv, NEW batch \in batches
    PROVE  LET o    == Head(batch)
               left == (batches \ {batch}) \cup RestOf(batch)
           IN  /\ o \in OrderIds /\ StopOrder(order[o])
               /\ StopsApart(stops, pendingStops, left, order)
               /\ OnNoList(o, stops, pendingStops, left)
<1> DEFINE o    == Head(batch)
           left == (batches \ {batch}) \cup RestOf(batch)
           rest == Tail(batch)
<1>1. batch \in Seq(OrderIds) /\ batch # <<>> /\ Distinct(batch)
  BY DEF TypeInv, TypeOK, EngineInv, StopInv, StopsApart
<1>2. o \in OrderIds /\ Has(batch, o)
  BY <1>1, HeadOfQueue
<1>3. /\ Distinct(rest) /\ \A x : Has(rest, x) <=> Has(batch, x) /\ x # o
  BY <1>1, TailOfQueue
<1>4. \A x \in left : (x \in batches /\ x # batch) \/ x = rest
  BY DEF RestOf
<1> HIDE DEF o, left, rest
<1> USE DEF EngineInv, StopInv, StopsApart
<1>5. StopOrder(order[o])
  BY <1>2
<1>6. \A x \in left : /\ Distinct(x)
                      /\ \A y \in OrderIds : Has(x, y) => StopOrder(order[y]) /\ y # o
  <2> SUFFICES ASSUME NEW x \in left
               PROVE  /\ Distinct(x)
                      /\ \A y \in OrderIds : Has(x, y) => StopOrder(order[y]) /\ y # o
    OBVIOUS
  <2>1. CASE x = rest
    BY <1>3, <2>1
  <2>2. CASE x \in batches /\ x # batch
    BY <1>2, <2>2
  <2> QED
    BY <1>4, <2>1, <2>2
<1>7. \A b1, b2 \in left, y \in OrderIds : Has(b1, y) /\ Has(b2, y) => b1 = b2
  <2> SUFFICES ASSUME NEW b1 \in left, NEW b2 \in left, NEW y \in OrderIds,
                      Has(b1, y), Has(b2, y)
               PROVE  b1 = b2
    OBVIOUS
  <2>1. b1 = rest => b2 = rest
    BY <1>3, <1>4
  <2>2. b2 = rest => b1 = rest
    BY <1>3, <1>4
  <2> QED
    BY <1>4, <2>1, <2>2
<1>8. \A y \in OrderIds : (\A x \in batches : ~Has(x, y)) => \A x \in left : ~Has(x, y)
  BY <1>3, <1>4
<1>9. StopsApart(stops, pendingStops, left, order)
  BY <1>6, <1>7, <1>8
<1>10. OnNoList(o, stops, pendingStops, left)
  BY <1>2, <1>6 DEF OnNoList
<1> QED
  BY <1>2, <1>5, <1>9, <1>10 DEF o, left

\* The steps that only shorten or drop a list.
LEMMA ListDropped ==
    ASSUME EngineInv, StopsApart(stops, pendingStops, batches', order),
           UNCHANGED <<order, bookVars, stops, pendingStops, lastTradePrice, callVars>>
    PROVE  EngineInv'
<1>1. UNCHANGED <<order, levels, ordersById, stops, pendingStops, pc, taker, remaining,
                  quoteRemaining, result>>
  BY DEF bookVars, callVars
<1>2. OrdersInv' /\ BookInv' /\ TakerInv'
  BY <1>1, BookFrame DEF EngineInv, OrdersInv, TakerInv, Matching
<1> QED
  BY <1>1, <1>2 DEF EngineInv, StopInv

LEMMA BatchesKeep ==
    ASSUME TypeInv, EngineInv, NEW batch \in batches
    PROVE  /\ SkipTriggered(batch) => EngineInv'
           /\ LoseBatch(batch) => EngineInv'
<1>1. ASSUME SkipTriggered(batch) PROVE EngineInv'
  BY <1>1, RestOfBatch, ListDropped DEF SkipTriggered
<1>2. ASSUME LoseBatch(batch) PROVE EngineInv'
  <2>1. StopsApart(stops, pendingStops, batches \ {batch}, order)
    BY FewerBatches DEF EngineInv, StopInv
  <2> QED
    BY <1>2, <2>1, ListDropped DEF LoseBatch
<1> QED
  BY <1>1, <1>2

\* A triggered stop is a fresh market or limit order.
LEMMA TriggeredIsFresh ==
    ASSUME NEW ord, Sound(ord), StopOrder(ord)
    PROVE  Sound(Triggered(ord)) /\ Fresh(Triggered(ord))
<1> DEFINE type == IF ord.order_type = "STOP_MARKET" THEN "MARKET" ELSE "LIMIT"
           new  == [ord EXCEPT !.order_type = type]
<1>1. Triggered(ord) = new
  BY DEF Triggered
<1>2. ord \in EngineOrder /\ type \in {"MARKET", "LIMIT"} /\ type \in OrderTypes
  BY DEF Sound, OrderTypes
<1>3. Sound(Triggered(ord))
  BY <1>2, SetType
<1>4. /\ new.order_type = type /\ new.status = ord.status /\ new.price = ord.price
      /\ new.filled_quantity = ord.filled_quantity /\ new.quantity = ord.quantity
      /\ new.quote_quantity = ord.quote_quantity
      /\ new.time_in_force = ord.time_in_force
  BY <1>2 DEF EngineOrder
<1>5. type = "LIMIT" => ord.order_type = "STOP_LIMIT"
  BY DEF StopOrder
<1> HIDE DEF new, type
<1>6. Fresh(new)
  BY <1>2, <1>4, <1>5 DEF Fresh, StopOrder
<1> QED
  BY <1>1, <1>3, <1>6

LEMMA SubmitTriggeredKeeps ==
    ASSUME TypeInv, EngineInv, NEW batch \in batches, SubmitTriggered(batch)
    PROVE  EngineInv'
<1> DEFINE o == Head(batch)
<1>1. /\ o \in OrderIds /\ StopOrder(order[o])
      /\ StopsApart(stops, pendingStops, batches', order)
      /\ OnNoList(o, stops, pendingStops, batches')
  BY RestOfBatch DEF SubmitTriggered
<1>2. Process(o, Triggered(order[o])) /\ UNCHANGED pendingStops
  BY DEF SubmitTriggered
<1> HIDE DEF o
<1>3. Sound(Triggered(order[o])) /\ Fresh(Triggered(order[o]))
  BY <1>1, TriggeredIsFresh DEF TypeInv, SoundOrders
<1>4. o \notin ordersById
  BY <1>1 DEF EngineInv, BookInv, RestingOrder, StopOrder
<1> QED
  BY <1>1, <1>2, <1>3, <1>4, ProcessKeeps

LEMMA SubmitKeeps ==
    ASSUME TypeInv, EngineInv, NEW req \in Requests, Submit(req)
    PROVE  EngineInv'
<1> DEFINE o == CHOOSE x \in Unused : TRUE
<1>1. o \in Unused /\ Process(o, req) /\ UNCHANGED <<pendingStops, batches>>
  BY DEF Submit
<1> HIDE DEF o
<1>2. o \in OrderIds /\ order[o].status = "UNUSED"
  BY <1>1 DEF Unused
<1>3. req \in EngineOrder /\ WellFormed(req)
  BY RequestsAssumption
<1>4. Sound(req)
  BY <1>3 DEF Sound, EngineOrder, WellFormed
<1>5. Fresh(req)
  BY <1>3 DEF Fresh, EngineOrder, WellFormed, NoPrice
<1>6. o \notin ordersById
  BY <1>2 DEF EngineInv, BookInv, RestingOrder
<1>7. OnNoList(o, stops, pendingStops, batches)
  BY <1>2 DEF EngineInv, StopInv, StopsApart, OnNoList, StopOrder, Fresh
<1>8. StopsApart(stops, pendingStops, batches, order)
  BY DEF EngineInv, StopInv
<1> QED
  BY <1>1, <1>2, <1>4, <1>5, <1>6, <1>7, <1>8, ProcessKeeps

LEMMA CancelOrderKeeps ==
    ASSUME TypeInv, EngineInv, NEW o \in OrderIds, CancelOrder(o)
    PROVE  EngineInv'
<1> DEFINE side  == order[o].side
           p     == order[o].price
           queue == levels[side][p]
           st    == IF order[o].status \in {"OPEN", "PENDING", "PARTIALLY_FILLED"}
                    THEN "CANCELLED" ELSE order[o].status
           new   == [order[o] EXCEPT !.status = st]
<1>1. /\ o \in ordersById /\ ordersById' = ordersById \ {o} /\ pc = "idle"
      /\ UNCHANGED <<stops, pendingStops, batches, pc, taker, remaining,
                     quoteRemaining, result>>
  BY DEF CancelOrder, stopVars, callVars
<1>2. PICK i \in 1 .. Len(queue) :
        queue[i] = o /\ levels' = [levels EXCEPT ![side][p] = Without(queue, i)]
  BY DEF CancelOrder, Without
<1>3. /\ order \in [OrderIds -> EngineOrder] /\ order[o] \in EngineOrder
      /\ levels \in [Sides -> [Prices -> Seq(OrderIds)]] /\ ordersById \subseteq OrderIds
  BY DEF TypeInv, TypeOK
<1>4. PICK s \in Sides, q \in Prices : Has(levels[s][q], o)
  BY <1>1 DEF EngineInv, BookInv
<1>5. RestingOrder(order[o], s, q)
  BY <1>4 DEF EngineInv, BookInv
<1>6. /\ side \in Sides /\ p \in Prices /\ queue \in Seq(OrderIds) /\ Distinct(queue)
      /\ RestingOrder(order[o], side, p)
  BY <1>3, <1>5 DEF EngineInv, BookInv, RestingOrder
<1>7. st = "CANCELLED" /\ new.status = "CANCELLED"
  BY <1>3, <1>6, StatusEffect DEF RestingOrder
<1>8. order' = [order EXCEPT ![o] = new]
  BY <1>3 DEF CancelOrder
<1> HIDE DEF new, st
<1>9. order'[o] = new /\ \A x \in OrderIds \ {o} : order'[x] = order[x]
  BY <1>3, <1>8
<1>10. /\ Distinct(Without(queue, i))
       /\ \A x : Has(Without(queue, i), x) <=> Has(queue, x) /\ x # o
  BY <1>2, <1>6, WithoutOne
<1> HIDE DEF queue
<1>11. OrdersInv'
  BY <1>7, <1>9 DEF EngineInv, OrdersInv
<1>12. StopInv'
  BY <1>1, <1>6, <1>9, StopFrame DEF EngineInv, StopOrder, RestingOrder
<1>13. TakerInv'
  BY <1>1 DEF EngineInv, TakerInv, Matching
<1> HIDE DEF side, p
<1>14. /\ levels'[side][p] = Without(queue, i)
       /\ \A s1 \in Sides, q1 \in Prices :
            s1 # side \/ q1 # p => levels'[s1][q1] = levels[s1][q1]
  BY <1>2, <1>3, <1>6
<1>15. \A s1 \in Sides, q1 \in Prices :
         /\ Distinct(levels'[s1][q1])
         /\ \A x \in OrderIds : Has(levels'[s1][q1], x) <=> Has(levels[s1][q1], x) /\ x # o
  <2> SUFFICES ASSUME NEW s1 \in Sides, NEW q1 \in Prices
               PROVE  /\ Distinct(levels'[s1][q1])
                      /\ \A x \in OrderIds :
                           Has(levels'[s1][q1], x) <=> Has(levels[s1][q1], x) /\ x # o
    OBVIOUS
  <2>1. CASE s1 = side /\ q1 = p
    BY <1>10, <1>14, <2>1 DEF queue
  <2>2. CASE s1 # side \/ q1 # p
    <3>1. ~Has(levels[s1][q1], o)
      BY <1>6, <2>2 DEF EngineInv, BookInv, RestingOrder
    <3> QED
      BY <1>14, <2>2, <3>1 DEF EngineInv, BookInv
  <2> QED
    BY <2>1, <2>2
<1>16. BookInv'
  <2>1. \A x \in OrderIds :
          x \in ordersById' <=> \E s1 \in Sides, q1 \in Prices : Has(levels'[s1][q1], x)
    BY <1>1, <1>15 DEF EngineInv, BookInv
  <2>2. \A s1 \in Sides, q1 \in Prices, x \in OrderIds :
          Has(levels'[s1][q1], x) => RestingOrder(order'[x], s1, q1)
    BY <1>9, <1>15 DEF EngineInv, BookInv
  <2> QED
    BY <1>15, <2>1, <2>2 DEF BookInv
<1> QED
  BY <1>11, <1>12, <1>13, <1>16 DEF EngineInv

\* A maker that is dropped was the best one of the side the taker trades with,
\* and only what the taker's budget is left with brings that about.
LEMMA DropEffect ==
    ASSUME TypeInv, EngineInv, DropMaker
    PROVE  /\ UNCHANGED <<order, stops, pendingStops, batches, pc, taker, remaining,
                          quoteRemaining, result>>
           /\ pc = "market" /\ taker \in OrderIds /\ order[taker].quote_quantity > 0
           /\ \E side \in Sides, p \in Prices :
                LET queue == levels[side][p]
                    maker == Head(queue)
                IN  /\ side = Opposite(order[taker].side)
                    /\ queue \in Seq(OrderIds) /\ queue # <<>> /\ Distinct(queue)
                    /\ maker \in OrderIds /\ Has(queue, maker)
                    /\ RestingOrder(order[maker], side, p)
                    /\ levels' = [levels EXCEPT ![side][p] = Tail(queue)]
                    /\ totals' = [totals EXCEPT ![side][p] = TotalAfterPop(queue, @)]
                    /\ ordersById' = ordersById \ {maker}
<1> DEFINE side == Opposite(order[taker].side)
<1>1. PICK p \in Prices :
        /\ IsBest(side, p) /\ MarketFill(p) <= 0
        /\ levels' = [levels EXCEPT ![side][p] = Tail(levels[side][p])]
        /\ totals' = [totals EXCEPT ![side][p] = TotalAfterPop(levels[side][p], @)]
        /\ ordersById' = ordersById \ {Head(levels[side][p])}
  BY DEF DropMaker
<1>2. pc = "market" /\ MarketWants
  BY DEF DropMaker
<1> DEFINE queue == levels[side][p]
           maker == Head(queue)
<1>3. /\ taker \in OrderIds /\ side \in Sides
      /\ queue \in Seq(OrderIds) /\ queue # <<>> /\ p \in Occupied(side)
  BY <1>1, <1>2 DEF TypeInv, TypeOK, InCall, Opposite, Sides, IsBest, Occupied
<1>4. maker \in OrderIds /\ Has(queue, maker)
  BY <1>3, HeadOfQueue
<1>5. RestingOrder(order[maker], side, p) /\ Distinct(queue)
  BY <1>3, <1>4 DEF EngineInv, BookInv
<1>6. ~(remaining > 0)
  <2> SUFFICES ASSUME remaining > 0 PROVE FALSE
    OBVIOUS
  <2>1. order[maker] \in EngineOrder
    BY <1>4 DEF TypeInv, TypeOK
  <2>2. Remaining(order[maker]) > 0
    <3> HIDE DEF maker
    <3> QED
      BY <1>5, <2>1 DEF RestingOrder, Remaining, EngineOrder
  <2>3. MakerRemaining(p) = Remaining(order[maker])
    BY DEF MakerRemaining
  <2>4. MarketFill(p) = FillQuantity(p)
    BY DEF MarketFill
  <2>5. MakerRemaining(p) \in Nat /\ remaining \in Int
    BY <1>2, <1>3, MakerRemainingNat DEF TypeInv, TypeOK
  <2>6. FillQuantity(p) <= 0
    BY <1>1, <2>4
  <2>7. MakerRemaining(p) > 0
    BY <2>2, <2>3
  <2> QED
    BY <2>5, <2>6, <2>7 DEF FillQuantity, Lesser
<1>7. order[taker].quote_quantity > 0
  <2>1. quoteRemaining > 0 /\ quoteRemaining \in Int
    BY <1>2, <1>6 DEF MarketWants, TypeInv, TypeOK
  <2>2. quoteRemaining <= order[taker].quote_quantity
    BY <1>2 DEF EngineInv, TakerInv
  <2>3. order[taker].quote_quantity \in Nat
    BY <1>3 DEF TypeInv, TypeOK, EngineOrder
  <2> QED
    BY <2>1, <2>2, <2>3
<1>8. UNCHANGED <<order, stops, pendingStops, batches, pc, taker, remaining,
                  quoteRemaining, result>>
  BY DEF DropMaker, stopVars, callVars
<1> QED
  BY <1>1, <1>2, <1>3, <1>4, <1>5, <1>7, <1>8

LEMMA DropMakerKeeps == TypeInv /\ EngineInv /\ DropMaker => EngineInv'
<1> SUFFICES ASSUME TypeInv, EngineInv, DropMaker PROVE EngineInv'
  OBVIOUS
<1>1. /\ UNCHANGED <<order, stops, pendingStops, batches, pc, taker, remaining,
                     quoteRemaining, result>>
      /\ pc = "market" /\ taker \in OrderIds
  BY DropEffect
<1>2. PICK side \in Sides, p \in Prices :
        LET queue == levels[side][p]
            maker == Head(queue)
        IN  /\ queue \in Seq(OrderIds) /\ queue # <<>> /\ Distinct(queue)
            /\ maker \in OrderIds /\ Has(queue, maker)
            /\ RestingOrder(order[maker], side, p)
            /\ levels' = [levels EXCEPT ![side][p] = Tail(queue)]
            /\ ordersById' = ordersById \ {maker}
  BY DropEffect
<1> DEFINE queue == levels[side][p]
           maker == Head(queue)
<1>3. /\ queue \in Seq(OrderIds) /\ queue # <<>> /\ Distinct(queue)
      /\ RestingOrder(order[maker], side, p)
      /\ levels' = [levels EXCEPT ![side][p] = Tail(queue)]
      /\ ordersById' = ordersById \ {maker}
      /\ levels \in [Sides -> [Prices -> Seq(OrderIds)]]
  BY <1>2 DEF TypeInv, TypeOK
<1>4. /\ levels'[side][p] = Tail(queue)
      /\ \A s \in Sides, q \in Prices : s # side \/ q # p => levels'[s][q] = levels[s][q]
  <2> HIDE DEF queue, maker
  <2> QED
    BY <1>3
<1>5. Distinct(Tail(queue)) /\ \A x : Has(Tail(queue), x) <=> Has(queue, x) /\ x # maker
  <2> HIDE DEF queue
  <2> QED
    BY <1>3, TailOfQueue DEF maker
<1> HIDE DEF maker
<1>6. \A s \in Sides, q \in Prices :
        /\ Distinct(levels'[s][q])
        /\ \A x \in OrderIds : Has(levels'[s][q], x) <=> Has(levels[s][q], x) /\ x # maker
  <2> SUFFICES ASSUME NEW s \in Sides, NEW q \in Prices
               PROVE  /\ Distinct(levels'[s][q])
                      /\ \A x \in OrderIds :
                           Has(levels'[s][q], x) <=> Has(levels[s][q], x) /\ x # maker
    OBVIOUS
  <2>1. CASE s = side /\ q = p
    BY <1>4, <1>5, <2>1
  <2>2. CASE s # side \/ q # p
    <3>1. \A x \in OrderIds : Has(levels[s][q], x) => RestingOrder(order[x], s, q)
      BY DEF EngineInv, BookInv
    <3>2. ~(maker \in OrderIds /\ Has(levels[s][q], maker))
      BY <1>3, <2>2, <3>1 DEF RestingOrder
    <3> QED
      BY <1>4, <2>2, <3>2 DEF EngineInv, BookInv
  <2> QED
    BY <2>1, <2>2
<1>7. BookInv'
  <2>1. \A x \in OrderIds :
          x \in ordersById' <=> \E s \in Sides, q \in Prices : Has(levels'[s][q], x)
    BY <1>3, <1>6 DEF EngineInv, BookInv
  <2>2. \A s \in Sides, q \in Prices, x \in OrderIds :
          Has(levels'[s][q], x) => RestingOrder(order'[x], s, q)
    BY <1>1, <1>6 DEF EngineInv, BookInv
  <2> QED
    BY <1>6, <2>1, <2>2 DEF BookInv
<1>8. OrdersInv' /\ StopInv'
  BY <1>1, StopFrame DEF EngineInv, OrdersInv
<1>9. TakerInv'
  BY <1>1, <1>3 DEF EngineInv, TakerInv, Matching
<1> QED
  BY <1>7, <1>8, <1>9 DEF EngineInv

\* Nothing the engine or its callers do breaks the invariant.
LEMMA EngineNext == TypeInv /\ EngineInv /\ [Next]_vars => EngineInv'
<1> SUFFICES ASSUME TypeInv, EngineInv, [Next]_vars PROVE EngineInv'
  OBVIOUS
<1>1. CASE EngineStep
  BY <1>1, MatchLimitKeeps, MatchMarketKeeps, DropMakerKeeps, FinishLimitKeeps,
     FinishMarketKeeps, FireStopsKeeps, EndCallKeeps DEF EngineStep
<1>2. CASE CallerStep
  BY <1>2, SubmitKeeps, GetPendingStopsKeeps, SubmitTriggeredKeeps, BatchesKeep,
     CancelOrderKeeps DEF CallerStep
<1>3. CASE UNCHANGED vars
  <2>1. UNCHANGED <<order, levels, ordersById, stops, pendingStops, batches, pc, taker,
                    remaining, quoteRemaining, result>>
    BY <1>3 DEF vars, bookVars, stopVars, callVars
  <2> QED
    BY <2>1, BookFrame, StopFrame DEF EngineInv, OrdersInv, TakerInv, Matching
<1> QED
  BY <1>1, <1>2, <1>3 DEF Next

\* The book, the stop lists and the call in progress agree in every state.
THEOREM EngineCorrect == Spec => [](TypeInv /\ EngineInv)
<1>1. Init => TypeInv /\ EngineInv
  BY TypeInit, EngineInit
<1>2. TypeInv /\ EngineInv /\ [Next]_vars => (TypeInv /\ EngineInv)'
  BY TypeStep, EngineNext
<1> QED
  BY <1>1, <1>2, PTL DEF Spec

-----------------------------------------------------------------------------
(* What follows from it.                                                   *)

\* Engine orders by id: orders_by_id and the price levels hold the same
\* orders, each once, at its own side and price and alive (order_book.py).
THEOREM BookAlwaysIndexed == Spec => []BookIndexed
<1>1. TypeInv /\ EngineInv => BookIndexed
  <2> SUFFICES ASSUME TypeInv, EngineInv PROVE BookIndexed
    OBVIOUS
  <2>1. \A side \in Sides, p \in Prices : levels[side][p] \in Seq(OrderIds)
    BY DEF TypeInv, TypeOK
  <2>2. \A side \in Sides, p \in Prices : \A i \in 1 .. Len(levels[side][p]) :
          RestingOrder(order[levels[side][p][i]], side, p)
    <3> SUFFICES ASSUME NEW side \in Sides, NEW p \in Prices,
                        NEW i \in 1 .. Len(levels[side][p])
                 PROVE  RestingOrder(order[levels[side][p][i]], side, p)
      OBVIOUS
    <3>1. levels[side][p][i] \in OrderIds
      BY <2>1
    <3> QED
      BY <3>1 DEF EngineInv, BookInv, Has
  <2> QED
    BY <2>2 DEF EngineInv, BookInv, Has, Distinct, BookIndexed, OnLevel, RestingOrder
<1> QED
  BY <1>1, EngineCorrect, PTL

\* What process_order does before its loops.
LEMMA ProcessChanges ==
    ASSUME TypeInv, NEW o \in OrderIds, NEW ord, Process(o, ord)
    PROVE  /\ \A x \in OrderIds \ {o} : order'[x] = order[x]
           /\ pc = "idle" /\ UNCHANGED <<levels, totals, ordersById>>
           /\ \/ /\ pc' = "limit" /\ taker' = o /\ ord.order_type = "LIMIT"
                 /\ order'[o] = [ord EXCEPT !.status = "OPEN"]
              \/ pc' = "market" /\ taker' = o /\ ord.order_type = "MARKET" /\ order'[o] = ord
              \/ /\ UNCHANGED <<pc, taker>>
                 /\ \E st \in {"EXPIRED", "CANCELLED", "PENDING"} :
                      order'[o] = [ord EXCEPT !.status = st]
<1>1. order \in [OrderIds -> EngineOrder]
  BY DEF TypeInv, TypeOK
<1>2. pc = "idle"
  BY DEF Process
<1>3. CASE Expire(o, ord)
  BY <1>1, <1>2, <1>3 DEF Expire, bookVars, callVars
<1>4. CASE KillFillOrKill(o, ord)
  BY <1>1, <1>2, <1>4 DEF KillFillOrKill, bookVars, callVars
<1>5. CASE StartMatching(o, ord)
  BY <1>1, <1>2, <1>5 DEF StartMatching, bookVars
<1>6. CASE RestStop(o, ord)
  BY <1>1, <1>2, <1>6 DEF RestStop, bookVars, callVars
<1> QED
  BY <1>3, <1>4, <1>5, <1>6 DEF Process

\* A finished order gets no status it does not have.
LEMMA FinishedStays ==
    ASSUME NEW ord \in EngineOrder, ord.status = "FILLED"
    PROVE  [ord EXCEPT !.status = "FILLED"] = ord
BY DEF EngineOrder

LEMMA TradeFinal ==
    ASSUME TypeInv, EngineInv, Matching, NEW p \in Prices, NEW qty \in Nat,
           p \in Occupied(Opposite(order[taker].side)), Trade(p, qty),
           NEW o \in OrderIds, order[o].status \in Terminal
    PROVE  order'[o] = order[o]
<1> DEFINE side  == Opposite(order[taker].side)
           maker == Head(levels[side][p])
<1>1. /\ taker \in OrderIds /\ maker \in OrderIds
      /\ RestingOrder(order[maker], side, p)
      /\ order'[taker] = Filled(order[taker], qty)
      /\ \A x \in OrderIds \ {maker, taker} : order'[x] = order[x]
  BY TradeEffect
<1> HIDE DEF maker, side
<1>2. o # maker
  BY <1>1 DEF RestingOrder, Terminal
<1>3. CASE o = taker
  <2>1. order[o].status = "FILLED"
    BY <1>3 DEF EngineInv, TakerInv, Terminal
  <2>2. Remaining(order[o]) = 0 /\ Sound(order[o])
    BY <2>1 DEF EngineInv, OrdersInv, TypeInv, SoundOrders
  <2> QED
    BY <1>1, <1>3, <2>1, <2>2, FilledEffect
<1> QED
  BY <1>1, <1>2, <1>3

\* A turn of either loop is a trade at the best occupied price.
LEMMA LoopTrades ==
    ASSUME TypeInv, MatchLimit \/ MatchMarket
    PROVE  /\ Matching
           /\ \E p \in Prices : \E qty \in Nat :
                /\ IsBest(Opposite(order[taker].side), p)
                /\ p \in Occupied(Opposite(order[taker].side))
                /\ Trade(p, qty)
<1>1. CASE MatchLimit
  <2>1. PICK p \in Prices :
          IsBest(Opposite(order[taker].side), p) /\ Trade(p, FillQuantity(p))
    BY <1>1 DEF MatchLimit
  <2>2. pc = "limit" /\ remaining > 0 /\ p \in Occupied(Opposite(order[taker].side))
    BY <1>1, <2>1 DEF MatchLimit, IsBest
  <2>3. FillQuantity(p) \in Nat
    BY <2>2, FillQuantityNat
  <2> QED
    BY <2>1, <2>2, <2>3 DEF Matching
<1>2. CASE MatchMarket
  <2>1. PICK p \in Prices :
          IsBest(Opposite(order[taker].side), p) /\ Trade(p, MarketFill(p))
    BY <1>2 DEF MatchMarket
  <2>2. pc = "market" /\ MarketWants /\ p \in Occupied(Opposite(order[taker].side))
    BY <1>2, <2>1 DEF MatchMarket, IsBest
  <2>3. MarketFill(p) \in Nat
    BY <2>2, MarketFillNat
  <2> QED
    BY <2>1, <2>2, <2>3 DEF Matching
<1> QED
  BY <1>1, <1>2

LEMMA FinishFinal ==
    ASSUME TypeInv, EngineInv, FinishLimit \/ FinishMarket,
           NEW o \in OrderIds, order[o].status \in Terminal
    PROVE  order'[o] = order[o]
<1> DEFINE ord == order[taker]
<1>1. /\ taker \in OrderIds /\ ord \in EngineOrder /\ Sound(ord) /\ Matching
      /\ order \in [OrderIds -> EngineOrder]
      /\ ord.status \in {"PENDING", "OPEN", "PARTIALLY_FILLED", "FILLED"}
      /\ pc = "limit" => remaining = Remaining(ord)
  BY DEF TypeInv, TypeOK, InCall, SoundOrders, Sound, EngineInv, TakerInv, Matching,
         FinishLimit, FinishMarket
<1>2. \A x \in OrderIds \ {taker} : order'[x] = order[x]
  BY <1>1 DEF FinishLimit, FinishMarket
<1>3. ASSUME o = taker PROVE order'[o] = order[o]
  <2>1. ord.status = "FILLED" /\ Remaining(ord) = 0
    BY <1>1, <1>3 DEF EngineInv, OrdersInv, Terminal
  <2>2. \A st : StatusAfterMatching(ord, st) = "FILLED"
    BY <1>1, <2>1, StatusAfterMatchingCases
  <2>3. CASE FinishLimit
    <3>1. pc = "limit" /\ ~(remaining > 0)
      BY <1>1, <2>1, <2>3 DEF FinishLimit
    <3>2. order' = [order EXCEPT ![taker] = [ord EXCEPT !.status = "FILLED"]]
      BY <2>2, <2>3, <3>1 DEF FinishLimit
    <3> QED
      BY <1>1, <1>3, <2>1, <3>2, FinishedStays
  <2>4. CASE FinishMarket
    <3>1. order' = [order EXCEPT ![taker].status = "FILLED"]
      BY <2>2, <2>4 DEF FinishMarket
    <3>2. order'[taker] = [ord EXCEPT !.status = "FILLED"]
      BY <1>1, <3>1
    <3> QED
      BY <1>1, <1>3, <2>1, <3>2, FinishedStays
  <2> QED
    BY <2>3, <2>4
<1> QED
  BY <1>2, <1>3

\* An order that is filled, cancelled, rejected or expired never changes
\* again: no match, trigger, sweep or cancel reaches it (engine.py).
THEOREM FinishedForGood == Spec => TerminalIsFinal
<1>1. ASSUME TypeInv, EngineInv, [Next]_vars
      PROVE  [\A o \in OrderIds : order[o].status \in Terminal => order'[o] = order[o]]_vars
  <2> SUFFICES ASSUME NEW o \in OrderIds, order[o].status \in Terminal, Next
               PROVE  order'[o] = order[o]
    BY <1>1
  <2> USE <1>1
  <2>1. CASE MatchLimit \/ MatchMarket
    BY <2>1, LoopTrades, TradeFinal
  <2>2. CASE FinishLimit \/ FinishMarket
    BY <2>2, FinishFinal
  <2>3. CASE \/ \E side \in Sides, sp \in Prices : FireStops(side, sp)
             \/ EndCall \/ GetPendingStops \/ DropMaker
    BY <2>3 DEF FireStops, EndCall, GetPendingStops, DropMaker
  <2>4. ASSUME NEW req \in Requests, Submit(req) PROVE order'[o] = order[o]
    <3> DEFINE x == CHOOSE y \in Unused : TRUE
    <3>1. x \in Unused /\ Process(x, req)
      BY <2>4 DEF Submit
    <3> HIDE DEF x
    <3>2. x \in OrderIds /\ order[x].status = "UNUSED"
      BY <3>1 DEF Unused
    <3> QED
      BY <3>1, <3>2, ProcessChanges DEF Terminal
  <2>5. ASSUME NEW batch \in batches,
               SubmitTriggered(batch) \/ SkipTriggered(batch) \/ LoseBatch(batch)
        PROVE  order'[o] = order[o]
    <3>1. CASE SubmitTriggered(batch)
      <4>1. Head(batch) \in OrderIds /\ order[Head(batch)].status = "PENDING"
        BY RestOfBatch DEF StopOrder, Fresh
      <4> QED
        BY <3>1, <4>1, ProcessChanges DEF SubmitTriggered, Terminal
    <3>2. CASE SkipTriggered(batch) \/ LoseBatch(batch)
      BY <3>2 DEF SkipTriggered, LoseBatch
    <3> QED
      BY <2>5, <3>1, <3>2
  <2>6. ASSUME NEW x \in OrderIds, CancelOrder(x) PROVE order'[o] = order[o]
    <3>1. order \in [OrderIds -> EngineOrder] /\ x \in ordersById
      BY <2>6 DEF TypeInv, TypeOK, CancelOrder
    <3>2. order[x].status \in {"OPEN", "PARTIALLY_FILLED"}
      BY <3>1 DEF EngineInv, BookInv, RestingOrder
    <3>3. o # x
      BY <3>2 DEF Terminal
    <3> QED
      BY <2>6, <3>1, <3>3 DEF CancelOrder
  <2> QED
    BY <2>1, <2>2, <2>3, <2>4, <2>5, <2>6 DEF Next, EngineStep, CallerStep
<1>2. TypeInv /\ EngineInv /\ [Next]_vars
        => [\A o \in OrderIds : order[o].status \in Terminal => order'[o] = order[o]]_vars
  BY <1>1
<1> QED
  BY <1>2, EngineCorrect, PTL DEF Spec, TerminalIsFinal

-----------------------------------------------------------------------------
(* Open orders stay on the book; a better price is never left behind.      *)

\* The end of a limit order: it rests, alive, at its price, or is given up,
\* and then nothing is left of it unless it may not rest.
LEMMA FinishLimitShape ==
    ASSUME TypeInv, EngineInv, FinishLimit
    PROVE  LET ord == order[taker] IN
           /\ taker \in OrderIds /\ ord.side \in Sides /\ ord.price \in Prices
           /\ \A o \in OrderIds \ {taker} : order'[o] = order[o]
           /\ order'[taker].side = ord.side
           /\ order'[taker].time_in_force = ord.time_in_force
           /\ order'[taker].filled_quantity = ord.filled_quantity
           /\ order'[taker].quote_quantity = ord.quote_quantity
           /\ \/ /\ remaining > 0 /\ Rests(ord)
                 /\ levels' = [levels EXCEPT ![ord.side][ord.price] = Append(@, taker)]
                 /\ totals' = [totals EXCEPT ![ord.side][ord.price] =
                                 @ + Remaining(order'[taker])]
                 /\ ordersById' = ordersById \cup {taker}
              \/ /\ Rests(ord) => order'[taker].status = "FILLED"
                 /\ order'[taker].quantity = ord.quantity
                 /\ UNCHANGED <<levels, totals, ordersById>>
<1> DEFINE ord     == order[taker]
           status  == StatusAfterMatching(ord, "OPEN")
           peak    == VisiblePart(ord)
           resting == IF ord.iceberg_peak > 0
                      THEN [ord EXCEPT !.status = status,
                                       !.quantity = ord.filled_quantity + peak,
                                       !.iceberg_base = Remaining(ord) - peak]
                      ELSE [ord EXCEPT !.status = status]
           dropped == [ord EXCEPT !.status =
                         IF remaining > 0 /\ ord.filled_quantity = 0 THEN "CANCELLED" ELSE status]
<1>1. \/ /\ remaining > 0 /\ Rests(ord)
         /\ order' = [order EXCEPT ![taker] = resting] /\ AddToBook(taker, resting)
      \/ /\ ~(remaining > 0 /\ Rests(ord))
         /\ order' = [order EXCEPT ![taker] = dropped] /\ UNCHANGED <<levels, totals, ordersById>>
  BY DEF FinishLimit, bookVars
<1>2. /\ taker \in OrderIds /\ ord \in EngineOrder /\ Sound(ord)
      /\ order \in [OrderIds -> EngineOrder] /\ remaining \in Int
  BY DEF TypeInv, TypeOK, InCall, SoundOrders, Sound, FinishLimit
<1>3. ord.price \in Prices /\ ord.side \in Sides /\ remaining = Remaining(ord)
  BY <1>2 DEF EngineInv, TakerInv, Matching, FinishLimit, EngineOrder
<1>4. /\ resting.side = ord.side /\ resting.price = ord.price
      /\ resting.time_in_force = ord.time_in_force
      /\ resting.filled_quantity = ord.filled_quantity
      /\ resting.quote_quantity = ord.quote_quantity
  BY <1>2 DEF EngineOrder
<1>5. /\ dropped.side = ord.side /\ dropped.time_in_force = ord.time_in_force
      /\ dropped.filled_quantity = ord.filled_quantity
      /\ dropped.quote_quantity = ord.quote_quantity /\ dropped.quantity = ord.quantity
      /\ ~(remaining > 0) => dropped.status = status
  BY <1>2 DEF EngineOrder
<1>6. ~(remaining > 0) => status = "FILLED"
  BY <1>2, <1>3, RemainingBounds, StatusAfterMatchingCases
<1> HIDE DEF resting, dropped, status
<1>7. CASE /\ remaining > 0 /\ Rests(ord)
           /\ order' = [order EXCEPT ![taker] = resting] /\ AddToBook(taker, resting)
  <2>1. order'[taker] = resting /\ \A o \in OrderIds \ {taker} : order'[o] = order[o]
    BY <1>2, <1>7
  <2> QED
    BY <1>2, <1>3, <1>4, <1>7, <2>1 DEF AddToBook
<1>8. CASE /\ ~(remaining > 0 /\ Rests(ord))
           /\ order' = [order EXCEPT ![taker] = dropped] /\ UNCHANGED <<levels, totals, ordersById>>
  <2>1. order'[taker] = dropped /\ \A o \in OrderIds \ {taker} : order'[o] = order[o]
    BY <1>2, <1>8
  <2> QED
    BY <1>2, <1>3, <1>5, <1>6, <1>8, <2>1
<1> QED
  BY <1>1, <1>7, <1>8

\* The order process_order or a handler's step is about, and what else may
\* change outside the loops.
CallerChange ==
    \/ /\ \E o \in OrderIds :
            /\ order[o] = Blank \/ StopOrder(order[o])
            /\ o \notin ordersById
            /\ \E ord : Sound(ord) /\ Fresh(ord) /\ Process(o, ord)
            /\ \A x \in OrderIds \ {o} : order'[x] = order[x]
       /\ UNCHANGED <<levels, totals, ordersById>>
    \/ UNCHANGED <<order, levels, totals, ordersById, pc, taker>>
    \/ /\ \E o \in OrderIds : CancelOrder(o)
       /\ UNCHANGED <<pc, taker>>

LEMMA CallerChanges ==
    ASSUME TypeInv, EngineInv, CallerStep
    PROVE  pc = "idle" /\ UNCHANGED result /\ CallerChange
<1>1. ASSUME NEW req \in Requests, Submit(req)
      PROVE  \E o \in OrderIds : /\ order[o] = Blank /\ o \notin ordersById
                                 /\ Sound(req) /\ Fresh(req) /\ Process(o, req)
  <2> DEFINE o == CHOOSE x \in Unused : TRUE
  <2>1. o \in Unused /\ Process(o, req)
    BY <1>1 DEF Submit
  <2> HIDE DEF o
  <2>2. o \in OrderIds /\ order[o].status = "UNUSED"
    BY <2>1 DEF Unused
  <2>3. req \in EngineOrder /\ WellFormed(req)
    BY RequestsAssumption
  <2>4. Sound(req) /\ Fresh(req)
    BY <2>3 DEF Sound, Fresh, EngineOrder, WellFormed, NoPrice
  <2>5. o \notin ordersById
    BY <2>2 DEF EngineInv, BookInv, RestingOrder
  <2> QED
    BY <2>1, <2>2, <2>4, <2>5 DEF EngineInv, OrdersInv
<1>2. ASSUME NEW batch \in batches, SubmitTriggered(batch)
      PROVE  \E o \in OrderIds : /\ StopOrder(order[o]) /\ o \notin ordersById
                                 /\ \E ord : Sound(ord) /\ Fresh(ord) /\ Process(o, ord)
  <2> DEFINE o == Head(batch)
  <2>1. o \in OrderIds /\ StopOrder(order[o])
    BY RestOfBatch
  <2>2. Process(o, Triggered(order[o]))
    BY <1>2 DEF SubmitTriggered
  <2> HIDE DEF o
  <2>3. Sound(Triggered(order[o])) /\ Fresh(Triggered(order[o]))
    BY <2>1, TriggeredIsFresh DEF TypeInv, SoundOrders
  <2>4. o \notin ordersById
    BY <2>1 DEF EngineInv, BookInv, RestingOrder, StopOrder
  <2> QED
    BY <2>1, <2>2, <2>3, <2>4
<1>3. ASSUME NEW o \in OrderIds, NEW ord, Process(o, ord) PROVE UNCHANGED result
  BY <1>3 DEF Process, Expire, KillFillOrKill, StartMatching, RestStop, callVars
<1>4. CASE \E req \in Requests : Submit(req)
  BY <1>1, <1>3, <1>4, ProcessChanges DEF CallerChange
<1>5. CASE GetPendingStops
  BY <1>5 DEF GetPendingStops, CallerChange, bookVars, callVars
<1>6. ASSUME NEW batch \in batches,
             SubmitTriggered(batch) \/ SkipTriggered(batch) \/ LoseBatch(batch)
      PROVE  pc = "idle" /\ UNCHANGED result /\ CallerChange
  BY <1>2, <1>3, <1>6, ProcessChanges DEF CallerChange, SkipTriggered, LoseBatch, bookVars, callVars
<1>7. ASSUME NEW o \in OrderIds, CancelOrder(o)
      PROVE  pc = "idle" /\ UNCHANGED <<result, pc, taker>>
  BY <1>7 DEF CancelOrder, callVars
<1> QED
  BY <1>4, <1>5, <1>6, <1>7 DEF CallerStep, CallerChange

\* Among the orders of f one has a quote budget against this side.
Budgeted(f, side) ==
    \E o \in OrderIds : f[o].side = Opposite(side) /\ f[o].quote_quantity > 0

LEMMA BudgetedNow == \A side : BudgetAgainst(side) <=> Budgeted(order, side)
BY DEF BudgetAgainst, Budgeted

\* An order keeps its side and its budget once it has one.
LEMMA BudgetsStay ==
    ASSUME TypeInv, EngineInv, [Next]_vars
    PROVE  \A side : Budgeted(order, side) => Budgeted(order', side)
<1> SUFFICES \A o \in OrderIds : order[o].quote_quantity > 0 =>
               /\ order'[o].side = order[o].side
               /\ order'[o].quote_quantity = order[o].quote_quantity
  BY DEF Budgeted
<1>0. SoundOrders(order) /\ order \in [OrderIds -> EngineOrder]
  BY DEF TypeInv, TypeOK
<1> SUFFICES ASSUME NEW o \in OrderIds, order[o].quote_quantity > 0
             PROVE  /\ order'[o].side = order[o].side
                    /\ order'[o].quote_quantity = order[o].quote_quantity
  OBVIOUS
<1>1. CASE UNCHANGED order
  BY <1>1
<1>2. CASE MatchLimit \/ MatchMarket
  <2>1. Matching
    BY <1>2, LoopTrades
  <2>2. PICK p \in Prices : \E q \in Nat :
          p \in Occupied(Opposite(order[taker].side)) /\ Trade(p, q)
    BY <1>2, LoopTrades
  <2>3. PICK qty \in Nat : p \in Occupied(Opposite(order[taker].side)) /\ Trade(p, qty)
    BY <2>2
  <2>4. order'[o] \in {order[o], Filled(order[o], qty)}
    BY <2>1, <2>3, TradeEffect
  <2> QED
    BY <1>0, <2>4, FilledEffect DEF SoundOrders
<1>3. ASSUME NEW x \in OrderIds, NEW st, order' = [order EXCEPT ![x].status = st]
      PROVE  /\ order'[o].side = order[o].side
             /\ order'[o].quote_quantity = order[o].quote_quantity
  <2>1. order'[o] = order[o] \/ order'[o] = [order[o] EXCEPT !.status = st]
    BY <1>0, <1>3
  <2>2. ASSUME order'[o] = [order[o] EXCEPT !.status = st]
        PROVE  /\ order'[o].side = order[o].side
               /\ order'[o].quote_quantity = order[o].quote_quantity
    BY <1>0, <2>2, StatusEffect
  <2> QED
    BY <2>1, <2>2
<1>4. CASE FinishLimit
  BY <1>4, FinishLimitShape
<1>5. CASE FinishMarket
  BY <1>3, <1>5 DEF FinishMarket, TypeInv, InCall
<1>6. CASE CallerStep
  <2>1. CallerChange
    BY <1>6, CallerChanges
  <2>2. ASSUME NEW x \in OrderIds, CancelOrder(x)
        PROVE  /\ order'[o].side = order[o].side
               /\ order'[o].quote_quantity = order[o].quote_quantity
    BY <1>3, <2>2 DEF CancelOrder
  <2>3. ASSUME NEW x \in OrderIds, order[x] = Blank \/ StopOrder(order[x]),
               \A y \in OrderIds \ {x} : order'[y] = order[y]
        PROVE  order'[o] = order[o]
    BY <2>3 DEF Blank, StopOrder, Fresh
  <2> QED
    BY <1>1, <2>1, <2>2, <2>3 DEF CallerChange
<1> QED
  BY <1>1, <1>2, <1>4, <1>5, <1>6 DEF Next, EngineStep, DropMaker, FireStops, EndCall, vars

\* In every state every open good-till-cancelled limit order that no call is
\* working on is indexed, hence on its level, unless a quote budget has been
\* spent on its side: popping, filling and adding a maker again never loses it
\* (engine.py, order_book.py).
THEOREM OpenOrdersAlwaysRest == Spec => []OpenOrdersRest
<1>1. Init => OpenOrdersRest
  BY DEF Init, OpenOrdersRest, OpenLimit, Blank
<1>2. TypeInv /\ EngineInv /\ OpenOrdersRest /\ [Next]_vars => OpenOrdersRest'
  <2> SUFFICES ASSUME TypeInv, EngineInv, OpenOrdersRest, [Next]_vars PROVE OpenOrdersRest'
    OBVIOUS
  <2> DEFINE Was(o) == order'[o].side = order[o].side /\ OpenLimit(o)
  <2>0. ASSUME \A o \in OrderIds : OpenLimit(o)' =>
                 \/ o \in ordersById'
                 \/ Budgeted(order', order'[o].side)
                 \/ Was(o) /\ (o \in ordersById => o \in ordersById')
        PROVE  OpenOrdersRest'
    <3> HIDE DEF OpenLimit
    <3>1. \A o \in OrderIds : OpenLimit(o) =>
            o \in ordersById \/ Budgeted(order, order[o].side)
      BY BudgetedNow DEF OpenOrdersRest
    <3>2. \A o \in OrderIds : OpenLimit(o)' =>
            o \in ordersById' \/ Budgeted(order', order'[o].side)
      BY <2>0, <3>1, BudgetsStay
    <3> QED
      BY <3>2 DEF OpenOrdersRest, BudgetAgainst, Budgeted
  <2>1. CASE MatchLimit \/ MatchMarket
    <3>1. Matching
      BY <2>1, LoopTrades
    <3>2. PICK p \in Prices : \E qty \in Nat :
            p \in Occupied(Opposite(order[taker].side)) /\ Trade(p, qty)
      BY <2>1, LoopTrades
    <3>3. PICK qty \in Nat : p \in Occupied(Opposite(order[taker].side)) /\ Trade(p, qty)
      BY <3>2
    <3> DEFINE maker == Head(levels[Opposite(order[taker].side)][p])
               after == Filled(order[maker], qty)
    <3>4. /\ taker \in OrderIds /\ maker \in OrderIds
          /\ Has(levels[Opposite(order[taker].side)][p], maker)
          /\ Opposite(order[taker].side) \in Sides
          /\ order'[maker] = after
          /\ order'[taker] = Filled(order[taker], qty)
          /\ \A o \in OrderIds \ {maker, taker} : order'[o] = order[o]
          /\ ordersById' = IF Remaining(after) > 0 THEN ordersById ELSE ordersById \ {maker}
      BY <3>1, <3>3, TradeEffect
    <3>5. maker \in ordersById
      BY <3>4 DEF EngineInv, BookInv
    <3>6. pc' = pc /\ taker' = taker
      BY <3>3 DEF Trade
    <3>7. Sound(order[maker]) /\ Sound(order[taker])
      BY <3>4 DEF TypeInv, SoundOrders
    <3>8. Remaining(after) \in Nat /\ (Remaining(after) = 0 => after.status = "FILLED")
      BY <3>7, FilledEffect, RemainingBounds
    <3>9. pc = "market" => order'[taker].order_type = "MARKET"
      <4>1. order'[taker].order_type = order[taker].order_type
        BY <3>4, <3>7, FilledEffect
      <4> QED
        BY <4>1 DEF EngineInv, TakerInv
    <3> HIDE DEF maker, after
    <3>10. Remaining(after) > 0 \/ after.status = "FILLED"
      BY <3>8
    <3> SUFFICES ASSUME NEW o \in OrderIds,
                        order'[o].order_type = "LIMIT",
                        order'[o].time_in_force \in {"GTC", "GTD"},
                        order'[o].status \in {"OPEN", "PARTIALLY_FILLED"},
                        ~(pc' = "limit" /\ taker' = o)
                 PROVE  \/ o \in ordersById'
                        \/ Was(o) /\ (o \in ordersById => o \in ordersById')
      BY <2>0 DEF OpenLimit
    <3>11. o # taker
      BY <3>1, <3>6, <3>9 DEF Matching
    <3>12. CASE o = maker
      BY <3>4, <3>5, <3>10, <3>12
    <3>13. CASE o # maker
      BY <3>4, <3>6, <3>11, <3>13 DEF OpenLimit
    <3> QED
      BY <3>12, <3>13
  <2>2. CASE FinishLimit
    <3>1. /\ taker \in OrderIds /\ \A o \in OrderIds \ {taker} : order'[o] = order[o]
          /\ order'[taker].time_in_force = order[taker].time_in_force
          /\ \/ taker \in ordersById' /\ ordersById \subseteq ordersById'
             \/ /\ Rests(order[taker]) => order'[taker].status = "FILLED"
                /\ UNCHANGED ordersById
      BY <2>2, FinishLimitShape
    <3> QED
      BY <2>0, <3>1 DEF OpenLimit, Rests
  <2>3. CASE FinishMarket
    <3>1. /\ taker \in OrderIds /\ order[taker].order_type = "MARKET"
          /\ order \in [OrderIds -> EngineOrder] /\ pc = "market"
          /\ UNCHANGED ordersById
      BY <2>3 DEF TypeInv, TypeOK, InCall, EngineInv, TakerInv, FinishMarket, bookVars
    <3>2. PICK st : order' = [order EXCEPT ![taker].status = st]
      BY <2>3 DEF FinishMarket
    <3>3. /\ \A o \in OrderIds \ {taker} : order'[o] = order[o]
          /\ order'[taker].order_type = "MARKET"
      BY <3>1, <3>2 DEF EngineOrder
    <3> QED
      BY <2>0, <3>1, <3>3 DEF OpenLimit
  <2>4. CASE \/ \E side \in Sides, sp \in Prices : FireStops(side, sp)
             \/ EndCall \/ UNCHANGED vars
    BY <2>0, <2>4 DEF FireStops, EndCall, vars, bookVars, callVars, OpenLimit
  <2>5. CASE CallerStep
    <3>1. pc = "idle" /\ CallerChange
      BY <2>5, CallerChanges
    <3>2. CASE UNCHANGED <<order, levels, totals, ordersById, pc, taker>>
      BY <2>0, <3>2 DEF OpenLimit
    <3>3. ASSUME NEW o \in OrderIds, NEW ord, Sound(ord), Process(o, ord),
                 UNCHANGED ordersById
          PROVE  OpenOrdersRest'
      <4>1. \A x \in OrderIds \ {o} : order'[x] = order[x]
        BY <3>3, ProcessChanges
      <4>2. \/ pc' = "limit" /\ taker' = o
            \/ order'[o].order_type = "MARKET"
            \/ order'[o].status \in {"EXPIRED", "CANCELLED", "PENDING"}
        <5>1. \A st : [ord EXCEPT !.status = st].status = st
          BY <3>3 DEF Sound, EngineOrder
        <5>2. \/ pc' = "limit" /\ taker' = o
              \/ ord.order_type = "MARKET" /\ order'[o] = ord
              \/ \E st \in {"EXPIRED", "CANCELLED", "PENDING"} :
                   order'[o] = [ord EXCEPT !.status = st]
          BY <3>3, ProcessChanges
        <5> QED
          BY <5>1, <5>2
      <4> QED
        BY <2>0, <3>1, <3>3, <4>1, <4>2 DEF OpenLimit
    <3>4. ASSUME NEW o \in OrderIds, CancelOrder(o), UNCHANGED <<pc, taker>>
          PROVE  OpenOrdersRest'
      <4>1. /\ o \in ordersById /\ ordersById' = ordersById \ {o}
            /\ order \in [OrderIds -> EngineOrder]
        BY <3>4 DEF CancelOrder, TypeInv, TypeOK
      <4>2. order[o].status \in {"OPEN", "PARTIALLY_FILLED"}
        BY <4>1 DEF EngineInv, BookInv, RestingOrder
      <4>3. order' = [order EXCEPT ![o].status = "CANCELLED"]
        BY <3>4, <4>2 DEF CancelOrder
      <4>4. /\ \A x \in OrderIds \ {o} : order'[x] = order[x]
            /\ order'[o].status = "CANCELLED"
        BY <4>1, <4>3 DEF EngineOrder
      <4> QED
        BY <2>0, <3>4, <4>1, <4>4 DEF OpenLimit
    <3> QED
      BY <3>1, <3>2, <3>3, <3>4 DEF CallerChange
  <2>6. CASE DropMaker
    <3>1. /\ UNCHANGED <<order, pc, taker>> /\ taker \in OrderIds
          /\ order[taker].quote_quantity > 0 /\ order[taker].side \in Sides
      BY <2>6, DropEffect DEF TypeInv, TypeOK, EngineOrder
    <3>2. PICK maker \in OrderIds : /\ order[maker].side = Opposite(order[taker].side)
                                    /\ ordersById' = ordersById \ {maker}
      BY <2>6, DropEffect DEF RestingOrder
    <3>3. order[taker].side = Opposite(order[maker].side)
      BY <3>1, <3>2 DEF Opposite, Sides
    <3>4. Budgeted(order', order'[maker].side)
      BY <3>1, <3>3 DEF Budgeted
    <3> QED
      BY <2>0, <3>1, <3>2, <3>4 DEF OpenLimit
  <2> QED
    BY <2>1, <2>2, <2>3, <2>4, <2>5, <2>6 DEF Next, EngineStep
<1> QED
  BY <1>1, <1>2, EngineCorrect, PTL DEF Spec

\* Once a taker has traded at a price, nothing better is left on the maker
\* side until the call ends (engine.py, get_best_order in both loops).
THEOREM BestPriceFirst == Spec => []PricePriority
<1>1. Init => PricePriority
  BY DEF Init, PricePriority
<1>2. TypeInv /\ EngineInv /\ PricePriority /\ [Next]_vars => PricePriority'
  <2> SUFFICES ASSUME TypeInv, EngineInv, PricePriority, [Next]_vars PROVE PricePriority'
    OBVIOUS
  <2>1. CASE MatchLimit \/ MatchMarket
    <3> DEFINE side == Opposite(order[taker].side)
    <3>1. Matching
      BY <2>1, LoopTrades
    <3>2. PICK p \in Prices : \E qty \in Nat :
            IsBest(side, p) /\ p \in Occupied(side) /\ Trade(p, qty)
      BY <2>1, LoopTrades
    <3>3. PICK qty \in Nat : IsBest(side, p) /\ p \in Occupied(side) /\ Trade(p, qty)
      BY <3>2
    <3>4. /\ taker \in OrderIds /\ order'[taker] = Filled(order[taker], qty)
          /\ Sound(order[taker]) /\ taker' = taker
      BY <3>1, <3>3, TradeKeeps
    <3>5. Opposite(order'[taker'].side) = side
      BY <3>4, FilledEffect
    <3>6. side \in Sides
      BY <3>1, <3>3, TradeEffect
    <3>7. \A s \in Sides, q \in Prices : levels'[s][q] # <<>> => levels[s][q] # <<>>
      BY <3>3, TradeOccupies DEF Occupied
    <3>8. \A q \in Occupied(side) : ~Better(side, q, p)
      BY <3>3 DEF IsBest
    <3>9. /\ result \in Seq(TradeType)
          /\ \E t : result' = Append(result, t) /\ t.price = p
      BY <3>3 DEF TypeInv, TypeOK, Trade
    <3>10. PICK t : result' = Append(result, t) /\ t.price = p
      BY <3>9
    <3> HIDE DEF side
    <3>11. \A i \in 1 .. Len(result') : result'[i].price = p
             \/ (i \in 1 .. Len(result) /\ result'[i] = result[i])
      BY <3>9, <3>10
    <3>12. \A i \in 1 .. Len(result), q \in Occupied(side) : ~Better(side, q, result[i].price)
      BY DEF PricePriority, side
    <3>13. \A q \in Prices : levels'[side][q] # <<>> => q \in Occupied(side)
      BY <3>6, <3>7 DEF Occupied
    <3>14. \A i \in 1 .. Len(result') : \A q \in Prices :
             levels'[side][q] # <<>> => ~Better(side, q, result'[i].price)
      BY <3>8, <3>11, <3>12, <3>13
    <3> QED
      BY <3>5, <3>14 DEF PricePriority, Occupied, Better
  <2>2. CASE FinishLimit
    <3> DEFINE ord  == order[taker]
               side == Opposite(ord.side)
    <3>1. /\ taker \in OrderIds /\ ord.side \in Sides /\ order'[taker].side = ord.side
          /\ \/ levels' = [levels EXCEPT ![ord.side][ord.price] = Append(@, taker)]
             \/ UNCHANGED levels
      BY <2>2, FinishLimitShape
    <3>2. taker' = taker /\ result' = result
      BY <2>2 DEF FinishLimit
    <3>3. side \in Sides /\ side # ord.side
      BY <3>1 DEF Opposite, Sides
    <3>4. levels'[side] = levels[side]
      BY <3>1, <3>3 DEF TypeInv, TypeOK
    <3> QED
      BY <3>1, <3>2, <3>4 DEF PricePriority, Occupied
  <2>3. CASE FinishMarket
    <3>1. /\ taker \in OrderIds /\ order \in [OrderIds -> EngineOrder]
          /\ UNCHANGED <<levels, taker, result>>
      BY <2>3 DEF TypeInv, TypeOK, InCall, FinishMarket, bookVars
    <3>2. PICK st : order' = [order EXCEPT ![taker].status = st]
      BY <2>3 DEF FinishMarket
    <3>3. order'[taker].side = order[taker].side
      BY <3>1, <3>2 DEF EngineOrder
    <3> QED
      BY <3>1, <3>3 DEF PricePriority, Occupied
  <2>4. CASE (\E side \in Sides, sp \in Prices : FireStops(side, sp)) \/ UNCHANGED vars
    BY <2>4 DEF FireStops, vars, bookVars, callVars, PricePriority, Occupied
  <2>5. ASSUME result' = <<>> PROVE PricePriority'
    BY <2>5 DEF PricePriority
  <2>6. CASE EndCall
    BY <2>5, <2>6 DEF EndCall
  <2>7. CASE CallerStep
    <3>1. pc = "idle" /\ UNCHANGED result
      BY <2>7, CallerChanges
    <3>2. result' = <<>>
      BY <3>1 DEF EngineInv, TakerInv
    <3> QED
      BY <2>5, <3>2
  <2>8. CASE DropMaker
    <3>1. UNCHANGED <<order, taker, result>>
      BY <2>8, DropEffect
    <3>2. \A s \in Sides, q \in Prices : levels'[s][q] # <<>> => levels[s][q] # <<>>
      BY <2>8, DropOccupies DEF Occupied
    <3>3. Opposite(order[taker].side) \in Sides
      BY DEF Opposite, Sides
    <3> QED
      BY <3>1, <3>2, <3>3 DEF PricePriority, Occupied
  <2> QED
    BY <2>1, <2>2, <2>3, <2>4, <2>6, <2>7, <2>8 DEF Next, EngineStep
<1> QED
  BY <1>1, <1>2, EngineCorrect, PTL DEF Spec

-----------------------------------------------------------------------------
(* Held in one place.                                                      *)

\* How often a queue holds an order.
LEMMA WaitingCount ==
    ASSUME NEW queue \in Seq(OrderIds), Distinct(queue), NEW o
    PROVE  Waiting(queue, o) = IF Has(queue, o) THEN 1 ELSE 0
<1> DEFINE at == {i \in 1 .. Len(queue) : queue[i] = o}
<1>1. ASSUME NEW i \in 1 .. Len(queue), queue[i] = o PROVE at = {i}
  BY <1>1 DEF Distinct
<1>2. Cardinality({}) = 0 /\ \A i : Cardinality({i}) = 1
  BY FS_EmptySet, FS_Singleton
<1>3. CASE Has(queue, o)
  <2>1. PICK i \in 1 .. Len(queue) : queue[i] = o
    BY <1>3 DEF Has
  <2>2. at = {i}
    BY <1>1, <2>1
  <2> QED
    BY <1>2, <1>3, <2>2 DEF Waiting
<1>4. CASE ~Has(queue, o)
  <2>1. at = {}
    BY <1>4 DEF Has
  <2> QED
    BY <1>2, <1>4, <2>1 DEF Waiting
<1> QED
  BY <1>3, <1>4

LEMMA PlacesBound ==
    ASSUME TypeInv, EngineInv, IsFiniteSet(batches), NEW o \in OrderIds
    PROVE  Places(o) <= 1
<1> DEFINE onBook == \E side \in Sides, p \in Prices : Has(levels[side][p], o)
           onStop == \E side \in Sides, p \in Prices : Has(stops[side][p], o)
           onList == \E batch \in batches : Has(batch, o)
           atWork == taker = o /\ pc \in {"limit", "market"}
           K == Sides \X Prices
           f == [k \in K |-> Waiting(levels[k[1]][k[2]], o) + Waiting(stops[k[1]][k[2]], o)]
           g == [batch \in batches |-> Waiting(batch, o)]
<1>1. /\ \A side \in Sides, p \in Prices :
           /\ Waiting(levels[side][p], o) = IF Has(levels[side][p], o) THEN 1 ELSE 0
           /\ Waiting(stops[side][p], o) = IF Has(stops[side][p], o) THEN 1 ELSE 0
      /\ Waiting(pendingStops, o) = IF Has(pendingStops, o) THEN 1 ELSE 0
      /\ \A batch \in batches : Waiting(batch, o) = IF Has(batch, o) THEN 1 ELSE 0
  <2>1. \A side \in Sides, p \in Prices :
          /\ levels[side][p] \in Seq(OrderIds) /\ Distinct(levels[side][p])
          /\ stops[side][p] \in Seq(OrderIds) /\ Distinct(stops[side][p])
    BY DEF TypeInv, TypeOK, EngineInv, BookInv, StopInv, StopsApart
  <2>2. /\ pendingStops \in Seq(OrderIds) /\ Distinct(pendingStops)
        /\ \A batch \in batches : batch \in Seq(OrderIds) /\ Distinct(batch)
    BY DEF TypeInv, TypeOK, EngineInv, StopInv, StopsApart
  <2> QED
    BY <2>1, <2>2, WaitingCount
<1>2. /\ onBook => order[o].order_type = "LIMIT"
                   /\ order[o].status \in {"OPEN", "PARTIALLY_FILLED"} /\ ~atWork
      /\ onStop \/ onList \/ Has(pendingStops, o) => StopOrder(order[o])
      /\ atWork => order[o].order_type \in {"LIMIT", "MARKET"}
      /\ onStop => ~Has(pendingStops, o) /\ ~onList
      /\ Has(pendingStops, o) => ~onList
  BY DEF EngineInv, BookInv, RestingOrder, StopInv, StopsApart, TakerInv, Matching
<1>3. IsFiniteSet(K)
  <2>1. IsFiniteSet({"BUY"} \cup {"SELL"})
    BY FS_Singleton, FS_AddElement
  <2>2. IsFiniteSet(Sides)
    BY <2>1 DEF Sides
  <2> QED
    BY <2>2, PricesAssumption, FS_Product
<1>4. SumFunction(f) = IF onBook \/ onStop THEN 1 ELSE 0
  <2>1. \A k \in K : f[k] = IF \/ Has(levels[k[1]][k[2]], o)
                               \/ Has(stops[k[1]][k[2]], o) THEN 1 ELSE 0
    BY <1>1, <1>2 DEF StopOrder
  <2>2. \A k, l \in K : f[k] = 1 /\ f[l] = 1 => k = l
    <3> SUFFICES ASSUME NEW k \in K, NEW l \in K, f[k] = 1, f[l] = 1 PROVE k = l
      OBVIOUS
    <3>0. k[1] \in Sides /\ k[2] \in Prices /\ l[1] \in Sides /\ l[2] \in Prices
      OBVIOUS
    <3>1. /\ Has(levels[k[1]][k[2]], o) \/ Has(stops[k[1]][k[2]], o)
          /\ Has(levels[l[1]][l[2]], o) \/ Has(stops[l[1]][l[2]], o)
      BY <2>1
    <3>2. /\ Has(levels[k[1]][k[2]], o) => order[o].side = k[1] /\ order[o].price = k[2]
          /\ Has(levels[l[1]][l[2]], o) => order[o].side = l[1] /\ order[o].price = l[2]
      BY <3>0 DEF EngineInv, BookInv, RestingOrder
    <3>3. /\ Has(stops[k[1]][k[2]], o) => order[o].side = k[1] /\ order[o].stop_price = k[2]
          /\ Has(stops[l[1]][l[2]], o) => order[o].side = l[1] /\ order[o].stop_price = l[2]
      BY <3>0 DEF EngineInv, StopInv, StopsApart
    <3>4. ~(onBook /\ onStop)
      BY <1>2 DEF StopOrder
    <3>5. k[1] = l[1] /\ k[2] = l[2]
      BY <3>0, <3>1, <3>2, <3>3, <3>4
    <3> QED
      BY <3>5
  <2>3. /\ \A k \in K : f[k] \in {0, 1}
        /\ (\E k \in K : f[k] = 1) <=> onBook \/ onStop
    <3>1. ASSUME NEW side \in Sides, NEW p \in Prices,
                 Has(levels[side][p], o) \/ Has(stops[side][p], o)
          PROVE  \E k \in K : f[k] = 1
      <4>1. <<side, p>> \in K /\ <<side, p>>[1] = side /\ <<side, p>>[2] = p
        OBVIOUS
      <4> HIDE DEF f, K
      <4> QED
        BY <2>1, <3>1, <4>1
    <3>2. \A k \in K : k[1] \in Sides /\ k[2] \in Prices
      OBVIOUS
    <3>3. \A k \in K : f[k] = 1 => onBook \/ onStop
      <4> HIDE DEF f, K
      <4> QED
        BY <2>1, <3>2
    <3>4. \A k \in K : f[k] \in {0, 1}
      BY <2>1
    <3> HIDE DEF f
    <3> QED
      BY <3>1, <3>3, <3>4
  <2>4. DOMAIN f = K
    OBVIOUS
  <2> HIDE DEF f, K, onBook, onStop
  <2> QED
    BY <1>3, <2>2, <2>3, <2>4, SumWhole, SumOneOrNone
<1>5. SumFunction(g) = IF onList THEN 1 ELSE 0
  <2>1. \A batch \in batches : g[batch] = IF Has(batch, o) THEN 1 ELSE 0
    BY <1>1
  <2>2. \A b1, b2 \in batches : g[b1] = 1 /\ g[b2] = 1 => b1 = b2
    BY <2>1 DEF EngineInv, StopInv, StopsApart
  <2>3. DOMAIN g = batches
    OBVIOUS
  <2> HIDE DEF g
  <2> QED
    BY <2>1, <2>2, <2>3, SumWhole, SumOneOrNone
<1>6. Places(o) =   (IF onBook \/ onStop THEN 1 ELSE 0)
                  + (IF Has(pendingStops, o) THEN 1 ELSE 0)
                  + (IF onList THEN 1 ELSE 0) + (IF atWork THEN 1 ELSE 0)
  BY <1>1, <1>4, <1>5 DEF Places
<1> HIDE DEF onBook, onStop, onList, atWork
<1> QED
  BY <1>2, <1>6 DEF StopOrder

\* Handlers work on finitely many lists.
BatchesFinite == IsFiniteSet(batches)

LEMMA BatchesStayFinite ==
    BatchesFinite /\ [Next]_vars => BatchesFinite'
<1> SUFFICES ASSUME IsFiniteSet(batches), [Next]_vars PROVE IsFiniteSet(batches')
  BY DEF BatchesFinite
<1>1. ASSUME NEW x, batches' \subseteq batches \cup {x} PROVE IsFiniteSet(batches')
  BY <1>1, FS_AddElement, FS_Subset
<1>2. CASE EngineStep
  BY <1>2, <1>1 DEF EngineStep, MatchLimit, MatchMarket, DropMaker, Trade, FinishLimit,
                    FinishMarket, FireStops, EndCall, stopVars
<1>3. CASE CallerStep
  <2>1. ASSUME NEW batch \in batches,
               SubmitTriggered(batch) \/ SkipTriggered(batch) \/ LoseBatch(batch)
        PROVE  batches' \subseteq batches \cup {Tail(batch)}
    BY <2>1 DEF SubmitTriggered, SkipTriggered, LoseBatch, RestOf
  <2> QED
    BY <1>1, <1>3, <2>1 DEF CallerStep, Submit, GetPendingStops, CancelOrder, stopVars
<1>4. CASE UNCHANGED vars
  BY <1>1, <1>4 DEF vars, stopVars
<1> QED
  BY <1>2, <1>3, <1>4 DEF Next

\* An order is held in at most one place: the book, the stop book, the
\* triggered stops, a handler's list or the call in progress (order_book.py,
\* check_stop_orders; engine.py, get_pending_stop_orders).
THEOREM AlwaysHeldOnce == Spec => []HeldOnce
<1>1. Init => BatchesFinite
  BY FS_EmptySet DEF Init, BatchesFinite
<1>2. TypeInv /\ EngineInv /\ BatchesFinite => HeldOnce
  BY PlacesBound DEF HeldOnce, BatchesFinite
<1> QED
  BY <1>1, <1>2, BatchesStayFinite, EngineCorrect, PTL DEF Spec

-----------------------------------------------------------------------------
(* Quantities: what the level totals say, what a fill-or-kill order gets   *)
(* and that the buyers get what the sellers give.                          *)

\* The orders on a queue, and what they have left.
OnQueue(queue) == {o \in OrderIds : Has(queue, o)}
Left(f) == [o \in OrderIds |-> Remaining(f[o])]
LeftOn(queue, f) == SumFunctionOnSet(Left(f), OnQueue(queue))

\* The running totals are what is left on the levels.
DepthInv ==
    \A side \in Sides, p \in Prices : totals[side][p] = LeftOn(levels[side][p], order)

-----------------------------------------------------------------------------
(* What is left on a queue.                                                *)

LEMMA LeftIsNat ==
    ASSUME NEW f, SoundOrders(f), NEW queue
    PROVE  /\ IsFiniteSet(OnQueue(queue)) /\ Ints(Left(f), OnQueue(queue))
           /\ \A o \in OrderIds : Left(f)[o] = Remaining(f[o]) /\ Remaining(f[o]) \in Nat
           /\ LeftOn(queue, f) \in Nat
<1>1. IsFiniteSet(OnQueue(queue))
  BY OrderIdsAssumption, FS_Subset DEF OnQueue
<1>2. \A o \in OrderIds : Left(f)[o] = Remaining(f[o]) /\ Remaining(f[o]) \in Nat
  BY RemainingNat DEF SoundOrders, Left
<1>3. \A o \in OnQueue(queue) : Left(f)[o] \in Nat
  BY <1>2 DEF OnQueue
<1>4. LeftOn(queue, f) \in Nat
  BY <1>1, <1>3, SumNat DEF LeftOn
<1> QED
  BY <1>1, <1>2, <1>3, <1>4 DEF Ints

LEMMA NothingLeft == \A f : LeftOn(<<>>, f) = 0
<1>1. OnQueue(<<>>) = {}
  BY EmptyQueue DEF OnQueue
<1> QED
  BY <1>1, SumEmpty DEF LeftOn

\* One more order on the queue.
LEMMA LeftWithOne ==
    ASSUME NEW f, SoundOrders(f), NEW queue, NEW longer, NEW o \in OrderIds, ~Has(queue, o),
           \A x \in OrderIds : Has(longer, x) <=> Has(queue, x) \/ x = o
    PROVE  LeftOn(longer, f) = LeftOn(queue, f) + Remaining(f[o])
<1>1. OnQueue(longer) = OnQueue(queue) \cup {o} /\ o \notin OnQueue(queue)
  BY DEF OnQueue
<1>2. /\ IsFiniteSet(OnQueue(queue)) /\ Ints(Left(f), OnQueue(queue) \cup {o})
      /\ Left(f)[o] = Remaining(f[o]) /\ Remaining(f[o]) \in Nat /\ LeftOn(queue, f) \in Nat
  BY LeftIsNat DEF Ints
<1>3. SumFunctionOnSet(Left(f), OnQueue(queue) \cup {o})
        = Left(f)[o] + SumFunctionOnSet(Left(f), OnQueue(queue))
  BY <1>1, <1>2, SumAdd
<1> QED
  BY <1>1, <1>2, <1>3 DEF LeftOn

\* The same queue under orders that have as much left.
LEMMA LeftSame ==
    ASSUME NEW f, SoundOrders(f), NEW g, NEW queue,
           \A o \in OrderIds : Has(queue, o) => Remaining(g[o]) = Remaining(f[o])
    PROVE  LeftOn(queue, g) = LeftOn(queue, f)
<1>1. IsFiniteSet(OnQueue(queue)) /\ Ints(Left(f), OnQueue(queue))
  BY LeftIsNat
<1>2. \A o \in OnQueue(queue) : Left(f)[o] = Left(g)[o]
  BY DEF Left, OnQueue
<1> QED
  BY <1>1, <1>2, SumSame DEF LeftOn

\* Counted by position or by order, it is the same.
LEMMA LeftByPosition ==
    ASSUME NEW f, SoundOrders(f), NEW queue \in Seq(OrderIds), Distinct(queue)
    PROVE  SumFunction([i \in 1 .. Len(queue) |-> Remaining(f[queue[i]])]) = LeftOn(queue, f)
<1> DEFINE S == 1 .. Len(queue)
           at == [i \in S |-> Remaining(f[queue[i]])]
           b == [i \in S |-> queue[i]]
<1>1. IsFiniteSet(S)
  BY FS_Interval
<1>2. IsFiniteSet(OnQueue(queue))
  BY LeftIsNat
<1>3. /\ b \in [S -> OnQueue(queue)]
      /\ \A i, j \in S : b[i] = b[j] => i = j
      /\ \A o \in OnQueue(queue) : \E i \in S : b[i] = o
  BY DEF OnQueue, Has, Distinct
<1>4. \A i \in S : queue[i] \in OrderIds /\ at[i] = Left(f)[b[i]] /\ at[i] \in Nat
  BY LeftIsNat
<1>5. Ints(at, S) /\ DOMAIN at = S
  BY <1>4 DEF Ints
<1> HIDE DEF at, b, S
<1>6. SumFunction(at) = SumFunctionOnSet(at, S)
  BY <1>5, SumWhole
<1>7. SumFunctionOnSet(at, S) = SumFunctionOnSet(Left(f), OnQueue(queue))
  BY <1>1, <1>2, <1>3, <1>4, <1>5, SumAlong
<1> QED
  BY <1>6, <1>7 DEF LeftOn, at, S

-----------------------------------------------------------------------------
(* Each step keeps the totals exact.                                       *)

LEMMA SoundNow == TypeInv => SoundOrders(order)
BY DEF TypeInv

\* Steps that leave the levels and what their orders have left.
LEMMA DepthFrame ==
    ASSUME TypeInv, EngineInv, DepthInv, UNCHANGED <<levels, totals>>,
           \A o \in ordersById : Remaining(order'[o]) = Remaining(order[o])
    PROVE  DepthInv'
<1> SUFFICES ASSUME NEW side \in Sides, NEW p \in Prices
             PROVE  totals'[side][p] = LeftOn(levels'[side][p], order')
  BY DEF DepthInv
<1>1. \A o \in OrderIds : Has(levels[side][p], o) => o \in ordersById
  BY DEF EngineInv, BookInv
<1>2. LeftOn(levels[side][p], order') = LeftOn(levels[side][p], order)
  BY <1>1, SoundNow, LeftSame
<1> QED
  BY <1>2 DEF DepthInv

\* The total after the best maker is popped, before it is added again.
LEMMA TotalPopped ==
    ASSUME TypeInv, EngineInv, DepthInv, NEW side \in Sides, NEW p \in Prices,
           levels[side][p] # <<>>
    PROVE  LET queue == levels[side][p] IN
           /\ TotalAfterPop(queue, totals[side][p]) = LeftOn(Tail(queue), order)
           /\ totals[side][p] = LeftOn(Tail(queue), order) + Remaining(order[Head(queue)])
<1> DEFINE queue == levels[side][p]
           maker == Head(queue)
<1>1. queue \in Seq(OrderIds) /\ queue # <<>> /\ Distinct(queue)
  BY DEF TypeInv, TypeOK, EngineInv, BookInv
<1>2. maker \in OrderIds /\ Has(queue, maker)
  BY <1>1, HeadOfQueue
<1>3. /\ Tail(queue) \in Seq(OrderIds)
      /\ \A x : Has(Tail(queue), x) <=> Has(queue, x) /\ x # maker
  BY <1>1, TailOfQueue
<1>4. totals[side][p] = LeftOn(queue, order)
  BY DEF DepthInv
<1>5. Len(queue) = 1 => Tail(queue) = <<>>
  <2>1. Tail(queue) \in Seq(OrderIds) /\ Len(Tail(queue)) = Len(queue) - 1
    BY <1>1, HeadTailProperties
  <2>2. \A seq \in Seq(OrderIds) : Len(seq) = 0 => seq = <<>>
    BY EmptySeq
  <2>3. ASSUME Len(queue) = 1 PROVE Len(Tail(queue)) = 0
    BY <2>1, <2>3
  <2> HIDE DEF queue
  <2> QED
    BY <2>1, <2>2, <2>3
<1> HIDE DEF queue, maker
<1>6. LeftOn(queue, order) = LeftOn(Tail(queue), order) + Remaining(order[maker])
  BY <1>2, <1>3, SoundNow, LeftWithOne
<1>7. LeftOn(Tail(queue), order) \in Nat /\ Remaining(order[maker]) \in Nat
  BY <1>2, SoundNow, LeftIsNat
<1>8. TotalAfterPop(queue, totals[side][p]) = LeftOn(Tail(queue), order)
  <2>1. CASE Len(queue) = 1
    BY <1>5, <2>1, NothingLeft DEF TotalAfterPop
  <2>2. CASE Len(queue) # 1
    BY <1>4, <1>6, <1>7, <2>2 DEF TotalAfterPop, maker
  <2> QED
    BY <2>1, <2>2
<1> QED
  BY <1>4, <1>6, <1>8 DEF queue, maker

\* A trade takes its quantity off its own level.
LEMMA TradeDepth ==
    ASSUME TypeInv, EngineInv, DepthInv, Matching, NEW p \in Prices, NEW qty \in Nat,
           p \in Occupied(Opposite(order[taker].side)), Trade(p, qty)
    PROVE  LET side == Opposite(order[taker].side) IN
           /\ DepthInv'
           /\ totals'[side][p] = totals[side][p] - Lesser(qty, MakerRemaining(p))
           /\ \A q \in Prices \ {p} : totals'[side][q] = totals[side][q]
<1> DEFINE side  == Opposite(order[taker].side)
           queue == levels[side][p]
           maker == Head(queue)
           after == Filled(order[maker], qty)
           rests == Remaining(after) > 0
<1>1. /\ side \in Sides /\ taker \in OrderIds /\ maker \in OrderIds /\ maker # taker
      /\ RestingOrder(order[maker], side, p) /\ Has(queue, maker)
      /\ queue \in Seq(OrderIds) /\ queue # <<>>
      /\ order'[maker] = after
      /\ \A o \in OrderIds \ {maker, taker} : order'[o] = order[o]
      /\ \A s \in Sides, q \in Prices : s # side \/ q # p => levels'[s][q] = levels[s][q]
      /\ \A x \in OrderIds : Has(levels'[side][p], x) <=> Has(queue, x) /\ (rests \/ x # maker)
  BY TradeEffect
<1>2. /\ totals' = [totals EXCEPT ![side][p] = TotalAfterPop(queue, @) + Remaining(after)]
      /\ totals \in [Sides -> [Prices -> Int]]
  BY DEF Trade, TypeInv, TypeOK
<1>3. /\ totals'[side][p] = TotalAfterPop(queue, totals[side][p]) + Remaining(after)
      /\ \A s \in Sides, q \in Prices : s # side \/ q # p => totals'[s][q] = totals[s][q]
  BY <1>1, <1>2
<1>4. /\ TotalAfterPop(queue, totals[side][p]) = LeftOn(Tail(queue), order)
      /\ totals[side][p] = LeftOn(Tail(queue), order) + Remaining(order[maker])
  BY <1>1, TotalPopped
<1>5. /\ SoundOrders(order) /\ SoundOrders(order')
      /\ Sound(order[maker]) /\ taker \notin ordersById
  <2>1. SoundOrders(order')
    BY TradePreservesTypes DEF Matching
  <2> QED
    BY <1>1, <2>1 DEF TypeInv, SoundOrders, EngineInv, TakerInv
<1>6. /\ Remaining(after) = Remaining(order[maker]) - Lesser(qty, Remaining(order[maker]))
      /\ Remaining(after) \in Nat /\ Remaining(order[maker]) \in Nat
  BY <1>5, FilledEffect, RemainingBounds
<1>7. \A x : Has(Tail(queue), x) <=> Has(queue, x) /\ x # maker
  BY <1>1, TailOfQueue DEF EngineInv, BookInv
<1>8. MakerRemaining(p) = Remaining(order[maker])
  BY DEF MakerRemaining
<1>9. LeftOn(Tail(queue), order) \in Nat
  BY <1>5, LeftIsNat
<1>10. \A s \in Sides, q \in Prices, o \in OrderIds : Has(levels[s][q], o) =>
         o # taker /\ (o = maker => s = side /\ q = p)
  <2> HIDE DEF side, maker, queue, rests, after
  <2> SUFFICES ASSUME NEW s \in Sides, NEW q \in Prices, NEW o \in OrderIds,
                      Has(levels[s][q], o)
               PROVE  o # taker /\ (o = maker => s = side /\ q = p)
    OBVIOUS
  <2>1. o \in ordersById /\ RestingOrder(order[o], s, q)
    BY DEF EngineInv, BookInv
  <2> QED
    BY <1>1, <1>5, <2>1 DEF RestingOrder
<1> HIDE DEF after, maker, queue, rests
<1>11. LeftOn(Tail(queue), order') = LeftOn(Tail(queue), order)
  <2>1. \A o \in OrderIds : Has(Tail(queue), o) => order'[o] = order[o]
    BY <1>1, <1>7, <1>10 DEF queue
  <2> QED
    BY <1>5, <2>1, LeftSame
<1>12. LeftOn(levels'[side][p], order') = LeftOn(Tail(queue), order') + Remaining(after)
  <2>1. CASE rests
    <3>1. \A x \in OrderIds : Has(levels'[side][p], x) <=> Has(Tail(queue), x) \/ x = maker
      BY <1>1, <1>7, <2>1
    <3>2. ~Has(Tail(queue), maker)
      BY <1>7
    <3> QED
      BY <1>1, <1>5, <3>1, <3>2, LeftWithOne
  <2>2. CASE ~rests
    <3>1. OnQueue(levels'[side][p]) = OnQueue(Tail(queue))
      BY <1>1, <1>7, <2>2 DEF OnQueue
    <3>2. Remaining(after) = 0
      BY <1>6, <2>2 DEF rests
    <3>3. LeftOn(levels'[side][p], order') = LeftOn(Tail(queue), order')
      BY <3>1 DEF LeftOn
    <3> QED
      BY <1>9, <1>11, <3>2, <3>3
  <2> QED
    BY <2>1, <2>2
<1>13. DepthInv'
  <2> SUFFICES ASSUME NEW s \in Sides, NEW q \in Prices
               PROVE  totals'[s][q] = LeftOn(levels'[s][q], order')
    BY DEF DepthInv
  <2>1. CASE s = side /\ q = p
    BY <1>3, <1>4, <1>11, <1>12, <2>1
  <2>2. CASE s # side \/ q # p
    <3>1. \A o \in OrderIds : Has(levels[s][q], o) => order'[o] = order[o]
      BY <1>1, <1>10, <2>2
    <3>2. LeftOn(levels[s][q], order') = LeftOn(levels[s][q], order)
      BY <1>5, <3>1, LeftSame
    <3> QED
      BY <1>1, <1>3, <2>2, <3>2 DEF DepthInv
  <2> QED
    BY <2>1, <2>2
<1>14. totals'[side][p] = totals[side][p] - Lesser(qty, MakerRemaining(p))
  <2>1. Lesser(qty, Remaining(order[maker])) \in Nat
    BY <1>6 DEF Lesser
  <2> HIDE DEF side
  <2> QED
    BY <1>3, <1>4, <1>6, <1>8, <1>9, <2>1
<1> QED
  BY <1>1, <1>3, <1>13, <1>14

\* The end of a limit order adds what rests of it to its level.
LEMMA FinishLimitDepth == TypeInv /\ EngineInv /\ DepthInv /\ FinishLimit => DepthInv'
<1> SUFFICES ASSUME TypeInv, EngineInv, DepthInv, FinishLimit PROVE DepthInv'
  OBVIOUS
<1> DEFINE side == order[taker].side
           p    == order[taker].price
<1>1. /\ taker \in OrderIds /\ side \in Sides /\ p \in Prices
      /\ \A o \in OrderIds \ {taker} : order'[o] = order[o]
      /\ \/ /\ levels' = [levels EXCEPT ![side][p] = Append(@, taker)]
            /\ totals' = [totals EXCEPT ![side][p] = @ + Remaining(order'[taker])]
         \/ UNCHANGED <<levels, totals>>
  BY FinishLimitShape
<1>2. /\ taker \notin ordersById /\ ordersById \subseteq OrderIds
      /\ levels \in [Sides -> [Prices -> Seq(OrderIds)]]
      /\ totals \in [Sides -> [Prices -> Int]]
  BY DEF EngineInv, TakerInv, Matching, FinishLimit, TypeInv, TypeOK
<1>3. SoundOrders(order) /\ SoundOrders(order')
  BY SoundNow, FinishLimitType DEF TypeInv
<1>4. \A s \in Sides, q \in Prices :
        /\ ~Has(levels[s][q], taker)
        /\ LeftOn(levels[s][q], order') = LeftOn(levels[s][q], order)
  <2> SUFFICES ASSUME NEW s \in Sides, NEW q \in Prices
               PROVE  /\ ~Has(levels[s][q], taker)
                      /\ LeftOn(levels[s][q], order') = LeftOn(levels[s][q], order)
    OBVIOUS
  <2>1. ~Has(levels[s][q], taker)
    BY <1>1, <1>2 DEF EngineInv, BookInv
  <2>2. \A o \in OrderIds : Has(levels[s][q], o) => order'[o] = order[o]
    BY <1>1, <2>1
  <2> QED
    BY <1>3, <2>1, <2>2, LeftSame
<1> HIDE DEF side, p
<1>5. CASE UNCHANGED <<levels, totals>>
  BY <1>1, <1>2, <1>5, DepthFrame
<1>6. CASE /\ levels' = [levels EXCEPT ![side][p] = Append(@, taker)]
           /\ totals' = [totals EXCEPT ![side][p] = @ + Remaining(order'[taker])]
  <2> SUFFICES ASSUME NEW s \in Sides, NEW q \in Prices
               PROVE  totals'[s][q] = LeftOn(levels'[s][q], order')
    BY DEF DepthInv
  <2>1. CASE s = side /\ q = p
    <3>1. levels'[s][q] = Append(levels[s][q], taker)
      BY <1>1, <1>2, <1>6, <2>1
    <3>2. totals'[s][q] = totals[s][q] + Remaining(order'[taker])
      BY <1>1, <1>2, <1>6, <2>1
    <3>3. levels[s][q] \in Seq(OrderIds) /\ Distinct(levels[s][q])
      BY <1>2 DEF EngineInv, BookInv
    <3>4. \A x : Has(levels'[s][q], x) <=> Has(levels[s][q], x) \/ x = taker
      BY <1>1, <1>4, <3>1, <3>3, AppendToQueue
    <3>5. LeftOn(levels'[s][q], order') = LeftOn(levels[s][q], order') + Remaining(order'[taker])
      BY <1>1, <1>3, <1>4, <3>4, LeftWithOne
    <3> QED
      BY <1>4, <3>2, <3>5 DEF DepthInv
  <2>2. CASE s # side \/ q # p
    <3>1. levels'[s][q] = levels[s][q] /\ totals'[s][q] = totals[s][q]
      BY <1>2, <1>6, <2>2
    <3> QED
      BY <1>4, <3>1 DEF DepthInv
  <2> QED
    BY <2>1, <2>2
<1> QED
  BY <1>1, <1>5, <1>6

\* A cancelled order takes what it had left off its level.
LEMMA CancelDepth ==
    ASSUME TypeInv, EngineInv, DepthInv, NEW o \in OrderIds, CancelOrder(o)
    PROVE  DepthInv'
<1> DEFINE side  == order[o].side
           p     == order[o].price
           queue == levels[side][p]
<1>1. /\ o \in ordersById
      /\ order \in [OrderIds -> EngineOrder] /\ order[o] \in EngineOrder
      /\ levels \in [Sides -> [Prices -> Seq(OrderIds)]]
      /\ totals \in [Sides -> [Prices -> Int]]
  BY DEF CancelOrder, TypeInv, TypeOK
<1>2. PICK i \in 1 .. Len(queue) :
        queue[i] = o /\ levels' = [levels EXCEPT ![side][p] = Without(queue, i)]
  BY DEF CancelOrder, Without
<1>3. totals' = [totals EXCEPT ![side][p] = LevelTotalAfterRemoval(queue, @, o)]
  BY DEF CancelOrder
<1>4. PICK s1 \in Sides, q1 \in Prices : Has(levels[s1][q1], o)
  BY <1>1 DEF EngineInv, BookInv
<1>5. s1 = side /\ q1 = p
  BY <1>4 DEF EngineInv, BookInv, RestingOrder
<1>6. side \in Sides /\ p \in Prices /\ queue \in Seq(OrderIds) /\ Distinct(queue) /\ Has(queue, o)
  BY <1>1, <1>4, <1>5 DEF EngineInv, BookInv
<1>7. \A x \in OrderIds : Remaining(order'[x]) = Remaining(order[x])
  <2>1. PICK st : order' = [order EXCEPT ![o].status = st]
    BY DEF CancelOrder
  <2>2. order'[o] = [order[o] EXCEPT !.status = st] /\ \A x \in OrderIds \ {o} : order'[x] = order[x]
    BY <1>1, <2>1
  <2>3. Remaining([order[o] EXCEPT !.status = st]) = Remaining(order[o])
    BY <1>1, StatusEffect
  <2> QED
    BY <2>2, <2>3
<1>8. /\ Without(queue, i) \in Seq(OrderIds) /\ Len(Without(queue, i)) = Len(queue) - 1
      /\ \A x : Has(Without(queue, i), x) <=> Has(queue, x) /\ x # o
  <2> HIDE DEF queue
  <2>1. Without(queue, i) \in Seq(OrderIds) /\ Len(Without(queue, i)) = Len(queue) - 1
    BY <1>6, WithoutShape
  <2> QED
    BY <1>2, <1>6, <2>1, WithoutOne
<1>9. /\ LeftOn(queue, order) = LeftOn(Without(queue, i), order) + Remaining(order[o])
      /\ LeftOn(Without(queue, i), order) \in Nat /\ Remaining(order[o]) \in Nat
  <2>1. ~Has(Without(queue, i), o)
    BY <1>8
  <2>2. \A x \in OrderIds : Has(queue, x) <=> Has(Without(queue, i), x) \/ x = o
    BY <1>6, <1>8
  <2> QED
    BY <2>1, <2>2, SoundNow, LeftWithOne, LeftIsNat
<1>10. Len(queue) = 1 => Without(queue, i) = <<>>
  <2>1. \A seq \in Seq(OrderIds) : Len(seq) = 0 => seq = <<>>
    BY EmptySeq
  <2>2. ASSUME Len(queue) = 1 PROVE Len(Without(queue, i)) = 0
    BY <1>8, <2>2
  <2> QED
    BY <1>8, <2>1, <2>2
<1>11. totals[side][p] = LeftOn(queue, order)
  BY <1>6 DEF DepthInv
<1> HIDE DEF queue
<1>12. LevelTotalAfterRemoval(queue, totals[side][p], o) = LeftOn(Without(queue, i), order)
  <2>1. CASE Len(queue) = 1
    BY <1>10, <2>1, NothingLeft DEF LevelTotalAfterRemoval
  <2>2. CASE Len(queue) # 1
    BY <1>9, <1>11, <2>2 DEF LevelTotalAfterRemoval
  <2> QED
    BY <2>1, <2>2
<1> SUFFICES ASSUME NEW s \in Sides, NEW q \in Prices
             PROVE  totals'[s][q] = LeftOn(levels'[s][q], order')
  BY DEF DepthInv
<1>13. LeftOn(levels'[s][q], order') = LeftOn(levels'[s][q], order)
  BY <1>7, SoundNow, LeftSame
<1> HIDE DEF side, p
<1>14. CASE s = side /\ q = p
  <2>1. levels'[s][q] = Without(queue, i)
    BY <1>1, <1>2, <1>14
  <2>2. totals'[s][q] = LevelTotalAfterRemoval(queue, totals[side][p], o)
    BY <1>1, <1>3, <1>14
  <2> QED
    BY <1>12, <1>13, <2>1, <2>2
<1>15. CASE s # side \/ q # p
  <2>1. levels'[s][q] = levels[s][q] /\ totals'[s][q] = totals[s][q]
    BY <1>1, <1>2, <1>3, <1>15
  <2> QED
    BY <1>13, <2>1 DEF DepthInv
<1> QED
  BY <1>14, <1>15

\* A dropped maker takes what it had left off its level.
LEMMA DropDepth ==
    ASSUME TypeInv, EngineInv, DepthInv, DropMaker
    PROVE  DepthInv'
<1>1. PICK side \in Sides, p \in Prices :
        LET queue == levels[side][p]
        IN  /\ queue # <<>>
            /\ levels' = [levels EXCEPT ![side][p] = Tail(queue)]
            /\ totals' = [totals EXCEPT ![side][p] = TotalAfterPop(queue, @)]
  BY DropEffect
<1>2. /\ UNCHANGED order
      /\ levels \in [Sides -> [Prices -> Seq(OrderIds)]]
      /\ totals \in [Sides -> [Prices -> Int]]
  BY DropEffect DEF TypeInv, TypeOK
<1>3. TotalAfterPop(levels[side][p], totals[side][p]) = LeftOn(Tail(levels[side][p]), order)
  BY <1>1, TotalPopped
<1> SUFFICES ASSUME NEW s \in Sides, NEW q \in Prices
             PROVE  totals'[s][q] = LeftOn(levels'[s][q], order)
  BY <1>2 DEF DepthInv
<1>4. CASE s = side /\ q = p
  BY <1>1, <1>2, <1>3, <1>4
<1>5. CASE s # side \/ q # p
  BY <1>1, <1>2, <1>5 DEF DepthInv
<1> QED
  BY <1>4, <1>5

LEMMA DepthInit == Init => DepthInv
BY NothingLeft DEF Init, DepthInv

LEMMA DepthNext == TypeInv /\ EngineInv /\ DepthInv /\ [Next]_vars => DepthInv'
<1> SUFFICES ASSUME TypeInv, EngineInv, DepthInv, [Next]_vars PROVE DepthInv'
  OBVIOUS
<1>1. CASE MatchLimit \/ MatchMarket
  BY <1>1, LoopTrades, TradeDepth
<1>2. CASE FinishLimit
  BY <1>2, FinishLimitDepth
<1>3. CASE FinishMarket
  <2>1. UNCHANGED <<levels, totals>> /\ order \in [OrderIds -> EngineOrder]
    BY <1>3 DEF FinishMarket, bookVars, TypeInv, TypeOK
  <2>2. taker \notin ordersById /\ ordersById \subseteq OrderIds
    BY <1>3 DEF EngineInv, TakerInv, Matching, FinishMarket, TypeInv, TypeOK
  <2>3. \A o \in ordersById : order'[o] = order[o]
    BY <1>3, <2>1, <2>2 DEF FinishMarket
  <2> QED
    BY <2>1, <2>3, DepthFrame
<1>4. CASE \/ \E side \in Sides, sp \in Prices : FireStops(side, sp)
           \/ EndCall \/ UNCHANGED vars
  <2>1. UNCHANGED <<order, levels, totals>>
    BY <1>4 DEF FireStops, EndCall, vars, bookVars
  <2> QED
    BY <2>1, DepthFrame
<1>5. CASE CallerStep
  <2>1. CallerChange
    BY <1>5, CallerChanges
  <2>2. ASSUME NEW o \in OrderIds, o \notin ordersById,
               \A x \in OrderIds \ {o} : order'[x] = order[x],
               UNCHANGED <<levels, totals, ordersById>>
        PROVE  DepthInv'
    <3>1. ordersById \subseteq OrderIds
      BY DEF TypeInv, TypeOK
    <3> QED
      BY <2>2, <3>1, DepthFrame
  <2>3. CASE UNCHANGED <<order, levels, totals>>
    BY <2>3, DepthFrame
  <2> QED
    BY <2>1, <2>2, <2>3, CancelDepth DEF CallerChange
<1>6. CASE DropMaker
  BY <1>6, DropDepth
<1> QED
  BY <1>1, <1>2, <1>3, <1>4, <1>5, <1>6 DEF Next, EngineStep

\* Everything the proofs below know of a reachable state.
THEOREM DepthCorrect == Spec => [](TypeInv /\ EngineInv /\ DepthInv)
<1> QED
  BY EngineCorrect, DepthInit, DepthNext, PTL DEF Spec

\* PriceLevel.total_quantity, maintained by increments in order_book.py, is in
\* every state exactly what the orders on the level have left.
THEOREM DepthAlwaysExact == Spec => []DepthExact
<1>1. TypeInv /\ EngineInv /\ DepthInv => DepthExact
  <2> SUFFICES ASSUME TypeInv, EngineInv, DepthInv, NEW side \in Sides, NEW p \in Prices
               PROVE  totals[side][p] = SumFunction([i \in 1 .. Len(levels[side][p]) |->
                                                       Remaining(order[levels[side][p][i]])])
    BY DEF DepthExact
  <2>1. levels[side][p] \in Seq(OrderIds) /\ Distinct(levels[side][p])
    BY DEF TypeInv, TypeOK, EngineInv, BookInv
  <2> QED
    BY <2>1, SoundNow, LeftByPosition DEF DepthInv
<1> QED
  BY <1>1, DepthCorrect, PTL

-----------------------------------------------------------------------------
(* What one side gets the other side gives.                                *)

\* A turn of a loop of a taker without a quote budget: both orders have the
\* traded quantity left.
LEMMA BoundedTrade ==
    ASSUME TypeInv, EngineInv, MatchLimit \/ MatchMarket, order[taker].quote_quantity = 0
    PROVE  /\ Matching /\ remaining > 0 /\ remaining = Remaining(order[taker])
           /\ \E p \in Prices :
                /\ p \in Occupied(Opposite(order[taker].side))
                /\ pc = "limit" => Crosses(order[taker].side, order[taker].price, p)
                /\ FillQuantity(p) \in Nat
                /\ FillQuantity(p) <= remaining /\ FillQuantity(p) <= MakerRemaining(p)
                /\ Trade(p, FillQuantity(p))
<1>0. remaining \in Int /\ quoteRemaining \in Int
  BY DEF TypeInv, TypeOK
<1>1. Matching /\ remaining > 0
  <2>1. CASE MatchLimit
    BY <2>1 DEF MatchLimit, Matching
  <2>2. CASE MatchMarket
    <3>1. pc = "market" /\ quoteRemaining <= 0
      BY <2>2 DEF MatchMarket, EngineInv, TakerInv
    <3> QED
      BY <1>0, <2>2, <3>1 DEF MatchMarket, MarketWants, Matching
  <2> QED
    BY <2>1, <2>2
<1>2. remaining = Remaining(order[taker])
  BY <1>1 DEF EngineInv, TakerInv, Matching
<1>3. PICK p \in Prices : /\ p \in Occupied(Opposite(order[taker].side))
                          /\ pc = "limit" => Crosses(order[taker].side, order[taker].price, p)
                          /\ Trade(p, FillQuantity(p))
  <2>1. CASE MatchLimit
    BY <2>1 DEF MatchLimit, IsBest
  <2>2. CASE MatchMarket
    BY <1>1, <2>2 DEF MatchMarket, IsBest, MarketFill
  <2> QED
    BY <2>1, <2>2
<1>4. FillQuantity(p) \in Nat /\ MakerRemaining(p) \in Nat
  BY <1>1, <1>3, FillQuantityNat, MakerRemainingNat DEF Matching
<1>5. FillQuantity(p) <= remaining /\ FillQuantity(p) <= MakerRemaining(p)
  BY <1>0, <1>4 DEF FillQuantity, Lesser
<1> QED
  BY <1>1, <1>2, <1>3, <1>4, <1>5

\* What each order contributes to its side.
Share(f, side) == [o \in OrderIds |-> IF f[o].side = side THEN f[o].filled_quantity ELSE 0]
Given(f, side) == SumFunctionOnSet(Share(f, side), OrderIds)

LEMMA ShareIsNat ==
    ASSUME NEW f, SoundOrders(f), NEW side
    PROVE  /\ Ints(Share(f, side), OrderIds) /\ Given(f, side) \in Int
           /\ \A o \in OrderIds :
                Share(f, side)[o] = IF f[o].side = side THEN f[o].filled_quantity ELSE 0
<1>1. \A o \in OrderIds : f[o].filled_quantity \in Nat
  BY RemainingBounds DEF SoundOrders
<1>2. Ints(Share(f, side), OrderIds)
  BY <1>1 DEF Ints, Share
<1>3. Given(f, side) \in Int
  BY <1>2, OrderIdsAssumption, SumInt DEF Given
<1> QED
  BY <1>2, <1>3 DEF Share

\* No order gets or gives anything.
LEMMA GivenSame ==
    ASSUME NEW f, SoundOrders(f), NEW g,
           \A o \in OrderIds : \/ /\ g[o].side = f[o].side
                                  /\ g[o].filled_quantity = f[o].filled_quantity
                               \/ g[o].filled_quantity = 0 /\ f[o].filled_quantity = 0
    PROVE  \A side : Given(g, side) = Given(f, side)
<1> SUFFICES ASSUME NEW side PROVE Given(g, side) = Given(f, side)
  OBVIOUS
<1>1. \A o \in OrderIds : Share(f, side)[o] = Share(g, side)[o]
  BY DEF Share
<1> QED
  BY <1>1, ShareIsNat, OrderIdsAssumption, SumSame DEF Given

\* One order of a side gets qty more.
LEMMA GivenMore ==
    ASSUME NEW f, SoundOrders(f), NEW g, SoundOrders(g), NEW side, NEW qty \in Nat,
           NEW o \in OrderIds, f[o].side = side, g[o].side = side,
           g[o].filled_quantity = f[o].filled_quantity + qty,
           \A x \in OrderIds \ {o} :
               Share(f, side)[x] = Share(g, side)[x]
    PROVE  Given(g, side) = Given(f, side) + qty
<1>1. /\ Ints(Share(f, side), OrderIds) /\ Ints(Share(g, side), OrderIds)
      /\ Share(f, side)[o] = f[o].filled_quantity /\ Share(g, side)[o] = g[o].filled_quantity
      /\ Given(f, side) \in Int
  BY ShareIsNat
<1>2. Given(g, side) = Given(f, side) - Share(f, side)[o] + Share(g, side)[o]
  BY <1>1, OrderIdsAssumption, SumChange DEF Given
<1>3. f[o].filled_quantity \in Nat
  BY RemainingBounds DEF SoundOrders
<1> QED
  BY <1>1, <1>2, <1>3

NoBudget == \A o \in OrderIds : order[o].quote_quantity = 0

Balanced == NoBudget => Given(order, "BUY") = Given(order, "SELL")

LEMMA TradeBalanced ==
    ASSUME TypeInv, EngineInv, Balanced, MatchLimit \/ MatchMarket
    PROVE  Balanced'
<1> SUFFICES ASSUME NoBudget' PROVE Given(order', "BUY") = Given(order', "SELL")
  BY DEF Balanced
<1>0. Matching
  BY LoopTrades
<1>1. PICK p1 \in Prices : \E qty \in Nat :
        p1 \in Occupied(Opposite(order[taker].side)) /\ Trade(p1, qty)
  BY LoopTrades
<1>2. PICK qty1 \in Nat : p1 \in Occupied(Opposite(order[taker].side)) /\ Trade(p1, qty1)
  BY <1>1
<1>3. /\ taker \in OrderIds /\ Head(levels[Opposite(order[taker].side)][p1]) \in OrderIds
      /\ \A o \in OrderIds : order'[o] \in {order[o], Filled(order[o], qty1)}
  BY <1>0, <1>2, TradeEffect
<1>4. NoBudget
  <2>1. \A o \in OrderIds : Sound(order[o])
    BY DEF TypeInv, SoundOrders
  <2>2. \A o \in OrderIds : Filled(order[o], qty1).quote_quantity = order[o].quote_quantity
    BY <2>1, FilledEffect
  <2> QED
    BY <1>3, <2>2 DEF NoBudget
<1>5. /\ remaining = Remaining(order[taker])
      /\ \E p \in Prices : /\ p \in Occupied(Opposite(order[taker].side))
                           /\ FillQuantity(p) \in Nat
                           /\ FillQuantity(p) <= remaining /\ FillQuantity(p) <= MakerRemaining(p)
                           /\ Trade(p, FillQuantity(p))
  BY <1>3, <1>4, BoundedTrade DEF NoBudget
<1>6. PICK p \in Prices : /\ p \in Occupied(Opposite(order[taker].side))
                          /\ FillQuantity(p) \in Nat
                          /\ FillQuantity(p) <= remaining /\ FillQuantity(p) <= MakerRemaining(p)
                          /\ Trade(p, FillQuantity(p))
  BY <1>5
<1> DEFINE qty   == FillQuantity(p)
           mine  == order[taker].side
           side  == Opposite(mine)
           maker == Head(levels[side][p])
<1>7. /\ maker \in OrderIds /\ maker # taker /\ RestingOrder(order[maker], side, p)
      /\ order'[maker] = Filled(order[maker], qty)
      /\ order'[taker] = Filled(order[taker], qty)
      /\ \A o \in OrderIds \ {maker, taker} : order'[o] = order[o]
  BY <1>0, <1>6, TradeEffect
<1>8. SoundOrders(order) /\ SoundOrders(order')
  BY <1>0, <1>6, SoundNow, TradePreservesTypes DEF Matching
<1>9. Sound(order[taker]) /\ Sound(order[maker]) /\ mine \in Sides
  BY <1>3, <1>7, <1>8 DEF SoundOrders, Sound, EngineOrder
<1>10. MakerRemaining(p) = Remaining(order[maker])
  BY DEF MakerRemaining
<1> HIDE DEF qty, maker
<1>11. /\ Lesser(qty, Remaining(order[taker])) = qty
       /\ Lesser(qty, Remaining(order[maker])) = qty
  BY <1>5, <1>6, <1>10 DEF Lesser, qty
<1>12. /\ order'[taker].filled_quantity = order[taker].filled_quantity + qty
       /\ order'[taker].side = mine
       /\ order'[maker].filled_quantity = order[maker].filled_quantity + qty
       /\ order'[maker].side = side /\ order[maker].side = side
  BY <1>6, <1>7, <1>9, <1>11, FilledEffect DEF RestingOrder, qty
<1>13. mine # side
  BY <1>9 DEF Opposite, Sides
<1>14. qty \in Nat
  BY <1>6 DEF qty
<1> HIDE DEF mine, side
<1>15. \A x \in OrderIds \ {taker} : Share(order, mine)[x] = Share(order', mine)[x]
  BY <1>7, <1>12, <1>13 DEF Share
<1>16. \A x \in OrderIds \ {maker} : Share(order, side)[x] = Share(order', side)[x]
  BY <1>3, <1>7, <1>12, <1>13 DEF Share, mine
<1>17. Given(order', mine) = Given(order, mine) + qty
  BY <1>3, <1>8, <1>12, <1>14, <1>15, GivenMore DEF mine
<1>18. Given(order', side) = Given(order, side) + qty
  BY <1>7, <1>8, <1>12, <1>14, <1>16, GivenMore
<1>19. {mine, side} = {"BUY", "SELL"}
  BY <1>9 DEF mine, side, Opposite, Sides
<1>20. Given(order, "BUY") = Given(order, "SELL")
  BY <1>4 DEF Balanced
<1> QED
  BY <1>17, <1>18, <1>19, <1>20

LEMMA BalancedNext == TypeInv /\ EngineInv /\ Balanced /\ [Next]_vars => Balanced'
<1> SUFFICES ASSUME TypeInv, EngineInv, Balanced, [Next]_vars PROVE Balanced'
  OBVIOUS
<1>0. /\ SoundOrders(order) /\ order \in [OrderIds -> EngineOrder]
  BY SoundNow DEF SoundOrders
<1>1. ASSUME \A o \in OrderIds :
               /\ order'[o].quote_quantity = 0 => order[o].quote_quantity = 0
               /\ \/ /\ order'[o].side = order[o].side
                     /\ order'[o].filled_quantity = order[o].filled_quantity
                  \/ order'[o].filled_quantity = 0 /\ order[o].filled_quantity = 0
      PROVE  Balanced'
  BY <1>0, <1>1, GivenSame DEF Balanced, NoBudget
<1>2. ASSUME NEW o \in OrderIds, NEW st, order' = [order EXCEPT ![o].status = st]
      PROVE  Balanced'
  <2>1. order'[o] = [order[o] EXCEPT !.status = st] /\ \A x \in OrderIds \ {o} : order'[x] = order[x]
    BY <1>0, <1>2
  <2>2. /\ order'[o].side = order[o].side /\ order'[o].quote_quantity = order[o].quote_quantity
        /\ order'[o].filled_quantity = order[o].filled_quantity
    BY <1>0, <2>1, StatusEffect
  <2> QED
    BY <1>1, <2>1, <2>2
<1>3. CASE UNCHANGED order
  BY <1>1, <1>3
<1>4. CASE MatchLimit \/ MatchMarket
  BY <1>4, TradeBalanced
<1>5. CASE FinishLimit
  BY <1>1, <1>5, FinishLimitShape
<1>6. CASE FinishMarket
  BY <1>2, <1>6 DEF FinishMarket, TypeInv, InCall
<1>7. CASE CallerStep
  <2>1. CallerChange
    BY <1>7, CallerChanges
  <2>2. ASSUME NEW o \in OrderIds, CancelOrder(o) PROVE Balanced'
    BY <1>2, <2>2 DEF CancelOrder
  <2>3. ASSUME NEW o \in OrderIds, order[o] = Blank \/ StopOrder(order[o]),
               NEW ord, Sound(ord), Fresh(ord), Process(o, ord)
        PROVE  Balanced'
    <3>1. order[o].quote_quantity = 0 /\ order[o].filled_quantity = 0
      BY <2>3 DEF Blank, StopOrder, Fresh
    <3>2. \A x \in OrderIds \ {o} : order'[x] = order[x]
      BY <2>3, ProcessChanges
    <3>3. \E st : order'[o] = [ord EXCEPT !.status = st] \/ order'[o] = ord
      BY <2>3, ProcessChanges
    <3>4. order'[o].filled_quantity = 0
      <4>1. \A st : [ord EXCEPT !.status = st].filled_quantity = ord.filled_quantity
        BY <2>3 DEF Sound, EngineOrder
      <4> QED
        BY <2>3, <3>3, <4>1 DEF Fresh
    <3> QED
      BY <1>1, <3>1, <3>2, <3>4
  <2> QED
    BY <1>3, <2>1, <2>2, <2>3 DEF CallerChange
<1> QED
  BY <1>3, <1>4, <1>5, <1>6, <1>7
     DEF Next, EngineStep, DropMaker, FireStops, EndCall, vars

\* As long as no order has a quote budget, the buyers have got in every state,
\* in the middle of a call too, what the sellers have given (orders.py, fill;
\* engine.py, both loops).
THEOREM FillsAlwaysBalance == Spec => []FillsBalance
<1>1. Init => Balanced
  <2> SUFFICES ASSUME Init PROVE Given(order, "BUY") = Given(order, "SELL")
    BY DEF Balanced
  <2>1. \A side : \A o \in OrderIds : Share(order, side)[o] = 0
    BY DEF Init, Share, Blank
  <2> QED
    BY <2>1, OrderIdsAssumption, SumZero DEF Given
<1>2. Balanced => FillsBalance
  <2>1. \A side : FilledOn(side) = Given(order, side)
    <3> TAKE side
    <3>1. SumFunction(Share(order, side)) = SumFunctionOnSet(Share(order, side), OrderIds)
      BY SumWhole DEF Share
    <3> QED
      BY <3>1 DEF FilledOn, Given, Share
  <2> QED
    BY <2>1 DEF Balanced, FillsBalance, NoBudget
<1> QED
  BY <1>1, <1>2, BalancedNext, EngineCorrect, PTL DEF Spec

-----------------------------------------------------------------------------
(* Fill or kill.                                                           *)

\* The prices an order may trade at, occupied or not, and what lies there.
Reach(ord) == {p \in Prices : ord.order_type = "LIMIT" => Crosses(ord.side, ord.price, p)}
WithinReach(ord, t) == SumFunctionOnSet(t[Opposite(ord.side)], Reach(ord))

AllOrNone(ord) == ord.time_in_force = "FOK" => ord.filled_quantity \in {0, ord.quantity}

\* A fill-or-kill order is whole or untouched unless its call is at work on it,
\* and then the book still holds all that it wants.
FillOrKillInv ==
    /\ \A o \in OrderIds : ~(Matching /\ o = taker) => AllOrNone(order[o])
    /\ Matching /\ order[taker].time_in_force = "FOK" =>
         /\ order[taker].quote_quantity = 0
         /\ WithinReach(order[taker], totals) >= remaining

\* Nothing lies at prices without orders.
LEMMA NothingThere ==
    ASSUME TypeInv, DepthInv, NEW side \in Sides
    PROVE  /\ \A p \in Prices : totals[side][p] \in Int
           /\ \A p \in Prices \ Occupied(side) : totals[side][p] = 0
BY NothingLeft DEF TypeInv, TypeOK, DepthInv, Occupied

LEMMA ReachFinite == \A ord : IsFiniteSet(Reach(ord)) /\ Reach(ord) \subseteq Prices
BY PricesAssumption, FS_Subset DEF Reach

\* The preflight counts all that lies within reach.
LEMMA PreflightCounts ==
    ASSUME TypeInv, DepthInv, NEW ord, ord.side \in Sides, ord.quantity > 0, CanFullyFill(ord)
    PROVE  WithinReach(ord, totals) >= ord.quantity
<1> DEFINE side   == Opposite(ord.side)
           f      == totals[side]
           usable == {p \in Occupied(side) : ord.order_type = "LIMIT" =>
                        Crosses(ord.side, ord.price, p)}
<1>1. side \in Sides
  BY DEF Opposite, Sides
<1>2. SumFunctionOnSet(f, usable) >= ord.quantity
  BY DEF CanFullyFill
<1>3. usable \subseteq Reach(ord) /\ \A p \in Reach(ord) \ usable : p \in Prices \ Occupied(side)
  BY DEF Reach, Occupied
<1>4. Ints(f, Reach(ord)) /\ \A p \in Reach(ord) \ usable : f[p] = 0
  BY <1>1, <1>3, NothingThere, ReachFinite DEF Ints
<1> HIDE DEF f, usable, side
<1>5. SumFunctionOnSet(f, Reach(ord)) = SumFunctionOnSet(f, usable)
  BY <1>3, <1>4, ReachFinite, SumPart
<1> QED
  BY <1>2, <1>5 DEF WithinReach, f, side

\* With nothing occupied within reach, nothing is left for the order.
LEMMA NothingWithinReach ==
    ASSUME TypeInv, DepthInv, NEW ord, ord.side \in Sides,
           \A p \in Occupied(Opposite(ord.side)) : p \notin Reach(ord)
    PROVE  WithinReach(ord, totals) = 0
<1>1. Opposite(ord.side) \in Sides
  BY DEF Opposite, Sides
<1>2. \A p \in Reach(ord) : totals[Opposite(ord.side)][p] = 0
  BY <1>1, NothingThere, ReachFinite
<1> QED
  BY <1>2, ReachFinite, SumZero DEF WithinReach

\* Two orders alike in what Reach looks at.
LEMMA SameReach ==
    ASSUME NEW ord, NEW new, new.side = ord.side, new.price = ord.price,
           new.order_type = ord.order_type, NEW t
    PROVE  WithinReach(new, t) = WithinReach(ord, t)
BY DEF WithinReach, Reach

LEMMA TradeFillOrKill ==
    ASSUME TypeInv, EngineInv, DepthInv, FillOrKillInv, MatchLimit \/ MatchMarket
    PROVE  FillOrKillInv'
<1> DEFINE ord  == order[taker]
           side == Opposite(ord.side)
<1>1. Matching
  BY LoopTrades
<1>2. PICK p1 \in Prices : \E q \in Nat : p1 \in Occupied(side) /\ Trade(p1, q)
  BY LoopTrades
<1>3. PICK qty1 \in Nat : p1 \in Occupied(side) /\ Trade(p1, qty1)
  BY <1>2
<1> DEFINE maker == Head(levels[side][p1])
<1>4. /\ taker \in OrderIds /\ maker \in OrderIds /\ maker # taker
      /\ RestingOrder(order[maker], side, p1)
      /\ order'[maker] = Filled(order[maker], qty1)
      /\ order'[taker] = Filled(ord, qty1)
      /\ \A o \in OrderIds \ {maker, taker} : order'[o] = order[o]
  BY <1>1, <1>3, TradeEffect
<1>5. taker' = taker /\ pc' = pc
  BY <1>3 DEF Trade
<1>6. Sound(order[maker]) /\ Sound(ord) /\ ord.side \in Sides /\ side \in Sides
  <2>1. Sound(order[maker]) /\ Sound(ord)
    BY <1>4 DEF TypeInv, SoundOrders
  <2> QED
    BY <2>1 DEF Sound, EngineOrder, Opposite, Sides
<1>7. order'[maker].time_in_force # "FOK"
  <2> HIDE DEF maker
  <2>1. Filled(order[maker], qty1).time_in_force = order[maker].time_in_force
    BY <1>6, FilledEffect
  <2> QED
    BY <1>4, <2>1 DEF RestingOrder
<1>8. /\ order'[taker].time_in_force = ord.time_in_force
      /\ order'[taker].quote_quantity = ord.quote_quantity
      /\ order'[taker].side = ord.side /\ order'[taker].price = ord.price
      /\ order'[taker].order_type = ord.order_type
  <2> HIDE DEF ord, maker, side
  <2>1. LET new == Filled(ord, qty1) IN
        /\ new.time_in_force = ord.time_in_force /\ new.quote_quantity = ord.quote_quantity
        /\ new.side = ord.side /\ new.price = ord.price /\ new.order_type = ord.order_type
    BY <1>6, FilledEffect
  <2> QED
    BY <1>4, <2>1
<1> HIDE DEF maker
<1>9. \A o \in OrderIds : ~(Matching' /\ o = taker') => AllOrNone(order'[o])
  <2> SUFFICES ASSUME NEW o \in OrderIds, o # taker PROVE AllOrNone(order'[o])
    BY <1>1, <1>5 DEF Matching
  <2> QED
    BY <1>4, <1>7 DEF AllOrNone, FillOrKillInv
<1>10. ASSUME ord.time_in_force = "FOK"
       PROVE  ord.quote_quantity = 0 /\ WithinReach(order'[taker], totals') >= remaining'
  <2>1. ord.quote_quantity = 0 /\ WithinReach(ord, totals) >= remaining
    BY <1>1, <1>10 DEF FillOrKillInv
  <2>2. PICK p \in Prices : /\ p \in Occupied(side)
                            /\ pc = "limit" => Crosses(ord.side, ord.price, p)
                            /\ FillQuantity(p) \in Nat
                            /\ FillQuantity(p) <= MakerRemaining(p)
                            /\ Trade(p, FillQuantity(p))
    BY <2>1, BoundedTrade
  <2> DEFINE qty == FillQuantity(p)
             f == totals[side]
             g == totals'[side]
  <2>3. /\ g[p] = f[p] - Lesser(qty, MakerRemaining(p)) /\ \A q \in Prices \ {p} : g[q] = f[q]
    BY <1>1, <2>2, TradeDepth
  <2>4. MakerRemaining(p) \in Nat
    BY <1>1, <2>2, MakerRemainingNat DEF Matching
  <2>5. remaining' = remaining - qty /\ remaining \in Int
    BY <2>2 DEF Trade, TypeInv, TypeOK
  <2>6. p \in Reach(ord)
    <3>1. pc = "limit" \/ ord.order_type = "MARKET"
      BY <1>1 DEF EngineInv, TakerInv, Matching
    <3> QED
      BY <2>2, <3>1 DEF Reach
  <2>7. \A q \in Prices : f[q] \in Int
    BY <1>6, NothingThere
  <2> HIDE DEF qty, f, g
  <2>8. qty \in Nat /\ Lesser(qty, MakerRemaining(p)) = qty
    BY <2>2, <2>4 DEF qty, Lesser
  <2>9. Ints(f, Reach(ord)) /\ Ints(g, Reach(ord))
    BY <2>3, <2>7, <2>8, ReachFinite DEF Ints
  <2>10. /\ SumFunctionOnSet(g, Reach(ord)) = SumFunctionOnSet(f, Reach(ord)) - f[p] + g[p]
         /\ SumFunctionOnSet(f, Reach(ord)) \in Int
    BY <2>3, <2>6, <2>9, ReachFinite, SumChange, SumInt
  <2>11. SumFunctionOnSet(g, Reach(ord)) = SumFunctionOnSet(f, Reach(ord)) - qty
    BY <2>3, <2>7, <2>8, <2>10
  <2>12. /\ WithinReach(ord, totals) = SumFunctionOnSet(f, Reach(ord))
         /\ WithinReach(ord, totals') = SumFunctionOnSet(g, Reach(ord))
    BY DEF WithinReach, f, g, side
  <2>13. WithinReach(order'[taker], totals') = WithinReach(ord, totals')
    BY <1>8, SameReach
  <2> QED
    BY <2>1, <2>5, <2>8, <2>10, <2>11, <2>12, <2>13
<1> QED
  BY <1>5, <1>8, <1>9, <1>10 DEF FillOrKillInv

\* When a loop ends a fill-or-kill taker has nothing left to want.
LEMMA LoopEndsFilled ==
    ASSUME TypeInv, EngineInv, DepthInv, FillOrKillInv, FinishLimit \/ FinishMarket,
           order[taker].time_in_force = "FOK"
    PROVE  order[taker].filled_quantity = order[taker].quantity
<1> DEFINE ord  == order[taker]
           side == Opposite(ord.side)
<1>1. Matching /\ taker \in OrderIds /\ Sound(ord) /\ ord.side \in Sides /\ remaining \in Int
  BY DEF FinishLimit, FinishMarket, Matching, TypeInv, TypeOK, InCall, SoundOrders, Sound, EngineOrder
<1>2. WithinReach(ord, totals) >= remaining
  BY <1>1 DEF FillOrKillInv
<1>3. ASSUME remaining > 0 PROVE FALSE
  <2>1. \A p \in Occupied(side) : p \notin Reach(ord)
    <3>1. CASE FinishLimit
      <4>1. ~CanMatch(ord.side, ord.price) /\ ord.order_type = "LIMIT"
        BY <1>3, <3>1 DEF FinishLimit, EngineInv, TakerInv
      <4> QED
        BY <4>1 DEF CanMatch, Reach
    <3>2. CASE FinishMarket
      <4>1. Occupied(side) = {}
        BY <1>3, <3>2 DEF FinishMarket, MarketWants
      <4> QED
        BY <4>1
    <3> QED
      BY <3>1, <3>2
  <2>2. WithinReach(ord, totals) = 0
    BY <1>1, <2>1, NothingWithinReach
  <2> QED
    BY <1>1, <1>2, <1>3, <2>2
<1>4. Remaining(ord) \in Nat
  BY <1>1, RemainingBounds
<1>5. Remaining(ord) = 0
  BY <1>1, <1>3, <1>4 DEF EngineInv, TakerInv, Matching
<1> QED
  BY <1>1, <1>5, RemainingBounds

LEMMA FillOrKillNext ==
    TypeInv /\ EngineInv /\ DepthInv /\ FillOrKillInv /\ [Next]_vars => FillOrKillInv'
<1> SUFFICES ASSUME TypeInv, EngineInv, DepthInv, FillOrKillInv, [Next]_vars
             PROVE  FillOrKillInv'
  OBVIOUS
<1>0. order \in [OrderIds -> EngineOrder]
  BY DEF TypeInv, TypeOK
<1>1. CASE MatchLimit \/ MatchMarket
  BY <1>1, TradeFillOrKill
<1>2. ASSUME ~Matching', \A o \in OrderIds : AllOrNone(order'[o]) PROVE FillOrKillInv'
  BY <1>2 DEF FillOrKillInv
<1>3. CASE FinishLimit
  <2>1. /\ taker \in OrderIds /\ \A o \in OrderIds \ {taker} : order'[o] = order[o]
        /\ order'[taker].time_in_force = order[taker].time_in_force
        /\ order'[taker].filled_quantity = order[taker].filled_quantity
        /\ Rests(order[taker]) \/ order'[taker].quantity = order[taker].quantity
    BY <1>3, FinishLimitShape
  <2>2. AllOrNone(order'[taker])
    BY <1>3, <2>1, LoopEndsFilled DEF AllOrNone, Rests
  <2>3. \A o \in OrderIds \ {taker} : AllOrNone(order'[o])
    BY <2>1 DEF FillOrKillInv
  <2>4. ~Matching'
    BY <1>3 DEF FinishLimit, Matching
  <2> QED
    BY <1>2, <2>2, <2>3, <2>4
<1>4. CASE FinishMarket
  <2>1. taker \in OrderIds
    BY <1>4 DEF FinishMarket, TypeInv, InCall
  <2>2. PICK st : order' = [order EXCEPT ![taker].status = st]
    BY <1>4 DEF FinishMarket
  <2>3. /\ order'[taker] = [order[taker] EXCEPT !.status = st]
        /\ \A o \in OrderIds \ {taker} : order'[o] = order[o]
    BY <1>0, <2>1, <2>2
  <2>4. /\ order'[taker].time_in_force = order[taker].time_in_force
        /\ order'[taker].filled_quantity = order[taker].filled_quantity
        /\ order'[taker].quantity = order[taker].quantity
    BY <1>0, <2>1, <2>3, StatusEffect
  <2>5. AllOrNone(order'[taker])
    BY <1>4, <2>4, LoopEndsFilled DEF AllOrNone
  <2>6. \A o \in OrderIds \ {taker} : AllOrNone(order'[o])
    BY <2>3 DEF FillOrKillInv
  <2>7. ~Matching'
    BY <1>4 DEF FinishMarket, Matching
  <2> QED
    BY <1>2, <2>5, <2>6, <2>7
<1>5. CASE \/ \E side \in Sides, sp \in Prices : FireStops(side, sp)
           \/ EndCall
  <2>1. UNCHANGED order /\ ~Matching /\ ~Matching'
    BY <1>5 DEF FireStops, EndCall, Matching, callVars
  <2> QED
    BY <1>2, <2>1 DEF FillOrKillInv
<1>6. CASE UNCHANGED vars
  <2>1. UNCHANGED <<order, pc, taker, remaining, totals>>
    BY <1>6 DEF vars, bookVars, callVars
  <2> QED
    BY <2>1 DEF FillOrKillInv, Matching
<1>8. CASE DropMaker
  <2>1. /\ UNCHANGED <<order, pc, taker>> /\ pc = "market"
        /\ order[taker].quote_quantity > 0
    BY <1>8, DropEffect
  <2>2. order[taker].time_in_force # "FOK"
    BY <2>1 DEF FillOrKillInv, Matching
  <2> QED
    BY <2>1, <2>2 DEF FillOrKillInv, Matching
<1>7. CASE CallerStep
  <2>1. pc = "idle" /\ CallerChange
    BY <1>7, CallerChanges
  <2>2. ~Matching /\ \A o \in OrderIds : AllOrNone(order[o])
    BY <2>1 DEF Matching, FillOrKillInv
  <2>3. CASE UNCHANGED <<order, levels, totals, ordersById, pc, taker>>
    BY <1>2, <2>2, <2>3 DEF Matching
  <2>4. ASSUME NEW o \in OrderIds, CancelOrder(o), UNCHANGED <<pc, taker>>
        PROVE  FillOrKillInv'
    <3>1. PICK st : order' = [order EXCEPT ![o].status = st]
      BY <2>4 DEF CancelOrder
    <3>2. /\ order'[o] = [order[o] EXCEPT !.status = st]
          /\ \A x \in OrderIds \ {o} : order'[x] = order[x]
      BY <1>0, <3>1
    <3>3. /\ order'[o].time_in_force = order[o].time_in_force
          /\ order'[o].filled_quantity = order[o].filled_quantity
          /\ order'[o].quantity = order[o].quantity
      BY <1>0, <3>2, StatusEffect
    <3>4. \A x \in OrderIds : AllOrNone(order'[x])
      BY <2>2, <3>2, <3>3 DEF AllOrNone
    <3> QED
      BY <1>2, <2>2, <2>4, <3>4 DEF Matching
  <2>5. ASSUME NEW o \in OrderIds, NEW ord, Sound(ord), Fresh(ord), Process(o, ord),
               UNCHANGED totals
        PROVE  FillOrKillInv'
    <3>1. \A st : LET new == [ord EXCEPT !.status = st] IN
            /\ new.filled_quantity = 0 /\ new.quote_quantity = ord.quote_quantity
            /\ new.time_in_force = ord.time_in_force
            /\ new.side = ord.side /\ new.price = ord.price
            /\ new.order_type = ord.order_type
      BY <2>5 DEF Sound, EngineOrder, Fresh
    <3>2. /\ order'[o].filled_quantity = 0
          /\ order'[o].quote_quantity = ord.quote_quantity
          /\ order'[o].time_in_force = ord.time_in_force
          /\ order'[o].side = ord.side /\ order'[o].price = ord.price
          /\ order'[o].order_type = ord.order_type
      <4>1. \E st : order'[o] = [ord EXCEPT !.status = st] \/ order'[o] = ord
        BY <2>5, ProcessChanges
      <4> QED
        BY <2>5, <3>1, <4>1 DEF Fresh
    <3>3. \A x \in OrderIds : AllOrNone(order'[x])
      <4>1. \A x \in OrderIds \ {o} : order'[x] = order[x]
        BY <2>5, ProcessChanges
      <4> QED
        BY <2>2, <3>2, <4>1 DEF AllOrNone
    <3>4. CASE StartMatching(o, ord) /\ ord.time_in_force = "FOK"
      <4>1. /\ taker' = o /\ remaining' = ord.quantity /\ CanFullyFill(ord)
            /\ ord.quantity > 0 /\ ord.quote_quantity = 0 /\ ord.side \in Sides
        BY <2>5, <3>4 DEF StartMatching, Fresh, Sound, EngineOrder
      <4>2. WithinReach(ord, totals) >= ord.quantity
        BY <4>1, PreflightCounts
      <4>3. WithinReach(order'[o], totals) = WithinReach(ord, totals)
        BY <3>2, SameReach
      <4> QED
        BY <2>5, <3>2, <3>3, <4>1, <4>2, <4>3 DEF FillOrKillInv
    <3>5. CASE StartMatching(o, ord) /\ ord.time_in_force # "FOK"
      <4>1. taker' = o
        BY <3>5 DEF StartMatching
      <4> QED
        BY <3>2, <3>3, <3>5, <4>1 DEF FillOrKillInv
    <3>6. CASE ~StartMatching(o, ord)
      <4>1. pc' = pc
        BY <2>5, <3>6 DEF Process, Expire, KillFillOrKill, RestStop, callVars
      <4> QED
        BY <1>2, <2>2, <3>3, <4>1 DEF Matching
    <3> QED
      BY <3>4, <3>5, <3>6
  <2> QED
    BY <2>1, <2>3, <2>4, <2>5 DEF CallerChange
<1> QED
  BY <1>1, <1>3, <1>4, <1>5, <1>6, <1>7, <1>8 DEF Next, EngineStep

\* Seen outside its call a fill-or-kill order was filled whole or not at all:
\* what the preflight adds up over the level totals (_can_fully_fill) is what
\* the loop then finds order by order (engine.py).
THEOREM FillOrKillHolds == Spec => []FillOrKill
<1>1. Init => FillOrKillInv
  BY DEF Init, FillOrKillInv, AllOrNone, Matching, Blank
<1>2. TypeInv /\ FillOrKillInv => FillOrKill
  <2>1. Matching \/ ~Matching
    OBVIOUS
  <2> QED
    BY DEF FillOrKillInv, FillOrKill, AllOrNone
<1> QED
  BY <1>1, <1>2, FillOrKillNext, DepthCorrect, PTL DEF Spec
==============================================================================
