---------------------------- MODULE TradingProofs ----------------------------
(***************************************************************************)
(* Theorems about Trading for every set of orders, cancels, users, prices  *)
(* and requests, every fee and every balance, checked by TLAPS.            *)
(*                                                                         *)
(* The engine's invariant is that of MatchingEngineProofs, for the lists   *)
(* of stops that the requests of Trading have in work.                     *)
(***************************************************************************)
EXTENDS Trading, SumTheorems, SequenceTheorems, TLAPS

\* The lists of triggered stops that requests have in work: what MatchingEngine
\* calls batches.
Lists == {task[t].triggered : t \in Tasks} \ {<<>>}

\* The engine's lemmas, with these lists.
EB == INSTANCE MatchingEngineProofs WITH Requests <- {}, batches <- Lists

LEMMA EngineAssumptions ==
    /\ EB!PricesAssumption /\ EB!OrderIdsAssumption /\ EB!RequestsAssumption
    /\ EB!NoOrderAssumption /\ EB!DustAssumption
BY TaskAssumption, MarketAssumption, RoundingAssumption
   DEF EB!PricesAssumption, EB!OrderIdsAssumption, EB!RequestsAssumption, EB!NoOrderAssumption,
       EB!DustAssumption, EB!IsFiniteSet, IsFiniteSet

-----------------------------------------------------------------------------
(* The operators of Engine are those of EB.                                *)

LEMMA SameHelpers ==
    /\ Engine!Sides = EB!Sides /\ Engine!OrderTypes = EB!OrderTypes
    /\ Engine!TimeInForce = EB!TimeInForce /\ Engine!Statuses = EB!Statuses
    /\ Engine!NoPrice = EB!NoPrice /\ Engine!Blank = EB!Blank
    /\ \A side : Engine!Opposite(side) = EB!Opposite(side)
    /\ \A ord : Engine!Remaining(ord) = EB!Remaining(ord)
    /\ \A ord, qty : Engine!Filled(ord, qty) = EB!Filled(ord, qty)
    /\ \A ord : Engine!VisiblePart(ord) = EB!VisiblePart(ord)
    /\ \A ord : Engine!Rests(ord) = EB!Rests(ord)
    /\ \A ord, st : Engine!StatusAfterMatching(ord, st) = EB!StatusAfterMatching(ord, st)
    /\ \A ord : Engine!Triggered(ord) = EB!Triggered(ord)
    /\ \A side, p, q : Engine!Better(side, p, q) = EB!Better(side, p, q)
    /\ \A side, p, q : Engine!Crosses(side, p, q) = EB!Crosses(side, p, q)
BY DEF Engine!Sides, EB!Sides, Engine!OrderTypes, EB!OrderTypes, Engine!TimeInForce, EB!TimeInForce,
       Engine!Statuses, EB!Statuses, Engine!NoPrice, EB!NoPrice, Engine!Blank, EB!Blank,
       Engine!Opposite, EB!Opposite, Engine!Remaining, EB!Remaining, Engine!Filled, EB!Filled,
       Engine!Lesser, EB!Lesser, Engine!VisiblePart, EB!VisiblePart, Engine!Rests, EB!Rests,
       Engine!StatusAfterMatching, EB!StatusAfterMatching, Engine!Triggered, EB!Triggered,
       Engine!Better, EB!Better, Engine!Crosses, EB!Crosses

LEMMA SameTypes == Engine!EngineOrder = EB!EngineOrder
BY SameHelpers DEF Engine!EngineOrder, EB!EngineOrder

LEMMA SameBook ==
    /\ \A side : Engine!Occupied(side) = EB!Occupied(side)
    /\ \A side, p : Engine!IsBest(side, p) <=> EB!IsBest(side, p)
    /\ \A side, limit : Engine!CanMatch(side, limit) <=> EB!CanMatch(side, limit)
<1>1. \A side : Engine!Occupied(side) = EB!Occupied(side)
  BY DEF Engine!Occupied, EB!Occupied
<1> QED
  BY <1>1, SameHelpers DEF Engine!IsBest, EB!IsBest, Engine!CanMatch, EB!CanMatch

LEMMA SameSums == \A f, S : Engine!SumFunctionOnSet(f, S) = EB!SumFunctionOnSet(f, S)
BY DEF Engine!SumFunctionOnSet, EB!SumFunctionOnSet, Engine!FoldFunctionOnSet,
       EB!FoldFunctionOnSet, Engine!MapThenFoldSet, EB!MapThenFoldSet

LEMMA SamePreflight == \A ord : Engine!CanFullyFill(ord) <=> EB!CanFullyFill(ord)
<1>1. \A f : Engine!SumFunction(f) = EB!SumFunction(f)
  BY SameSums DEF Engine!SumFunction, EB!SumFunction
<1> QED
  BY <1>1, SameSums, SameBook, SameHelpers DEF Engine!CanFullyFill, EB!CanFullyFill

LEMMA SameProcess ==
    ASSUME NEW o, NEW ord, Engine!Process(o, ord)
    PROVE  EB!Process(o, ord)
BY SamePreflight
   DEF Engine!Process, EB!Process, Engine!Expire, EB!Expire, Engine!KillFillOrKill,
       EB!KillFillOrKill, Engine!StartMatching, EB!StartMatching, Engine!RestStop, EB!RestStop,
       Engine!bookVars, EB!bookVars, Engine!callVars, EB!callVars

LEMMA SameTrade ==
    ASSUME Lists' = Lists, NEW p, NEW qty, Engine!Trade(p, qty)
    PROVE  EB!Trade(p, qty)
BY SameHelpers
   DEF Engine!Trade, EB!Trade, Engine!QueueAfterFill, EB!QueueAfterFill, Engine!TotalAfterPop,
       EB!TotalAfterPop, Engine!stopVars, EB!stopVars

LEMMA SameAmounts ==
    /\ \A p : Engine!MakerRemaining(p) = EB!MakerRemaining(p)
    /\ \A p : Engine!FillQuantity(p) = EB!FillQuantity(p)
    /\ Engine!Crumbs = EB!Crumbs
    /\ \A p : Engine!MarketFill(p) = EB!MarketFill(p)
    /\ \A p, qty : Engine!RoundsOff(p, qty) <=> EB!RoundsOff(p, qty)
    /\ Engine!MarketWants <=> EB!MarketWants
    /\ Engine!NewLastPrice = EB!NewLastPrice
<1>1. \A p : Engine!MakerRemaining(p) = EB!MakerRemaining(p)
  BY SameHelpers DEF Engine!MakerRemaining, EB!MakerRemaining
<1>2. \A p : Engine!FillQuantity(p) = EB!FillQuantity(p)
  BY <1>1 DEF Engine!FillQuantity, EB!FillQuantity, Engine!Lesser, EB!Lesser
<1>3. Engine!Crumbs = EB!Crumbs
  BY DEF Engine!Crumbs, EB!Crumbs, Engine!Cardinality, EB!Cardinality
<1>4. \A p : Engine!QuoteFill(p) = EB!QuoteFill(p)
  BY <1>1, <1>3 DEF Engine!QuoteFill, EB!QuoteFill, Engine!Lesser, EB!Lesser
<1> QED
  BY <1>1, <1>2, <1>3, <1>4
     DEF Engine!MarketFill, EB!MarketFill, Engine!RoundsOff, EB!RoundsOff, Engine!MarketWants,
         EB!MarketWants, Engine!NewLastPrice, EB!NewLastPrice

LEMMA SameMatching ==
    ASSUME Lists' = Lists
    PROVE  /\ Engine!MatchLimit => EB!MatchLimit
           /\ Engine!MatchMarket => EB!MatchMarket
           /\ Engine!DropMaker => EB!DropMaker
<1>1. Engine!MatchLimit => EB!MatchLimit
  BY SameTrade, SameAmounts, SameBook, SameHelpers DEF Engine!MatchLimit, EB!MatchLimit
<1>2. Engine!MatchMarket => EB!MatchMarket
  BY SameTrade, SameAmounts, SameBook, SameHelpers DEF Engine!MatchMarket, EB!MatchMarket
<1>3. Engine!DropMaker => EB!DropMaker
  BY SameAmounts, SameBook, SameHelpers
     DEF Engine!DropMaker, EB!DropMaker, Engine!TotalAfterPop, EB!TotalAfterPop, Engine!stopVars,
         EB!stopVars, Engine!callVars, EB!callVars
<1> QED
  BY <1>1, <1>2, <1>3

LEMMA SameFinish ==
    ASSUME Lists' = Lists
    PROVE  /\ Engine!FinishLimit => EB!FinishLimit
           /\ Engine!FinishMarket => EB!FinishMarket
<1>1. ASSUME Engine!FinishLimit PROVE EB!FinishLimit
  BY <1>1, SameAmounts, SameBook, SameHelpers
     DEF Engine!FinishLimit, EB!FinishLimit, Engine!AddToBook, EB!AddToBook, Engine!stopVars,
         EB!stopVars, Engine!bookVars, EB!bookVars
<1>2. ASSUME Engine!FinishMarket PROVE EB!FinishMarket
  BY <1>2, SameAmounts, SameBook, SameHelpers
     DEF Engine!FinishMarket, EB!FinishMarket, Engine!stopVars, EB!stopVars, Engine!bookVars,
         EB!bookVars
<1> QED
  BY <1>1, <1>2

LEMMA SameSweep ==
    ASSUME Lists' = Lists
    PROVE  /\ \A side, sp : Engine!FireStops(side, sp) => EB!FireStops(side, sp)
           /\ Engine!EndCall => EB!EndCall
<1>1. \A side, sp : Engine!StopDue(side, sp) <=> EB!StopDue(side, sp)
  BY SameHelpers DEF Engine!StopDue, EB!StopDue
<1>2. \A s, p, t, q : Engine!SweptBefore(s, p, t, q) <=> EB!SweptBefore(s, p, t, q)
  BY SameHelpers DEF Engine!SweptBefore, EB!SweptBefore
<1>3. ASSUME NEW side, NEW sp, Engine!FireStops(side, sp) PROVE EB!FireStops(side, sp)
  BY <1>1, <1>2, <1>3, SameHelpers
     DEF Engine!FireStops, EB!FireStops, Engine!bookVars, EB!bookVars, Engine!callVars, EB!callVars
<1>4. ASSUME Engine!EndCall PROVE EB!EndCall
  BY <1>1, <1>4, SameHelpers
     DEF Engine!EndCall, EB!EndCall, Engine!bookVars, EB!bookVars, Engine!stopVars, EB!stopVars
<1> QED
  BY <1>3, <1>4

LEMMA SameStep ==
    ASSUME Lists' = Lists, Engine!EngineStep
    PROVE  EB!EngineStep
BY SameMatching, SameFinish, SameSweep, SameHelpers DEF Engine!EngineStep, EB!EngineStep

LEMMA SameCancel ==
    ASSUME Lists' = Lists, NEW o, Engine!CancelOrder(o)
    PROVE  EB!CancelOrder(o)
BY SameHelpers
   DEF Engine!CancelOrder, EB!CancelOrder, Engine!LevelTotalAfterRemoval,
       EB!LevelTotalAfterRemoval, Engine!stopVars, EB!stopVars, Engine!callVars, EB!callVars

-----------------------------------------------------------------------------
(* The invariant.                                                          *)

Row == [status : EB!Statuses \cup {"NONE"}, filled : Nat, quantity : Nat]

TaskRecord ==
    [ stage : Stages, cur : OrderIds \cup {NoOrder}, trades : Seq(EB!TradeType),
      triggered : Seq(OrderIds), draft : [OrderIds -> Row], seen : Row,
      settled : [OrderIds -> Nat], fees : Nat, made : [Assets -> Nat], spent : Int ]

\* The stages at which a request has no transaction, or one that has done nothing.
Clean == {"ready", "reserve", "done", "failed"}

\* What a record of task t has at each stage.
StageFacts(t, k) ==
    /\ k.stage \in Clean => k = Ended(k.stage)
    /\ k.stage \notin Clean => k.cur \in OrderIds
    /\ k.stage \in {"settle", "flush", "write"} => k.trades # <<>>
    /\ k.stage \in {"trigger", "fire"} => k.triggered # <<>>
    /\ k.stage = "stops" => k.triggered = <<>>
    /\ t \in CancelIds => k.stage \in {"ready", "pair", "release", "commit", "done", "failed"}
    /\ \A i \in 1 .. Len(k.trades) : k.trades[i].maker # k.cur

SoundTask(t, k) == k \in TaskRecord /\ StageFacts(t, k)

TasksSound == task \in [Tasks -> TaskRecord] /\ \A t \in Tasks : SoundTask(t, task[t])

\* An order is new to the engine until its task submits it, and known when its
\* row is written.
Known(t, k) ==
    /\ t \in OrderIds /\ k.stage \in {"ready", "reserve"} => order[t].status = "UNUSED"
    /\ k.stage = "insert" => order[k.cur].status # "UNUSED"

OrdersKnown == \A t \in Tasks : Known(t, task[t])

\* No two requests work on the same list.
ListsApart ==
    \A t, u \in Tasks : t # u /\ task[t].triggered = task[u].triggered => task[t].triggered = <<>>

\* An order does not trade with itself.
NotOwnMaker == pc # "idle" => \A i \in 1 .. Len(result) : result[i].maker # taker

RequestsSound ==
    /\ asked \in [OrderIds -> [user : Users, ord : EB!EngineOrder]]
    /\ \A t \in OrderIds : task[t].stage = "reserve" => Engine!WellFormed(asked[t].ord)

Stored ==
    /\ wallet \in [Wallets -> Balance] /\ committed \in [Wallets -> Balance]
    /\ holder \in [Wallets -> Tasks \cup {NoTask}]
    /\ rowLock \in [Rows -> [Tasks -> Unlocked .. ForUpdate]]
    /\ rows \in [OrderIds -> Row]
    /\ settled \in [OrderIds -> Nat] /\ fees \in Nat /\ made \in [Assets -> Nat]

EngineSound == EB!TypeInv /\ EB!EngineInv

TradingInv ==
    /\ EngineSound /\ TasksSound /\ OrdersKnown /\ ListsApart /\ NotOwnMaker
    /\ RequestsSound /\ Stored

-----------------------------------------------------------------------------
(* The engine and its lists.                                               *)

LEMMA EngineMoves ==
    ASSUME EngineSound, EB!Next \/ UNCHANGED EB!vars
    PROVE  EngineSound'
BY EngineAssumptions, EB!TypeStep, EB!EngineNext DEF EngineSound

LEMMA EngineStarts == EB!Init => EngineSound
BY EngineAssumptions, EB!TypeInit, EB!EngineInit DEF EngineSound

LEMMA ListsUnchanged ==
    ASSUME \A t \in Tasks : task'[t].triggered = task[t].triggered
    PROVE  /\ Lists' = Lists
           /\ ListsApart => ListsApart'
<1>1. Lists' = Lists
  BY DEF Lists
<1>2. ListsApart => ListsApart'
  BY DEF ListsApart
<1> QED
  BY <1>1, <1>2

\* Of two different lists in work none has an order of the other.
LEMMA ListsDisjoint ==
    ASSUME EngineSound, TasksSound, ListsApart, NEW t \in Tasks, NEW u \in Tasks, t # u,
           NEW o \in OrderIds, EB!Has(task[t].triggered, o)
    PROVE  ~EB!Has(task[u].triggered, o)
<1> SUFFICES ASSUME EB!Has(task[u].triggered, o) PROVE FALSE
  OBVIOUS
<1>1. task[t].triggered # <<>> /\ task[u].triggered # <<>>
  BY EngineAssumptions, EB!EmptyQueue
<1>2. task[t].triggered \in Lists /\ task[u].triggered \in Lists
  BY <1>1 DEF Lists
<1>3. task[t].triggered = task[u].triggered
  BY <1>2 DEF EngineSound, EB!EngineInv, EB!StopInv, EB!StopsApart
<1> QED
  BY <1>1, <1>3 DEF ListsApart

LEMMA ListGone ==
    ASSUME TasksSound, ListsApart, NEW t \in Tasks, task'[t].triggered = <<>>,
           \A u \in Tasks \ {t} : task'[u].triggered = task[u].triggered
    PROVE  Lists' = Lists \ {task[t].triggered} /\ ListsApart'
<1>1. ListsApart'
  BY DEF ListsApart
<1>2. \A u \in Tasks \ {t} : task[u].triggered = <<>> \/ task[u].triggered # task[t].triggered
  BY DEF ListsApart
<1>3. Lists' = {task'[u].triggered : u \in Tasks} \ {<<>>}
  BY DEF Lists
<1>4. ASSUME NEW x PROVE x \in Lists' <=> x \in Lists /\ x # task[t].triggered
  BY <1>2, <1>3 DEF Lists
<1> QED
  BY <1>1, <1>4

LEMMA ListPopped ==
    ASSUME EngineSound, TasksSound, ListsApart, NEW t \in Tasks, task[t].triggered # <<>>,
           task'[t].triggered = Tail(task[t].triggered),
           \A u \in Tasks \ {t} : task'[u].triggered = task[u].triggered
    PROVE  /\ Lists' = (Lists \ {task[t].triggered}) \cup EB!RestOf(task[t].triggered)
           /\ ListsApart' /\ task[t].triggered \in Lists
           /\ Head(task[t].triggered) \in OrderIds
<1> DEFINE batch == task[t].triggered
           rest  == Tail(batch)
<1>1. batch \in Seq(OrderIds)
  BY DEF TasksSound, TaskRecord
<1>2. batch \in Lists
  BY DEF Lists
<1>3. Head(batch) \in OrderIds /\ EB!Has(batch, Head(batch))
  BY <1>1, EngineAssumptions, EB!HeadOfQueue
<1>4. EB!Distinct(batch)
  BY <1>2 DEF EngineSound, EB!EngineInv, EB!StopInv, EB!StopsApart
<1>5. /\ rest \in Seq(OrderIds)
      /\ \A x : EB!Has(rest, x) <=> EB!Has(batch, x) /\ x # Head(batch)
  BY <1>1, <1>4, EngineAssumptions, EB!TailOfQueue
<1>6. EB!RestOf(batch) = {rest} \ {<<>>}
  <2>1. Len(batch) \in Nat \ {0} /\ Len(rest) = Len(batch) - 1
    BY <1>1, EmptySeq, HeadTailProperties
  <2> HIDE DEF rest, batch
  <2>2. (rest # <<>> => Len(rest) # 0) /\ (rest = <<>> => Len(rest) = 0)
    BY <1>5, EmptySeq
  <2>3. rest = <<>> <=> Len(batch) = 1
    BY <2>1, <2>2
  <2> QED
    BY <2>3, Zenon DEF EB!RestOf, rest, batch
<1>7. ASSUME NEW u \in Tasks \ {t}, rest # <<>> PROVE task[u].triggered # rest
  <2>1. Head(rest) \in OrderIds /\ EB!Has(rest, Head(rest))
    BY <1>5, <1>7, EngineAssumptions, EB!HeadOfQueue
  <2>2. EB!Has(batch, Head(rest))
    BY <1>5, <2>1
  <2> QED
    BY <2>1, <2>2, ListsDisjoint
<1>8. \A u \in Tasks \ {t} : task[u].triggered = <<>> \/ task[u].triggered # batch
  BY DEF ListsApart
<1>9. Lists' = {task'[u].triggered : u \in Tasks} \ {<<>>} /\ task'[t].triggered = rest
  BY DEF Lists
<1> HIDE DEF batch, rest
<1>10. ASSUME NEW x PROVE x \in Lists' <=> x \in (Lists \ {batch}) \cup ({rest} \ {<<>>})
  BY <1>8, <1>9 DEF Lists, batch
<1>11. ListsApart'
  BY <1>7, <1>9 DEF ListsApart
<1> QED
  BY <1>2, <1>3, <1>6, <1>10, <1>11 DEF batch

LEMMA ListTaken ==
    ASSUME EngineSound, TasksSound, ListsApart, NEW t \in Tasks, task[t].triggered = <<>>,
           pendingStops # <<>>, task'[t].triggered = pendingStops,
           \A u \in Tasks \ {t} : task'[u].triggered = task[u].triggered
    PROVE  Lists' = Lists \cup {pendingStops} /\ ListsApart'
<1>1. pendingStops \in Seq(OrderIds)
  BY DEF EngineSound, EB!TypeInv, EB!TypeOK
<1>2. Head(pendingStops) \in OrderIds /\ EB!Has(pendingStops, Head(pendingStops))
  BY <1>1, EngineAssumptions, EB!HeadOfQueue
<1>3. pendingStops \notin Lists
  BY <1>2 DEF EngineSound, EB!EngineInv, EB!StopInv, EB!StopsApart
<1>4. \A u \in Tasks \ {t} : task[u].triggered # pendingStops
  BY <1>3 DEF Lists
<1>5. ListsApart'
  BY <1>4 DEF ListsApart
<1>6. Lists' = {task'[u].triggered : u \in Tasks} \ {<<>>}
  BY DEF Lists
<1>7. ASSUME NEW x PROVE x \in Lists' <=> x \in Lists \cup {pendingStops}
  BY <1>6 DEF Lists
<1> QED
  BY <1>5, <1>7

-----------------------------------------------------------------------------
(* What a step of the engine does to orders and trades.                    *)

\* The status of an order after the loops.
LEMMA StatusCases ==
    ASSUME NEW ord, NEW st
    PROVE  EB!StatusAfterMatching(ord, st) \in {"FILLED", "PARTIALLY_FILLED", st}
BY DEF EB!StatusAfterMatching

LEMMA FinishStatus ==
    ASSUME EngineSound, EB!FinishLimit \/ EB!FinishMarket
    PROVE  /\ \A o \in OrderIds \ {taker} : order'[o] = order[o]
           /\ taker \in OrderIds /\ order[taker].status # "UNUSED"
           /\ order'[taker].status # "UNUSED"
<1>1. /\ taker \in OrderIds /\ order[taker] \in EB!EngineOrder
      /\ order \in [OrderIds -> EB!EngineOrder]
      /\ order[taker].status # "UNUSED"
  BY DEF EngineSound, EB!TypeInv, EB!TypeOK, EB!InCall, EB!EngineInv, EB!TakerInv, EB!Matching,
         EB!FinishLimit, EB!FinishMarket
<1>2. CASE EB!FinishLimit
  <2> DEFINE ord     == order[taker]
             status  == EB!StatusAfterMatching(ord, "OPEN")
             resting == IF ord.iceberg_peak > 0
                        THEN [ord EXCEPT !.status = status,
                                         !.quantity = ord.filled_quantity + EB!VisiblePart(ord),
                                         !.iceberg_base = EB!Remaining(ord) - EB!VisiblePart(ord)]
                        ELSE [ord EXCEPT !.status = status]
             last    == IF remaining > 0 /\ ord.filled_quantity = 0 THEN "CANCELLED" ELSE status
             dropped == [ord EXCEPT !.status = last]
  <2>1. status # "UNUSED" /\ last # "UNUSED"
    BY StatusCases
  <2>2. order' = [order EXCEPT ![taker] = resting] \/ order' = [order EXCEPT ![taker] = dropped]
    BY <1>2 DEF EB!FinishLimit
  <2> HIDE DEF status, last
  <2>3. resting.status # "UNUSED" /\ dropped.status # "UNUSED"
    BY <1>1, <2>1 DEF EB!EngineOrder
  <2> HIDE DEF resting, dropped
  <2> QED
    BY <1>1, <2>2, <2>3
<1>3. CASE EB!FinishMarket
  <2> DEFINE status == EB!StatusAfterMatching(order[taker], "CANCELLED")
  <2>1. status # "UNUSED"
    BY StatusCases
  <2>2. order' = [order EXCEPT ![taker].status = status]
    BY <1>3 DEF EB!FinishMarket
  <2> HIDE DEF status
  <2> QED
    BY <1>1, <2>1, <2>2 DEF EB!EngineOrder
<1> QED
  BY <1>2, <1>3

\* A turn of a loop is a trade with another order.
LEMMA LoopStep ==
    ASSUME EngineSound, EB!MatchLimit \/ EB!MatchMarket
    PROVE  \E maker \in OrderIds \ {taker}, p \in Prices, qty \in Nat :
             /\ taker \in OrderIds
             /\ \A o \in OrderIds \ {maker, taker} : order'[o] = order[o]
             /\ \A o \in {maker, taker} :
                  order[o].status # "UNUSED" /\ order'[o].status # "UNUSED"
             /\ taker' = taker /\ pc' = pc /\ pc # "idle"
             /\ result' = Append(result, [maker |-> maker, price |-> p, quantity |-> qty])
<1>1. EB!Matching /\ EB!TypeInv /\ EB!EngineInv
  BY EngineAssumptions, EB!LoopTrades DEF EngineSound
<1>2. PICK p \in Prices, qty \in Nat :
        p \in EB!Occupied(EB!Opposite(order[taker].side)) /\ EB!Trade(p, qty)
  BY <1>1, EngineAssumptions, EB!LoopTrades
<1> DEFINE side  == EB!Opposite(order[taker].side)
           maker == Head(levels[side][p])
<1>3. /\ side \in EB!Sides /\ taker \in OrderIds /\ maker \in OrderIds /\ maker # taker
      /\ EB!RestingOrder(order[maker], side, p)
      /\ order'[maker] = EB!Filled(order[maker], qty)
      /\ order'[taker] = EB!Filled(order[taker], qty)
      /\ \A o \in OrderIds \ {maker, taker} : order'[o] = order[o]
  BY <1>1, <1>2, EngineAssumptions, EB!TradeEffect
<1>4. /\ result' = Append(result, [maker |-> maker, price |-> p, quantity |-> qty])
      /\ taker' = taker /\ pc' = pc
  BY <1>2 DEF EB!Trade
<1>5. /\ order[maker].status # "UNUSED" /\ order[taker].status # "UNUSED"
      /\ pc # "idle"
  BY <1>1, <1>3 DEF EB!RestingOrder, EB!EngineInv, EB!TakerInv, EB!Matching
<1>6. ASSUME NEW o \in OrderIds, order[o].status # "UNUSED"
      PROVE  EB!Filled(order[o], qty).status # "UNUSED"
  BY <1>6 DEF EB!Filled, EngineSound, EB!TypeInv, EB!SoundOrders, EB!EngineOrder
<1> HIDE DEF maker, side
<1> QED
  BY <1>3, <1>4, <1>5, <1>6

LEMMA StepStatus ==
    ASSUME EngineSound, EB!EngineStep
    PROVE  \A o \in OrderIds : order'[o].status = "UNUSED" <=> order[o].status = "UNUSED"
<1>1. CASE EB!MatchLimit \/ EB!MatchMarket
  BY <1>1, LoopStep
<1>2. CASE EB!FinishLimit \/ EB!FinishMarket
  BY <1>2, FinishStatus
<1>3. CASE \E side \in EB!Sides, sp \in Prices : EB!FireStops(side, sp)
  BY <1>3 DEF EB!FireStops
<1>4. CASE EB!EndCall
  BY <1>4 DEF EB!EndCall
<1>5. CASE EB!DropMaker
  BY <1>5 DEF EB!DropMaker
<1> QED
  BY <1>1, <1>2, <1>3, <1>4, <1>5 DEF EB!EngineStep

LEMMA StepTrades ==
    ASSUME EngineSound, NotOwnMaker, EB!EngineStep
    PROVE  NotOwnMaker' /\ pc # "idle"
<1>1. CASE EB!MatchLimit \/ EB!MatchMarket
  <2>1. PICK maker \in OrderIds \ {taker}, p \in Prices, qty \in Nat :
          /\ taker' = taker /\ pc' = pc /\ pc # "idle"
          /\ result' = Append(result, [maker |-> maker, price |-> p, quantity |-> qty])
    BY <1>1, LoopStep
  <2>2. result \in Seq(EB!TradeType)
    BY DEF EngineSound, EB!TypeInv, EB!TypeOK
  <2>3. /\ Len(result') = Len(result) + 1 /\ Len(result) \in Nat
        /\ \A i \in 1 .. Len(result) : result'[i] = result[i]
        /\ result'[Len(result) + 1].maker = maker
    <3> DEFINE x == [maker |-> maker, price |-> p, quantity |-> qty]
    <3>1. x.maker = maker /\ x \in EB!TradeType
      BY DEF EB!TradeType
    <3> HIDE DEF x
    <3> QED
      BY <2>1, <2>2, <3>1, AppendProperties DEF x
  <2> QED
    BY <2>1, <2>3 DEF NotOwnMaker
<1>2. CASE EB!FinishLimit \/ EB!FinishMarket
  BY <1>2 DEF EB!FinishLimit, EB!FinishMarket, NotOwnMaker
<1>3. CASE \E side \in EB!Sides, sp \in Prices : EB!FireStops(side, sp)
  BY <1>3 DEF EB!FireStops, EB!callVars, NotOwnMaker
<1>4. CASE EB!EndCall
  BY <1>4 DEF EB!EndCall, NotOwnMaker
<1>5. CASE EB!DropMaker
  BY <1>5 DEF EB!DropMaker, EB!callVars, NotOwnMaker
<1> QED
  BY <1>1, <1>2, <1>3, <1>4, <1>5 DEF EB!EngineStep

-----------------------------------------------------------------------------
(* One task changes: what follows for the others.                          *)

LEMMA TaskChanges ==
    ASSUME TasksSound, OrdersKnown, NEW t \in Tasks, NEW k, SoundTask(t, k),
           task' = [task EXCEPT ![t] = k],
           t \in OrderIds /\ k.stage \in {"ready", "reserve"} => order'[t].status = "UNUSED",
           k.stage = "insert" => order'[k.cur].status # "UNUSED",
           \A o \in OrderIds : order[o].status # "UNUSED" => order'[o].status # "UNUSED",
           \A o \in OrderIds \ {t} : order[o].status = "UNUSED" => order'[o].status = "UNUSED"
    PROVE  /\ TasksSound' /\ OrdersKnown' /\ task'[t] = k
           /\ \A u \in Tasks \ {t} : task'[u] = task[u]
<1>1. task'[t] = k /\ \A u \in Tasks \ {t} : task'[u] = task[u]
  BY DEF TasksSound
<1>2. k \in TaskRecord
  BY DEF SoundTask
<1>3. TasksSound'
  BY <1>1, <1>2 DEF TasksSound
<1>4. ASSUME NEW u \in Tasks \ {t} PROVE Known(u, task[u])'
  <2>1. Known(u, task[u]) /\ task'[u] = task[u]
    BY <1>1 DEF OrdersKnown
  <2>2. task[u].stage = "insert" => task[u].cur \in OrderIds
    BY DEF TasksSound, SoundTask, StageFacts, Clean
  <2> QED
    BY <2>1, <2>2 DEF Known
<1>5. Known(t, task[t])'
  BY <1>1 DEF Known
<1>6. OrdersKnown'
  BY <1>4, <1>5 DEF OrdersKnown
<1> QED
  BY <1>1, <1>3, <1>6

\* Steps that leave the engine, the requests and every list alone.
LEMMA QuietStep ==
    ASSUME TradingInv, NEW t \in Tasks, NEW k, SoundTask(t, k), task' = [task EXCEPT ![t] = k],
           k.triggered = task[t].triggered, k.stage \notin {"ready", "reserve", "insert"},
           UNCHANGED <<engineVars, asked>>, Stored'
    PROVE  TradingInv'
<1>1. /\ TasksSound' /\ OrdersKnown' /\ task'[t] = k
      /\ \A u \in Tasks \ {t} : task'[u] = task[u]
  BY TaskChanges DEF TradingInv, engineVars
<1>2. \A u \in Tasks : task'[u].triggered = task[u].triggered
  BY <1>1
<1>3. Lists' = Lists /\ ListsApart'
  BY <1>2, ListsUnchanged DEF TradingInv
<1>4. UNCHANGED EB!vars
  BY <1>3 DEF engineVars, EB!vars, EB!bookVars, EB!stopVars, EB!callVars
<1>5. EngineSound'
  BY <1>4, EngineMoves DEF TradingInv
<1>6. NotOwnMaker'
  BY DEF TradingInv, NotOwnMaker, engineVars
<1>7. RequestsSound'
  <2>1. \A u \in OrderIds : task'[u].stage = "reserve" => task[u].stage = "reserve"
    BY <1>1 DEF Tasks
  <2> QED
    BY <2>1 DEF TradingInv, RequestsSound
<1> QED
  BY <1>1, <1>3, <1>5, <1>6, <1>7 DEF TradingInv

LEMMA EndedRecord ==
    ASSUME NEW st \in Stages
    PROVE  LET k == Ended(st) IN
           /\ k \in TaskRecord /\ k.stage = st /\ k.triggered = <<>> /\ k.trades = <<>>
           /\ k.cur = NoOrder /\ k.fees = 0 /\ k.made = [a \in Assets |-> 0]
<1> DEFINE d == [o \in OrderIds |-> NoRow]
           n == [o \in OrderIds |-> 0]
           z == [a \in Assets |-> 0]
           k == Ended(st)
<1>1. <<>> \in Seq(EB!TradeType) /\ <<>> \in Seq(OrderIds)
  BY EmptySeq
<1>2. NoRow \in Row
  BY DEF NoRow, Row
<1>3. d \in [OrderIds -> Row] /\ n \in [OrderIds -> Nat] /\ z \in [Assets -> Nat]
  BY <1>2
<1>4. k = [ stage |-> st, cur |-> NoOrder, trades |-> <<>>, triggered |-> <<>>, draft |-> d,
            seen |-> NoRow, settled |-> n, fees |-> 0, made |-> z, spent |-> 0 ]
  BY DEF Ended, Fresh
<1> HIDE DEF d, n, z, k
<1>5. /\ k.stage = st /\ k.triggered = <<>> /\ k.trades = <<>>
      /\ k.cur = NoOrder /\ k.fees = 0 /\ k.made = z
  BY <1>4
<1>6. k \in TaskRecord
  BY <1>1, <1>2, <1>3, <1>4 DEF TaskRecord
<1> QED
  BY <1>5, <1>6 DEF k, z

\* A request that ends drops the list it works on.
LEMMA EndStep ==
    ASSUME TradingInv, NEW t \in Tasks, NEW st \in {"done", "failed"}, pc = "idle",
           task' = [task EXCEPT ![t] = Ended(st)], UNCHANGED <<engineVars, asked>>, Stored'
    PROVE  TradingInv'
<1> DEFINE k == Ended(st)
<1>1. k \in TaskRecord /\ k.stage = st /\ k.triggered = <<>> /\ k.trades = <<>>
  BY EndedRecord DEF Stages
<1>2. SoundTask(t, k)
  <2>1. k = Ended(k.stage) /\ Len(k.trades) = 0
    BY <1>1, EmptySeq
  <2> QED
    BY <1>1, <2>1 DEF SoundTask, StageFacts, Clean
<1> HIDE DEF k
<1>3. /\ TasksSound' /\ OrdersKnown' /\ task'[t] = k
      /\ \A u \in Tasks \ {t} : task'[u] = task[u]
  <2>1. task' = [task EXCEPT ![t] = k]
    BY DEF k
  <2> QED
    BY <1>1, <1>2, <2>1, TaskChanges DEF TradingInv, engineVars
<1>4. EngineSound' /\ ListsApart'
  <2>1. CASE task[t].triggered = <<>>
    <3>1. \A u \in Tasks : task'[u].triggered = task[u].triggered
      BY <1>1, <1>3, <2>1
    <3>2. Lists' = Lists /\ ListsApart'
      BY <3>1, ListsUnchanged DEF TradingInv
    <3>3. UNCHANGED EB!vars
      BY <3>2 DEF engineVars, EB!vars, EB!bookVars, EB!stopVars, EB!callVars
    <3> QED
      BY <3>2, <3>3, EngineMoves DEF TradingInv
  <2>2. CASE task[t].triggered # <<>>
    <3>1. Lists' = Lists \ {task[t].triggered} /\ ListsApart'
      BY <1>1, <1>3, ListGone DEF TradingInv
    <3>2. task[t].triggered \in Lists
      BY <2>2 DEF Lists
    <3>3. EB!LoseBatch(task[t].triggered)
      BY <3>1 DEF EB!LoseBatch, engineVars, EB!bookVars, EB!callVars
    <3>4. EB!Next
      BY <3>2, <3>3 DEF EB!Next, EB!CallerStep
    <3> QED
      BY <3>1, <3>4, EngineMoves DEF TradingInv
  <2> QED
    BY <2>1, <2>2
<1>5. NotOwnMaker'
  BY DEF TradingInv, NotOwnMaker, engineVars
<1>6. RequestsSound'
  <2>1. \A u \in OrderIds : task'[u].stage = "reserve" => task[u].stage = "reserve"
    BY <1>1, <1>3 DEF Tasks
  <2> QED
    BY <2>1 DEF TradingInv, RequestsSound
<1> QED
  BY <1>3, <1>4, <1>5, <1>6 DEF TradingInv

-----------------------------------------------------------------------------
(* Locks and amounts.                                                      *)

LEMMA LockRowType ==
    ASSUME Stored, NEW t \in Tasks, NEW row \in Rows, NEW mode \in {KeyShare, NoKeyUpdate, ForUpdate},
           LockRow(t, row, mode)
    PROVE  rowLock' \in [Rows -> [Tasks -> Unlocked .. ForUpdate]]
BY DEF Stored, LockRow, Unlocked, KeyShare, NoKeyUpdate, ForUpdate

LEMMA UnlockType ==
    ASSUME Stored, NEW t \in Tasks, Unlock(t)
    PROVE  /\ holder' \in [Wallets -> Tasks \cup {NoTask}]
           /\ rowLock' \in [Rows -> [Tasks -> Unlocked .. ForUpdate]]
BY DEF Stored, Unlock, Unlocked, ForUpdate

LEMMA MoneyWallets == \A u \in Users, a \in Assets : <<u, a>> \in Wallets
BY DEF Wallets

LEMMA SpendsWallet ==
    ASSUME RequestsSound, NEW o \in OrderIds
    PROVE  Spends(o) \in Wallets
BY MoneyWallets DEF RequestsSound, Spends, Assets

\* The first trade of a task.
LEMMA FirstTrade ==
    ASSUME TasksSound, NEW t \in Tasks, task[t].trades # <<>>
    PROVE  /\ Head(task[t].trades) \in EB!TradeType
           /\ Head(task[t].trades).maker # task[t].cur
           /\ Head(task[t].trades).maker \in OrderIds
           /\ Tail(task[t].trades) \in Seq(EB!TradeType)
           /\ \A i \in 1 .. Len(Tail(task[t].trades)) :
                Tail(task[t].trades)[i].maker # task[t].cur
<1> DEFINE trades == task[t].trades
<1>1. /\ trades \in Seq(EB!TradeType) /\ trades # <<>>
      /\ \A i \in 1 .. Len(trades) : trades[i].maker # task[t].cur
  BY DEF TasksSound, TaskRecord, SoundTask, StageFacts
<1> HIDE DEF trades
<1>2. /\ Len(trades) \in Nat \ {0} /\ Head(trades) = trades[1] /\ Tail(trades) \in Seq(EB!TradeType)
      /\ Len(Tail(trades)) = Len(trades) - 1
      /\ \A i \in 1 .. Len(Tail(trades)) : Tail(trades)[i] = trades[i + 1]
  BY <1>1, EmptySeq, HeadTailProperties
<1>3. trades[1] \in EB!TradeType
  BY <1>1, <1>2, ElementOfSeq
<1> QED
  BY <1>1, <1>2, <1>3 DEF EB!TradeType, trades

LEMMA AmountsNat ==
    ASSUME NEW trade \in EB!TradeType, NEW tk
    PROVE  /\ trade.price \in Nat /\ trade.quantity \in Nat
           /\ trade.price * trade.quantity \in Nat
           /\ BuyerDebit(trade, tk) \in Nat /\ SellerCredit(trade, tk) \in Nat
           /\ trade.price * trade.quantity * (TakerFee + MakerFee) \in Nat
<1> DEFINE notional == trade.price * trade.quantity
<1>1. trade.price \in Nat /\ trade.quantity \in Nat
  BY MarketAssumption DEF EB!TradeType
<1>2. notional \in Nat
  BY <1>1, EngineAssumptions, EB!ProductNat
<1>3. \A o : Unit + FeeOf(o, tk) \in Nat /\ Unit - FeeOf(o, tk) \in Nat
  BY FeesAssumption DEF FeeOf
<1>4. TakerFee + MakerFee \in Nat
  BY FeesAssumption
<1> HIDE DEF notional
<1>5. /\ \A o : notional * (Unit + FeeOf(o, tk)) \in Nat /\ notional * (Unit - FeeOf(o, tk)) \in Nat
      /\ notional * (TakerFee + MakerFee) \in Nat
  BY <1>2, <1>3, <1>4, EngineAssumptions, EB!ProductNat
<1> QED
  BY <1>1, <1>2, <1>5 DEF BuyerDebit, SellerCredit, notional

\* What the fees of a trade are: what the buyer pays and the seller does not get.
LEMMA FeesOfTrade ==
    ASSUME NEW trade \in EB!TradeType, NEW tk, trade.maker # tk
    PROVE  BuyerDebit(trade, tk) - SellerCredit(trade, tk)
             = trade.price * trade.quantity * (TakerFee + MakerFee)
<1> DEFINE notional == trade.price * trade.quantity
           b == FeeOf(Buyer(trade, tk), tk)
           s == FeeOf(Seller(trade, tk), tk)
<1>1. notional \in Nat
  BY AmountsNat
<1>2. b + s = TakerFee + MakerFee /\ b \in Nat /\ s \in Nat /\ Unit \in Nat
  BY FeesAssumption DEF FeeOf, Buyer, Seller
<1> HIDE DEF notional, b, s
<1>3. notional * (Unit + b) - notional * (Unit - s) = notional * (b + s)
  BY <1>1, <1>2
<1> QED
  BY <1>2, <1>3, Zenon DEF BuyerDebit, SellerCredit, notional, b, s

\* One balance of one wallet changes.
WithLocked(f, w, v)    == [f EXCEPT ![w].locked = v]
WithAvailable(f, w, v) == [f EXCEPT ![w].available = v]

LEMMA BalanceChange ==
    ASSUME NEW f \in [Wallets -> Balance], NEW w \in Wallets, NEW v \in Nat
    PROVE  /\ WithLocked(f, w, v) \in [Wallets -> Balance]
           /\ WithAvailable(f, w, v) \in [Wallets -> Balance]
           /\ \A x \in Wallets :
                /\ WithLocked(f, w, v)[x].locked = IF x = w THEN v ELSE f[x].locked
                /\ WithLocked(f, w, v)[x].available = f[x].available
                /\ WithAvailable(f, w, v)[x].available = IF x = w THEN v ELSE f[x].available
                /\ WithAvailable(f, w, v)[x].locked = f[x].locked
BY DEF Balance, WithLocked, WithAvailable

\* A settlement takes no more than is locked and no more than is due.
LEMMA TakenNat ==
    ASSUME TradingInv, NEW trade \in EB!TradeType, NEW tk \in OrderIds, NEW a \in Assets
    PROVE  /\ Taken(trade, tk, a) \in Nat /\ TradeNeed(trade, tk, a) \in Nat
           /\ LockedFor(trade, tk, a) >= Taken(trade, tk, a)
           /\ TradeNeed(trade, tk, a) - Taken(trade, tk, a) \in Nat
<1> DEFINE need == TradeNeed(trade, tk, a)
           has  == LockedFor(trade, tk, a)
<1>1. need \in Nat
  BY AmountsNat DEF TradeNeed
<1>2. has \in Nat
  <2> DEFINE o == Payer(trade, tk, a)
  <2>1. o \in OrderIds
    BY DEF Payer, Buyer, Seller, EB!TradeType
  <2>2. asked[o].user \in Users
    BY <2>1 DEF TradingInv, RequestsSound
  <2> HIDE DEF o
  <2>3. wallet[<<asked[o].user, a>>] \in Balance
    BY <2>2, MoneyWallets DEF TradingInv, Stored
  <2> QED
    BY <2>3 DEF LockedFor, Balance, o
<1>3. Taken(trade, tk, a) = IF need <= has THEN need ELSE has
  BY DEF Taken, Engine!Lesser
<1> HIDE DEF need, has
<1> QED
  BY <1>1, <1>2, <1>3 DEF need, has

\* What a settlement does to the wallets.
LEMMA TransferEffect ==
    ASSUME TradingInv, NEW t \in Tasks, Transfer(t)
    PROVE  LET trade == Head(task[t].trades)
               tk    == task[t].cur
               b     == asked[Buyer(trade, tk)].user
               s     == asked[Seller(trade, tk)].user
           IN
           /\ trade \in EB!TradeType /\ tk \in OrderIds /\ trade.maker # tk
           /\ b \in Users /\ s \in Users
           /\ holder[<<b, "quote">>] = t /\ holder[<<b, "base">>] = t
           /\ holder[<<s, "quote">>] = t /\ holder[<<s, "base">>] = t
           /\ wallet' \in [Wallets -> Balance]
           /\ \A u \in Users :
                /\ wallet'[<<u, "base">>].available =
                     wallet[<<u, "base">>].available + (IF u = b THEN trade.quantity ELSE 0)
                /\ wallet'[<<u, "base">>].locked =
                     wallet[<<u, "base">>].locked
                       - (IF u = s THEN Taken(trade, tk, "base") ELSE 0)
                /\ wallet'[<<u, "quote">>].available =
                     wallet[<<u, "quote">>].available + (IF u = s THEN SellerCredit(trade, tk) ELSE 0)
                /\ wallet'[<<u, "quote">>].locked =
                     wallet[<<u, "quote">>].locked
                       - (IF u = b THEN Taken(trade, tk, "quote") ELSE 0)
<1> DEFINE trade  == Head(task[t].trades)
           tk     == task[t].cur
           b      == asked[Buyer(trade, tk)].user
           s      == asked[Seller(trade, tk)].user
           debit  == Taken(trade, tk, "quote")
           given  == Taken(trade, tk, "base")
           credit == SellerCredit(trade, tk)
           qty    == trade.quantity
           w      == SettleOrder(trade, tk)
<1>1. task[t].stage = "settle" /\ task[t].trades # <<>> /\ tk \in OrderIds
  BY DEF Transfer, At, TradingInv, TasksSound, SoundTask, StageFacts, Clean
<1>2. trade \in EB!TradeType /\ trade.maker # tk /\ trade.maker \in OrderIds
  BY <1>1, FirstTrade DEF TradingInv
<1>3. credit \in Nat /\ qty \in Nat
  BY <1>2, AmountsNat
<1>4. b \in Users /\ s \in Users
  BY <1>1, <1>2 DEF Buyer, Seller, TradingInv, RequestsSound
<1>5. w[1] = <<b, "quote">> /\ w[2] = <<b, "base">> /\ w[3] = <<s, "base">> /\ w[4] = <<s, "quote">>
  BY DEF SettleOrder
<1>6. holder[w[1]] = t /\ holder[w[2]] = t /\ holder[w[3]] = t /\ holder[w[4]] = t
  <2>1. AllLocked(t)
    BY DEF Transfer
  <2> HIDE DEF trade, tk
  <2>2. \A i \in 1 .. 4 : holder[w[i]] = t
    BY <2>1 DEF AllLocked, trade, tk
  <2> QED
    BY <2>2
<1> DEFINE B  == <<b, "quote">>
           C  == <<b, "base">>
           S  == <<s, "base">>
           D  == <<s, "quote">>
           f1 == WithLocked(wallet, B, wallet[B].locked - debit)
           f2 == WithAvailable(f1, C, wallet[C].available + qty)
           f3 == WithLocked(f2, S, wallet[S].locked - given)
           f4 == WithAvailable(f3, D, wallet[D].available + credit)
<1>7. /\ holder[B] = t /\ holder[C] = t /\ holder[S] = t /\ holder[D] = t
      /\ debit \in Nat /\ given \in Nat
      /\ wallet[B].locked >= debit /\ wallet[S].locked >= given
  <2>1. B \in Wallets /\ S \in Wallets /\ "base" \in Assets /\ "quote" \in Assets
    BY <1>4, MoneyWallets DEF Assets
  <2>2. \A a \in Assets : /\ Taken(trade, tk, a) \in Nat
                          /\ LockedFor(trade, tk, a) >= Taken(trade, tk, a)
    BY <1>1, <1>2, TakenNat
  <2>3. LockedFor(trade, tk, "quote") = wallet[B].locked
        /\ LockedFor(trade, tk, "base") = wallet[S].locked
    BY DEF LockedFor, Payer
  <2> HIDE DEF B, S
  <2> QED
    BY <1>5, <1>6, <2>1, <2>2, <2>3 DEF B, S
<1>8. wallet' = f4
  BY DEF Transfer, SettleOrder, WithLocked, WithAvailable
<1> HIDE DEF w, debit, given, credit, qty, trade, tk, b, s
<1>9. wallet \in [Wallets -> Balance]
  BY DEF TradingInv, Stored
<1>10. /\ B \in Wallets /\ C \in Wallets /\ S \in Wallets /\ D \in Wallets
       /\ \A u \in Users : /\ <<u, "base">> \in Wallets /\ <<u, "quote">> \in Wallets
                           /\ <<u, "base">> = C <=> u = b
                           /\ <<u, "quote">> = B <=> u = b
                           /\ <<u, "base">> = S <=> u = s
                           /\ <<u, "quote">> = D <=> u = s
                           /\ <<u, "base">> \notin {B, D} /\ <<u, "quote">> \notin {C, S}
  BY <1>4, MoneyWallets DEF Assets
<1> HIDE DEF B, C, S, D
<1>11. \A x \in Wallets : wallet[x].locked \in Nat /\ wallet[x].available \in Nat
  BY <1>9 DEF Balance
<1>12. /\ f1 \in [Wallets -> Balance]
       /\ \A x \in Wallets :
            /\ f1[x].locked = IF x = B THEN wallet[B].locked - debit ELSE wallet[x].locked
            /\ f1[x].available = wallet[x].available
  <2>1. wallet[B].locked - debit \in Nat
    BY <1>3, <1>7, <1>10, <1>11
  <2> QED
    BY <1>9, <1>10, <2>1, BalanceChange
<1> HIDE DEF f1
<1>13. /\ f2 \in [Wallets -> Balance]
       /\ \A x \in Wallets :
            /\ f2[x].locked = f1[x].locked
            /\ f2[x].available =
                 IF x = C THEN wallet[C].available + qty ELSE wallet[x].available
  <2>1. wallet[C].available + qty \in Nat
    BY <1>3, <1>10, <1>11
  <2> QED
    BY <1>10, <1>12, <2>1, BalanceChange
<1> HIDE DEF f2
<1>14. /\ f3 \in [Wallets -> Balance]
       /\ \A x \in Wallets :
            /\ f3[x].locked = IF x = S THEN wallet[S].locked - given ELSE f1[x].locked
            /\ f3[x].available = f2[x].available
  <2>1. wallet[S].locked - given \in Nat
    BY <1>3, <1>7, <1>10, <1>11
  <2> QED
    BY <1>10, <1>13, <2>1, BalanceChange
<1> HIDE DEF f3
<1>15. /\ f4 \in [Wallets -> Balance]
       /\ \A x \in Wallets :
            /\ f4[x].locked = f3[x].locked
            /\ f4[x].available =
                 IF x = D THEN wallet[D].available + credit ELSE f2[x].available
  <2>1. wallet[D].available + credit \in Nat
    BY <1>3, <1>10, <1>11
  <2> QED
    BY <1>10, <1>14, <2>1, BalanceChange
<1> HIDE DEF f4
<1>16. ASSUME NEW u \in Users
       PROVE  LET x == <<u, "base">>  y == <<u, "quote">> IN
              /\ wallet'[x].available = wallet[x].available + (IF u = b THEN qty ELSE 0)
              /\ wallet'[x].locked = wallet[x].locked - (IF u = s THEN given ELSE 0)
              /\ wallet'[y].available = wallet[y].available + (IF u = s THEN credit ELSE 0)
              /\ wallet'[y].locked = wallet[y].locked - (IF u = b THEN debit ELSE 0)
  <2> DEFINE x == <<u, "base">>
             y == <<u, "quote">>
  <2>1. /\ x \in Wallets /\ y \in Wallets
        /\ x = C <=> u = b
        /\ y = B <=> u = b
        /\ x = S <=> u = s
        /\ y = D <=> u = s
        /\ x # B /\ x # D /\ y # C /\ y # S
    BY <1>10
  <2> HIDE DEF x, y
  <2>2. /\ wallet'[x].available = wallet[x].available + (IF u = b THEN qty ELSE 0)
        /\ wallet'[x].locked = wallet[x].locked - (IF u = s THEN given ELSE 0)
    BY <1>3, <1>7, <1>8, <1>11, <1>12, <1>13, <1>14, <1>15, <2>1
  <2>3. /\ wallet'[y].available = wallet[y].available + (IF u = s THEN credit ELSE 0)
        /\ wallet'[y].locked = wallet[y].locked - (IF u = b THEN debit ELSE 0)
    BY <1>3, <1>7, <1>8, <1>11, <1>12, <1>13, <1>14, <1>15, <2>1
  <2> QED
    BY <2>2, <2>3 DEF x, y
<1> QED
  BY <1>1, <1>2, <1>4, <1>7, <1>8, <1>15, <1>16 DEF B, C, S, D, debit, given, credit, qty, trade, tk,
     b, s

-----------------------------------------------------------------------------
(* The steps that leave the engine alone.                                  *)

LEMMA BeginKeeps ==
    ASSUME TradingInv, NEW t \in OrderIds, NEW req \in RequestsOf[t], Begin(t, req)
    PROVE  TradingInv'
<1> DEFINE k == [task[t] EXCEPT !.stage = "reserve"]
<1>1. t \in Tasks /\ task[t].stage = "ready" /\ task' = [task EXCEPT ![t] = k]
  BY DEF Begin, At, Tasks
<1>2. task[t] \in TaskRecord /\ task[t] = Ended("ready")
  BY <1>1 DEF TradingInv, TasksSound, SoundTask, StageFacts, Clean
<1>3. k = Ended("reserve") /\ k.stage = "reserve" /\ k.triggered = task[t].triggered
      /\ k.trades = <<>>
  BY <1>2 DEF Ended, Fresh
<1>4. k \in TaskRecord
  BY <1>2 DEF TaskRecord, Stages
<1>5. t \notin CancelIds
  BY TaskAssumption
<1>6. SoundTask(t, k)
  <2>1. Len(k.trades) = 0
    BY <1>3, EmptySeq
  <2> HIDE DEF k
  <2> QED
    BY <1>3, <1>4, <1>5, <2>1 DEF SoundTask, StageFacts, Clean
<1>7. order[t].status = "UNUSED" /\ UNCHANGED engineVars
  BY <1>1 DEF TradingInv, OrdersKnown, Known, Begin
<1> HIDE DEF k
<1>8. /\ TasksSound' /\ OrdersKnown' /\ task'[t] = k
      /\ \A u \in Tasks \ {t} : task'[u] = task[u]
  BY <1>1, <1>3, <1>6, <1>7, TaskChanges DEF TradingInv, engineVars
<1>9. \A u \in Tasks : task'[u].triggered = task[u].triggered
  BY <1>3, <1>8
<1>10. Lists' = Lists /\ ListsApart'
  BY <1>9, ListsUnchanged DEF TradingInv
<1>11. UNCHANGED EB!vars
  BY <1>7, <1>10 DEF engineVars, EB!vars, EB!bookVars, EB!stopVars, EB!callVars
<1>12. EngineSound'
  BY <1>11, EngineMoves DEF TradingInv
<1>13. NotOwnMaker' /\ Stored'
  BY DEF TradingInv, NotOwnMaker, Stored, Begin, engineVars, lockVars, dbVars, tradeVars
<1>14. RequestsSound'
  <2>1. req \in [user : Users, ord : EB!EngineOrder] /\ Engine!WellFormed(req.ord)
    BY RequestsAssumption, SameTypes
  <2>2. asked' = [asked EXCEPT ![t] = req]
    BY DEF Begin
  <2>3. \A u \in OrderIds \ {t} : task'[u] = task[u]
    BY <1>8 DEF Tasks
  <2> QED
    BY <2>1, <2>2, <2>3 DEF TradingInv, RequestsSound
<1> QED
  BY <1>8, <1>10, <1>12, <1>13, <1>14 DEF TradingInv

LEMMA RefuseKeeps ==
    ASSUME TradingInv, NEW t \in Tasks, Refuse(t)
    PROVE  TradingInv'
<1>1. Stored'
  BY DEF TradingInv, Stored, Refuse, lockVars, dbVars, tradeVars
<1> QED
  BY <1>1, EndStep DEF Refuse, At

LEMMA AbortKeeps ==
    ASSUME TradingInv, NEW t \in Tasks, pc = "idle", Abort(t)
    PROVE  TradingInv'
<1>1. Stored'
  BY UnlockType DEF TradingInv, Stored, Abort, dbVars, tradeVars
<1> QED
  BY <1>1, EndStep DEF Abort

LEMMA CommitKeeps ==
    ASSUME TradingInv, NEW t \in Tasks, Commit(t)
    PROVE  TradingInv'
<1>1. task[t].settled \in [OrderIds -> Nat] /\ task[t].fees \in Nat
      /\ task[t].made \in [Assets -> Nat] /\ \A o \in OrderIds : task[t].draft[o] \in Row
  BY DEF TradingInv, TasksSound, TaskRecord
<1>2. /\ rows' \in [OrderIds -> Row] /\ committed' \in [Wallets -> Balance]
      /\ settled' \in [OrderIds -> Nat] /\ fees' \in Nat /\ made' \in [Assets -> Nat]
  BY <1>1 DEF TradingInv, Stored, Commit, Visible
<1>3. Stored'
  BY <1>2, UnlockType DEF TradingInv, Stored, Commit
<1> QED
  BY <1>3, EndStep DEF Commit, At

LEMMA LockWalletKeeps ==
    ASSUME TradingInv, NEW t \in Tasks, LockWallet(t)
    PROVE  TradingInv'
<1>1. Stored'
  BY DEF TradingInv, Stored, LockWallet, dbVars, tradeVars
<1>2. UNCHANGED EB!vars
  BY DEF LockWallet, Lists, engineVars, EB!vars, EB!bookVars, EB!stopVars, EB!callVars
<1>3. EngineSound'
  BY <1>2, EngineMoves DEF TradingInv
<1>4. TasksSound' /\ ListsApart' /\ NotOwnMaker' /\ RequestsSound'
  BY DEF TradingInv, LockWallet, TasksSound, ListsApart, NotOwnMaker, RequestsSound, engineVars
<1>5. OrdersKnown'
  BY DEF TradingInv, LockWallet, OrdersKnown, Known, engineVars
<1> QED
  BY <1>1, <1>3, <1>4, <1>5 DEF TradingInv

\* Another stage and other fields than the trades, the list and what is settled.
LEMMA NextStage ==
    ASSUME TasksSound, NEW t \in Tasks, task[t].stage \notin Clean,
           NEW k \in TaskRecord, k.stage \in Stages \ Clean, k.cur = task[t].cur,
           k.trades = task[t].trades, k.triggered = task[t].triggered,
           k.stage \in {"settle", "flush", "write"} => task[t].trades # <<>>,
           k.stage \in {"trigger", "fire"} => task[t].triggered # <<>>,
           k.stage = "stops" => task[t].triggered = <<>>,
           t \in CancelIds => k.stage \in {"pair", "release", "commit"}
    PROVE  SoundTask(t, k)
BY DEF TasksSound, SoundTask, StageFacts

LEMMA TaskFields ==
    ASSUME TasksSound, NEW t \in Tasks
    PROVE  /\ task[t] \in TaskRecord /\ task[t].draft \in [OrderIds -> Row] /\ task[t].seen \in Row
           /\ task[t].cur \in OrderIds \cup {NoOrder}
           /\ task[t].settled \in [OrderIds -> Nat] /\ task[t].fees \in Nat
           /\ task[t].made \in [Assets -> Nat]
           /\ task[t].triggered \in Seq(OrderIds) /\ task[t].trades \in Seq(EB!TradeType)
BY DEF TasksSound, TaskRecord

LEMMA VisibleRow ==
    ASSUME TasksSound, Stored, NEW t \in Tasks, NEW o \in OrderIds
    PROVE  Visible(t, o) \in Row
BY TaskFields DEF Stored, Visible

LEMMA TransferKeeps ==
    ASSUME TradingInv, NEW t \in Tasks, Transfer(t)
    PROVE  TradingInv'
<1> DEFINE trade == Head(task[t].trades)
           tk    == task[t].cur
           fee   == trade.price * trade.quantity * (TakerFee + MakerFee)
           moved == SettledWith(task[t].settled, trade, tk)
           more  == [a \in Assets |-> task[t].made[a] + TradeNeed(trade, tk, a) - Taken(trade, tk, a)]
           k     == [task[t] EXCEPT !.stage = "flush", !.fees = @ + fee, !.made = more,
                                    !.settled = moved]
<1>1. /\ trade \in EB!TradeType /\ tk \in OrderIds /\ trade.maker # tk
      /\ wallet' \in [Wallets -> Balance]
  BY TransferEffect
<1>2. fee \in Nat /\ trade.quantity \in Nat /\ trade.maker \in OrderIds
  BY <1>1, AmountsNat DEF EB!TradeType
<1>3. /\ task[t].settled \in [OrderIds -> Nat] /\ task[t].fees \in Nat
      /\ task[t].made \in [Assets -> Nat] /\ task[t] \in TaskRecord
  BY TaskFields DEF TradingInv
<1>4. task' = [task EXCEPT ![t].stage = "flush",
                            ![t].fees = @ + fee,
                            ![t].made = [a \in Assets |-> @[a] + TradeNeed(trade, tk, a)
                                                              - Taken(trade, tk, a)],
                            ![t].settled = SettledWith(@, trade, tk)]
  BY Zenon DEF Transfer
<1>14. more \in [Assets -> Nat]
  <2>1. \A a \in Assets : /\ Taken(trade, tk, a) \in Nat /\ TradeNeed(trade, tk, a) \in Nat
                          /\ TradeNeed(trade, tk, a) - Taken(trade, tk, a) \in Nat
    BY <1>1, TakenNat
  <2> HIDE DEF trade, tk
  <2>2. \A a \in Assets : task[t].made[a] + TradeNeed(trade, tk, a) - Taken(trade, tk, a) \in Nat
    BY <1>3, <2>1
  <2> QED
    BY <2>2
<1> HIDE DEF fee, trade, tk
<1>5. task' = [task EXCEPT ![t] = k]
  BY <1>3, <1>4 DEF TradingInv, TasksSound, TaskRecord
<1>6. moved \in [OrderIds -> Nat] /\ task[t].fees + fee \in Nat
  BY <1>1, <1>2, <1>3 DEF SettledWith
<1> HIDE DEF moved, more
<1>7. "flush" \in Stages
  BY DEF Stages
<1>8. /\ k \in TaskRecord /\ k.stage = "flush" /\ k.triggered = task[t].triggered
      /\ k.cur = task[t].cur /\ k.trades = task[t].trades
  BY <1>3, <1>6, <1>7, <1>14 DEF TaskRecord
<1> HIDE DEF k
<1>9. SoundTask(t, k)
  BY <1>8 DEF TradingInv, TasksSound, SoundTask, StageFacts, Clean, Transfer, At
<1>10. Stored'
  BY <1>1 DEF TradingInv, Stored, Transfer, lockVars, dbVars, tradeVars
<1> QED
  BY <1>5, <1>8, <1>9, <1>10, QuietStep DEF Transfer

LEMMA FlushTradeKeeps ==
    ASSUME TradingInv, NEW t \in Tasks, FlushTrade(t)
    PROVE  TradingInv'
<1> DEFINE maker == Head(task[t].trades).maker
           r     == Visible(t, maker)
           k     == [task[t] EXCEPT !.stage = "write", !.seen = r]
<1>1. task[t].stage = "flush" /\ task[t].trades # <<>> /\ t \notin CancelIds
  BY DEF FlushTrade, At, TradingInv, TasksSound, SoundTask, StageFacts
<1>2. maker \in OrderIds
  BY <1>1, FirstTrade DEF TradingInv
<1>3. r \in Row
  BY <1>2, VisibleRow DEF TradingInv
<1>4. task' = [task EXCEPT ![t] = k]
  BY DEF FlushTrade
<1>5. LockRow(t, maker, KeyShare)
  BY DEF FlushTrade
<1> HIDE DEF maker, r
<1>6. /\ k \in TaskRecord /\ k.stage = "write" /\ k.triggered = task[t].triggered
      /\ k.cur = task[t].cur /\ k.trades = task[t].trades
  BY <1>3, TaskFields DEF TradingInv, TaskRecord, Stages
<1> HIDE DEF k
<1>7. SoundTask(t, k)
  BY <1>1, <1>6, NextStage DEF TradingInv, Stages, Clean
<1>8. Stored'
  BY <1>2, <1>5, LockRowType DEF TradingInv, Stored, FlushTrade, Rows, dbVars, tradeVars
<1> QED
  BY <1>4, <1>6, <1>7, <1>8, QuietStep DEF FlushTrade

LEMMA WriteMakerKeeps ==
    ASSUME TradingInv, NEW t \in Tasks, WriteMaker(t)
    PROVE  TradingInv'
<1> DEFINE trade  == Head(task[t].trades)
           filled == task[t].seen.filled + trade.quantity
           st     == IF filled >= task[t].seen.quantity THEN "FILLED" ELSE "PARTIALLY_FILLED"
           row    == [task[t].seen EXCEPT !.filled = filled, !.status = st]
           rest   == Tail(task[t].trades)
           d      == [task[t].draft EXCEPT ![trade.maker] = row]
           k      == [task[t] EXCEPT !.draft = d, !.seen = NoRow, !.trades = rest,
                                     !.stage = AfterTrades(rest)]
<1>1. task[t].stage = "write" /\ task[t].trades # <<>> /\ t \notin CancelIds
  BY DEF WriteMaker, At, TradingInv, TasksSound, SoundTask, StageFacts
<1>2. /\ trade \in EB!TradeType /\ trade.maker \in OrderIds /\ rest \in Seq(EB!TradeType)
      /\ \A i \in 1 .. Len(rest) : rest[i].maker # task[t].cur
  BY <1>1, FirstTrade DEF TradingInv
<1>3. /\ task[t] \in TaskRecord /\ task[t].draft \in [OrderIds -> Row] /\ task[t].seen \in Row
      /\ task[t].cur \in OrderIds
  BY <1>1, TaskFields DEF TradingInv, TasksSound, SoundTask, StageFacts, Clean
<1>4. row \in Row
  <2>1. trade.quantity \in Nat
    BY <1>2 DEF EB!TradeType
  <2>2. filled \in Nat
    BY <1>3, <2>1 DEF Row
  <2>3. st \in EB!Statuses \cup {"NONE"}
    BY DEF EB!Statuses
  <2> HIDE DEF trade, filled, st
  <2> QED
    BY <1>3, <2>2, <2>3 DEF Row
<1>5. LockRow(t, trade.maker, NoKeyUpdate)
  BY DEF WriteMaker
<1>6. task' = [task EXCEPT ![t] = [task[t] EXCEPT
                 !.draft = [@ EXCEPT ![trade.maker] = row],
                 !.seen = NoRow, !.trades = rest, !.stage = AfterTrades(rest)]]
  BY DEF WriteMaker, RestOfTrades
<1> HIDE DEF row, rest, trade
<1>7. task' = [task EXCEPT ![t] = k]
  BY <1>6
<1>8. d \in [OrderIds -> Row] /\ NoRow \in Row
  BY <1>2, <1>3, <1>4 DEF NoRow, Row
<1>9. AfterTrades(rest) \in {"release", "settle"} /\ (AfterTrades(rest) = "settle" => rest # <<>>)
  BY DEF AfterTrades
<1> HIDE DEF d
<1>10. /\ k \in TaskRecord /\ k.stage = AfterTrades(rest) /\ k.trades = rest
       /\ k.cur = task[t].cur /\ k.triggered = task[t].triggered
  BY <1>2, <1>3, <1>8, <1>9 DEF TaskRecord, Stages
<1> HIDE DEF k
<1>11. SoundTask(t, k)
  BY <1>1, <1>2, <1>3, <1>9, <1>10 DEF SoundTask, StageFacts, Clean
<1>12. Stored'
  BY <1>2, <1>5, LockRowType DEF TradingInv, Stored, WriteMaker, Rows, dbVars, tradeVars
<1> QED
  BY <1>7, <1>9, <1>10, <1>11, <1>12, QuietStep DEF WriteMaker

LEMMA AfterReleaseStage ==
    ASSUME TradingInv, NEW t \in Tasks, task[t].stage = "release",
           NEW k, k = [task[t] EXCEPT !.stage = AfterRelease(t)]
    PROVE  /\ SoundTask(t, k) /\ k.triggered = task[t].triggered
           /\ k.stage \in {"commit", "trigger", "stops"}
<1> DEFINE st == AfterRelease(t)
<1>1. /\ st \in {"commit", "trigger", "stops"}
      /\ st = "trigger" => task[t].triggered # <<>>
      /\ st = "stops" => task[t].triggered = <<>>
      /\ t \in CancelIds => st = "commit"
  BY DEF AfterRelease
<1> HIDE DEF st
<1>2. /\ k \in TaskRecord /\ k.stage = st /\ k.triggered = task[t].triggered
      /\ k.cur = task[t].cur /\ k.trades = task[t].trades
  BY <1>1, TaskFields DEF st, TradingInv, TaskRecord, Stages
<1>3. SoundTask(t, k)
  BY <1>1, <1>2, NextStage DEF TradingInv, Stages, Clean
<1> QED
  BY <1>1, <1>2, <1>3

LEMMA ProductInt == \A m, n \in Int : m * n \in Int
OBVIOUS

LEMMA AskedOrder ==
    ASSUME RequestsSound, NEW o \in OrderIds
    PROVE  asked[o].ord \in EB!EngineOrder /\ asked[o].user \in Users
BY DEF RequestsSound

LEMMA UnneededInt ==
    ASSUME RequestsSound, NEW o \in OrderIds, NEW q \in Int
    PROVE  Unneeded(o, q) \in Int
<1>1. asked[o].ord.price \in Int
  <2>1. asked[o].ord.price \in Prices \cup {0}
    BY AskedOrder DEF EB!EngineOrder, EB!NoPrice
  <2>2. Prices \cup {0} \subseteq Int
    BY MarketAssumption
  <2> QED
    BY <2>1, <2>2, Zenon
<1>2. asked[o].ord.price * q \in Int /\ Unit + TakerFee \in Int
  BY <1>1, ProductInt, FeesAssumption
<1>3. asked[o].ord.price * q * (Unit + TakerFee) \in Int
  BY <1>2, ProductInt
<1> QED
  BY <1>3 DEF Unneeded

LEMMA ReleaseDueInt ==
    ASSUME TradingInv, NEW t \in Tasks, task[t].cur \in OrderIds
    PROVE  ReleaseDue(t) \in Int
<1> DEFINE o == task[t].cur
<1>1. Engine!Remaining(order[o]) \in Int
  BY SameHelpers DEF TradingInv, EngineSound, EB!TypeInv, EB!TypeOK, EB!EngineOrder, EB!Remaining
<1>2. task[t].seen.quantity - task[t].seen.filled \in Int /\ task[t].spent \in Int
  BY DEF TradingInv, TasksSound, TaskRecord, Row
<1>3. asked[o].ord.quote_quantity \in Int /\ Unit + TakerFee \in Int
  BY FeesAssumption DEF TradingInv, RequestsSound, EB!EngineOrder
<1>4. (asked[o].ord.quote_quantity - task[t].spent) * (Unit + TakerFee) \in Int
  <2>1. asked[o].ord.quote_quantity - task[t].spent \in Int
    BY <1>2, <1>3
  <2> QED
    BY <1>3, <2>1, ProductInt
<1>5. /\ Unneeded(o, task[t].seen.quantity - task[t].seen.filled) \in Int
      /\ Unneeded(o, Engine!Remaining(order[o])) \in Int
  BY <1>1, <1>2, UnneededInt DEF TradingInv
<1>6. 0 \in Int
  OBVIOUS
<1> QED
  BY <1>1, <1>4, <1>5, <1>6, Zenon DEF ReleaseDue

LEMMA ReleaseKeeps ==
    ASSUME TradingInv, NEW t \in Tasks, Release(t)
    PROVE  TradingInv'
<1> DEFINE w      == Spends(task[t].cur)
           amount == Releasable(w, ReleaseDue(t))
           k      == [task[t] EXCEPT !.stage = AfterRelease(t)]
<1>1. task[t].stage = "release" /\ task[t].cur \in OrderIds
  BY DEF Release, At, TradingInv, TasksSound, SoundTask, StageFacts, Clean
<1>2. w \in Wallets
  BY <1>1, SpendsWallet DEF TradingInv
<1>3. /\ task' = [task EXCEPT ![t] = k] /\ amount > 0
      /\ wallet' = [wallet EXCEPT ![w] = [available |-> @.available + amount,
                                          locked    |-> @.locked - amount]]
      /\ holder' = [holder EXCEPT ![w] = t]
  BY DEF Release
<1>4. wallet[w] \in Balance /\ ReleaseDue(t) \in Int
  BY <1>1, <1>2, ReleaseDueInt DEF TradingInv, Stored
<1>5. SoundTask(t, k) /\ k.triggered = task[t].triggered /\ k.stage \in {"commit", "trigger", "stops"}
  BY <1>1, AfterReleaseStage
<1>6. amount \in Nat /\ wallet[w].locked >= amount
  BY <1>3, <1>4 DEF Releasable, Balance
<1> HIDE DEF k, amount, w
<1>7. wallet' \in [Wallets -> Balance] /\ holder' \in [Wallets -> Tasks \cup {NoTask}]
  BY <1>2, <1>3, <1>4, <1>6 DEF TradingInv, Stored, Balance
<1>8. Stored'
  BY <1>7 DEF TradingInv, Stored, Release, dbVars, tradeVars
<1> QED
  BY <1>3, <1>5, <1>8, QuietStep DEF Release

LEMMA NoReleaseKeeps ==
    ASSUME TradingInv, NEW t \in Tasks, NoRelease(t)
    PROVE  TradingInv'
<1> DEFINE k == [task[t] EXCEPT !.stage = AfterRelease(t)]
<1>1. task[t].stage = "release" /\ task' = [task EXCEPT ![t] = k]
  BY DEF NoRelease, At
<1>2. SoundTask(t, k) /\ k.triggered = task[t].triggered /\ k.stage \in {"commit", "trigger", "stops"}
  BY <1>1, AfterReleaseStage
<1> HIDE DEF k
<1>3. Stored'
  BY DEF TradingInv, Stored, NoRelease, dbVars, tradeVars, lockVars
<1> QED
  BY <1>1, <1>2, <1>3, QuietStep DEF NoRelease

LEMMA TriggerKeeps ==
    ASSUME TradingInv, NEW t \in Tasks, Trigger(t)
    PROVE  TradingInv'
<1> DEFINE s   == Head(task[t].triggered)
           row == [Visible(t, s) EXCEPT !.status = "TRIGGERED"]
           d   == [task[t].draft EXCEPT ![s] = row]
           k   == [task[t] EXCEPT !.draft = d, !.stage = "fire"]
<1>1. task[t].stage = "trigger" /\ task[t].triggered # <<>> /\ t \notin CancelIds
  BY DEF Trigger, At, TradingInv, TasksSound, SoundTask, StageFacts
<1>2. s \in OrderIds
  <2>1. task[t].triggered \in Seq(OrderIds)
    BY TaskFields DEF TradingInv
  <2> QED
    BY <1>1, <2>1, EngineAssumptions, EB!HeadOfQueue
<1>3. row \in Row
  <2>1. Visible(t, s) \in Row
    BY <1>2, VisibleRow DEF TradingInv
  <2> QED
    BY <2>1 DEF Row, EB!Statuses
<1>4. /\ LockRow(t, s, ForUpdate)
      /\ task' = [task EXCEPT ![t].draft[s] = row, ![t].stage = "fire"]
  BY DEF Trigger
<1> HIDE DEF s, row
<1>5. task' = [task EXCEPT ![t] = k]
  BY <1>4 DEF TradingInv, TasksSound, TaskRecord
<1>6. d \in [OrderIds -> Row]
  BY <1>2, <1>3, TaskFields DEF TradingInv
<1> HIDE DEF d
<1>7. /\ k \in TaskRecord /\ k.stage = "fire" /\ k.triggered = task[t].triggered
      /\ k.cur = task[t].cur /\ k.trades = task[t].trades
  BY <1>6, TaskFields DEF TradingInv, TaskRecord, Stages
<1> HIDE DEF k
<1>8. SoundTask(t, k)
  BY <1>1, <1>7, NextStage DEF TradingInv, Stages, Clean
<1>9. Stored'
  BY <1>2, <1>4, LockRowType DEF TradingInv, Stored, Trigger, Rows, dbVars, tradeVars
<1> QED
  BY <1>5, <1>7, <1>8, <1>9, QuietStep DEF Trigger

LEMMA CancelSelectKeeps ==
    ASSUME TradingInv, NEW t \in CancelIds, NEW o \in OrderIds, CancelSelect(t, o)
    PROVE  TradingInv'
<1> DEFINE k == [task[t] EXCEPT !.stage = "pair", !.cur = o, !.seen = rows[o]]
<1>1. t \in Tasks /\ task[t].stage = "ready" /\ task' = [task EXCEPT ![t] = k]
  BY DEF CancelSelect, At, Tasks
<1>2. task[t] = Ended("ready") /\ task[t] \in TaskRecord
  BY <1>1 DEF TradingInv, TasksSound, SoundTask, StageFacts, Clean
<1>3. task[t].trades = <<>> /\ rows[o] \in Row
  BY <1>2 DEF Ended, Fresh, TradingInv, Stored
<1>4. /\ k \in TaskRecord /\ k.stage = "pair" /\ k.triggered = task[t].triggered
      /\ k.cur = o /\ k.trades = <<>>
  BY <1>2, <1>3 DEF TaskRecord, Stages
<1> HIDE DEF k
<1>5. SoundTask(t, k)
  <2>1. Len(k.trades) = 0
    BY <1>4, EmptySeq
  <2> QED
    BY <1>4, <2>1 DEF SoundTask, StageFacts, Clean
<1>6. Stored'
  BY LockRowType, <1>1 DEF TradingInv, Stored, CancelSelect, Rows, dbVars, tradeVars
<1> QED
  BY <1>1, <1>4, <1>5, <1>6, QuietStep DEF CancelSelect

-----------------------------------------------------------------------------
(* The steps that change the engine.                                       *)

\* A task takes a step of the engine, or one that the engine's callers take.
LEMMA EngineTask ==
    ASSUME TradingInv, NEW t \in Tasks, NEW k, SoundTask(t, k), task' = [task EXCEPT ![t] = k],
           k.stage \notin {"ready", "reserve"},
           k.stage = "insert" => order'[k.cur].status # "UNUSED",
           \A o \in OrderIds : order[o].status # "UNUSED" => order'[o].status # "UNUSED",
           \A o \in OrderIds \ {t} : order[o].status = "UNUSED" => order'[o].status = "UNUSED",
           EngineSound', ListsApart', NotOwnMaker', UNCHANGED asked, Stored'
    PROVE  TradingInv'
<1>1. /\ TasksSound' /\ OrdersKnown' /\ task'[t] = k
      /\ \A u \in Tasks \ {t} : task'[u] = task[u]
  BY TaskChanges DEF TradingInv
<1>2. RequestsSound'
  <2>1. \A u \in OrderIds : task'[u].stage = "reserve" => task[u].stage = "reserve"
    BY <1>1 DEF Tasks
  <2> QED
    BY <2>1 DEF TradingInv, RequestsSound
<1> QED
  BY <1>1, <1>2 DEF TradingInv

LEMMA SkipStopKeeps ==
    ASSUME TradingInv, NEW t \in Tasks, SkipStop(t)
    PROVE  TradingInv'
<1> DEFINE rest == Tail(task[t].triggered)
           st   == IF rest = <<>> THEN "stops" ELSE "trigger"
           k    == [task[t] EXCEPT !.triggered = rest, !.stage = st]
<1>1. task[t].stage = "trigger" /\ task[t].triggered # <<>> /\ t \notin CancelIds /\ pc = "idle"
  BY DEF SkipStop, At, TradingInv, TasksSound, SoundTask, StageFacts
<1>2. rest \in Seq(OrderIds)
  BY <1>1, TaskFields, HeadTailProperties DEF TradingInv
<1>3. task' = [task EXCEPT ![t] = k]
  BY DEF SkipStop
<1>4. /\ k \in TaskRecord /\ k.stage = st /\ k.triggered = rest
      /\ k.cur = task[t].cur /\ k.trades = task[t].trades
  <2> HIDE DEF rest
  <2> QED
    BY <1>2, TaskFields DEF TradingInv, TaskRecord, Stages
<1> HIDE DEF k
<1>5. SoundTask(t, k)
  <2> HIDE DEF rest
  <2> QED
    BY <1>1, <1>4 DEF TradingInv, TasksSound, SoundTask, StageFacts, Clean
<1>6. task'[t].triggered = Tail(task[t].triggered) /\ \A u \in Tasks \ {t} : task'[u] = task[u]
  BY <1>3, <1>4 DEF TradingInv, TasksSound
<1>7. /\ Lists' = (Lists \ {task[t].triggered}) \cup EB!RestOf(task[t].triggered)
      /\ ListsApart' /\ task[t].triggered \in Lists
  BY <1>1, <1>6, ListPopped DEF TradingInv
<1>8. EB!SkipTriggered(task[t].triggered)
  BY <1>1, <1>7 DEF SkipStop, EB!SkipTriggered, engineVars, EB!bookVars, EB!callVars
<1>9. EngineSound'
  <2>1. EB!Next
    BY <1>7, <1>8 DEF EB!Next, EB!CallerStep
  <2> QED
    BY <2>1, EngineMoves DEF TradingInv
<1>10. NotOwnMaker'
  BY DEF TradingInv, NotOwnMaker, SkipStop, engineVars
<1>11. Stored'
  BY DEF TradingInv, Stored, SkipStop, lockVars, dbVars, tradeVars
<1>12. order' = order
  BY DEF SkipStop, engineVars
<1> QED
  BY <1>3, <1>4, <1>5, <1>7, <1>9, <1>10, <1>11, <1>12, EngineTask DEF SkipStop

LEMMA TakeStopsKeeps ==
    ASSUME TradingInv, NEW t \in Tasks, TakeStops(t)
    PROVE  TradingInv'
<1> DEFINE st == IF pendingStops = <<>> THEN "commit" ELSE "trigger"
           k  == [task[t] EXCEPT !.triggered = pendingStops, !.stage = st]
<1>1. /\ task[t].stage = "stops" /\ task[t].triggered = <<>> /\ t \notin CancelIds
      /\ pc = "idle" /\ pendingStops' = <<>>
      /\ UNCHANGED <<order, levels, totals, ordersById, stops, lastTradePrice,
                     pc, taker, remaining, quoteRemaining, result, asked>>
  BY DEF TakeStops, At, TradingInv, TasksSound, SoundTask, StageFacts
<1>2. pendingStops \in Seq(OrderIds)
  BY DEF TradingInv, EngineSound, EB!TypeInv, EB!TypeOK
<1>3. task' = [task EXCEPT ![t] = k]
  BY DEF TakeStops
<1>4. /\ k \in TaskRecord /\ k.stage = st /\ k.triggered = pendingStops
      /\ k.cur = task[t].cur /\ k.trades = task[t].trades
  BY <1>2, TaskFields DEF TradingInv, TaskRecord, Stages
<1> HIDE DEF k
<1>5. SoundTask(t, k)
  BY <1>1, <1>4 DEF TradingInv, TasksSound, SoundTask, StageFacts, Clean
<1>6. task'[t].triggered = pendingStops /\ \A u \in Tasks \ {t} : task'[u] = task[u]
  BY <1>3, <1>4 DEF TradingInv, TasksSound
<1>7. EngineSound' /\ ListsApart'
  <2>1. CASE pendingStops = <<>>
    <3>1. Lists' = Lists /\ ListsApart'
      BY <1>1, <1>6, <2>1, ListsUnchanged DEF TradingInv
    <3>2. UNCHANGED EB!vars
      BY <1>1, <2>1, <3>1 DEF EB!vars, EB!bookVars, EB!stopVars, EB!callVars
    <3> QED
      BY <3>1, <3>2, EngineMoves DEF TradingInv
  <2>2. CASE pendingStops # <<>>
    <3>1. Lists' = Lists \cup {pendingStops} /\ ListsApart'
      BY <1>1, <1>6, <2>2, ListTaken DEF TradingInv
    <3>2. EB!GetPendingStops
      BY <1>1, <2>2, <3>1 DEF EB!GetPendingStops, EB!bookVars, EB!callVars
    <3>3. EB!Next
      BY <3>2 DEF EB!Next, EB!CallerStep
    <3> QED
      BY <3>1, <3>3, EngineMoves DEF TradingInv
  <2> QED
    BY <2>1, <2>2
<1>8. NotOwnMaker'
  BY <1>1 DEF TradingInv, NotOwnMaker
<1>9. Stored'
  BY DEF TradingInv, Stored, TakeStops, lockVars, dbVars, tradeVars
<1> QED
  BY <1>1, <1>3, <1>4, <1>5, <1>7, <1>8, <1>9, EngineTask

LEMMA CancelOrderKeeps ==
    ASSUME TradingInv, NEW t \in Tasks, CancelOrder(t)
    PROVE  TradingInv'
<1> DEFINE o   == task[t].cur
           row == [task[t].seen EXCEPT !.status = "CANCELLED"]
           d   == [task[t].draft EXCEPT ![o] = row]
           k   == [task[t] EXCEPT !.draft = d, !.stage = "release"]
<1>1. task[t].stage = "pair" /\ o \in OrderIds /\ pc = "idle"
  BY DEF CancelOrder, At, TradingInv, TasksSound, SoundTask, StageFacts, Clean
<1>2. row \in Row
  <2>1. task[t].seen \in Row
    BY TaskFields DEF TradingInv
  <2> QED
    BY <2>1 DEF Row, EB!Statuses
<1>3. /\ LockRow(t, Pair, ForUpdate)
      /\ IF o \in ordersById THEN Engine!CancelOrder(o) ELSE UNCHANGED engineVars
      /\ task' = [task EXCEPT ![t].draft[o] = row, ![t].stage = "release"]
      /\ UNCHANGED <<asked, holder, wallet, dbVars, restarts>>
  BY DEF CancelOrder
<1> HIDE DEF o, row
<1>4. task' = [task EXCEPT ![t] = k]
  BY <1>3 DEF TradingInv, TasksSound, TaskRecord
<1>5. d \in [OrderIds -> Row]
  BY <1>1, <1>2, TaskFields DEF TradingInv
<1> HIDE DEF d
<1>6. /\ k \in TaskRecord /\ k.stage = "release" /\ k.triggered = task[t].triggered
      /\ k.cur = task[t].cur /\ k.trades = task[t].trades
  BY <1>5, TaskFields DEF TradingInv, TaskRecord, Stages
<1> HIDE DEF k
<1>7. SoundTask(t, k)
  BY <1>1, <1>6, NextStage DEF TradingInv, Stages, Clean
<1>8. \A u \in Tasks : task'[u].triggered = task[u].triggered
  BY <1>4, <1>6 DEF TradingInv, TasksSound
<1>9. Lists' = Lists /\ ListsApart'
  BY <1>8, ListsUnchanged DEF TradingInv
<1>10. EngineSound' /\ UNCHANGED <<pc, result, taker>>
       /\ \A x \in OrderIds : order'[x].status = "UNUSED" <=> order[x].status = "UNUSED"
  <2>1. CASE o \in ordersById
    <3>1. EB!CancelOrder(o)
      BY <1>3, <1>9, <2>1, SameCancel
    <3>2. EB!Next
      BY <1>1, <3>1 DEF EB!Next, EB!CallerStep
    <3>3. /\ order' = [order EXCEPT ![o].status =
                         IF @ \in {"OPEN", "PENDING", "PARTIALLY_FILLED"} THEN "CANCELLED" ELSE @]
          /\ UNCHANGED <<pc, result, taker>>
      BY <3>1 DEF EB!CancelOrder, EB!callVars
    <3>4. order \in [OrderIds -> EB!EngineOrder]
      BY DEF TradingInv, EngineSound, EB!TypeInv, EB!TypeOK
    <3>5. \A x \in OrderIds : order'[x].status = "UNUSED" <=> order[x].status = "UNUSED"
      BY <1>1, <3>3, <3>4 DEF EB!EngineOrder
    <3> QED
      BY <3>2, <3>3, <3>5, EngineMoves DEF TradingInv
  <2>2. CASE o \notin ordersById
    <3>1. UNCHANGED engineVars
      BY <1>3, <2>2
    <3>2. UNCHANGED EB!vars
      BY <1>9, <3>1 DEF engineVars, EB!vars, EB!bookVars, EB!stopVars, EB!callVars
    <3> QED
      BY <3>1, <3>2, EngineMoves DEF TradingInv, engineVars
  <2> QED
    BY <2>1, <2>2
<1>11. NotOwnMaker'
  BY <1>10 DEF TradingInv, NotOwnMaker
<1>12. Stored'
  BY <1>3, LockRowType DEF TradingInv, Stored, Rows, dbVars, tradeVars
<1> QED
  BY <1>3, <1>4, <1>6, <1>7, <1>9, <1>10, <1>11, <1>12, EngineTask

-----------------------------------------------------------------------------
(* Orders that enter the engine.                                           *)

LEMMA EnterEngine ==
    ASSUME TradingInv, TasksSound', NEW o \in OrderIds, NEW ord, EB!Sound(ord), EB!Fresh(ord),
           o \notin ordersById, Engine!Process(o, ord), UNCHANGED pendingStops,
           EB!StopsApart(stops, pendingStops, Lists', order),
           EB!OnNoList(o, stops, pendingStops, Lists')
    PROVE  /\ EngineSound' /\ NotOwnMaker' /\ order'[o].status # "UNUSED"
           /\ \A x \in OrderIds \ {o} : order'[x] = order[x]
<1>1. EB!Process(o, ord) /\ EB!TypeInv /\ EB!EngineInv
  BY SameProcess DEF TradingInv, EngineSound
<1>2. Lists' \subseteq Seq(OrderIds) \ {<<>>}
  BY DEF Lists, TasksSound, TaskRecord
<1>3. pendingStops' \in Seq(OrderIds)
  BY <1>1 DEF EB!TypeInv, EB!TypeOK
<1>4. EB!TypeInv'
  BY <1>1, <1>2, <1>3, EngineAssumptions, EB!ProcessType
<1>5. EB!EngineInv'
  BY <1>1, EngineAssumptions, EB!ProcessKeeps
<1>6. /\ \A x \in OrderIds \ {o} : order'[x] = order[x]
      /\ \/ order'[o] = [ord EXCEPT !.status = "OPEN"]
         \/ order'[o] = ord
         \/ \E st \in {"EXPIRED", "CANCELLED", "PENDING"} : order'[o] = [ord EXCEPT !.status = st]
  BY <1>1, EngineAssumptions, EB!ProcessChanges
<1>7. order'[o].status # "UNUSED"
  <2>1. ord \in EB!EngineOrder /\ ord.status = "PENDING"
    BY DEF EB!Sound, EB!Fresh
  <2> QED
    BY <1>6, <2>1 DEF EB!EngineOrder
<1>8. result' = result /\ result = <<>>
  BY <1>1 DEF EB!Process, EB!Expire, EB!KillFillOrKill, EB!StartMatching, EB!RestStop, EB!callVars,
              EB!EngineInv, EB!TakerInv
<1>9. NotOwnMaker'
  BY <1>8, EmptySeq DEF NotOwnMaker
<1> QED
  BY <1>4, <1>5, <1>6, <1>7, <1>9 DEF EngineSound

LEMMA SameRequests == \A ord : Engine!WellFormed(ord) <=> EB!WellFormed(ord)
BY SameHelpers DEF Engine!WellFormed, EB!WellFormed

LEMMA ReserveNat ==
    ASSUME NEW ord \in EB!EngineOrder
    PROVE  ReserveFor(ord) \in Nat
<1> DEFINE price == IF ord.price # 0 THEN ord.price ELSE ord.stop_price
           cost  == IF ord.quote_quantity > 0 THEN ord.quote_quantity ELSE price * ord.quantity
<1>1. Prices \cup {EB!NoPrice} \subseteq Nat
  BY MarketAssumption DEF EB!NoPrice
<1>2. /\ ord.price \in Nat /\ ord.stop_price \in Nat /\ ord.quantity \in Nat
      /\ ord.quote_quantity \in Nat
  BY <1>1 DEF EB!EngineOrder
<1>3. price \in Nat /\ Unit + TakerFee \in Nat
  BY <1>2, FeesAssumption
<1> HIDE DEF price
<1>4. cost \in Nat
  BY <1>2, <1>3, EngineAssumptions, EB!ProductNat
<1> HIDE DEF cost
<1>5. cost * (Unit + TakerFee) \in Nat
  BY <1>3, <1>4, EngineAssumptions, EB!ProductNat
<1>6. ReserveFor(ord) = IF ord.side = "SELL" THEN ord.quantity ELSE cost * (Unit + TakerFee)
  BY DEF ReserveFor, cost, price
<1> QED
  BY <1>2, <1>5, <1>6

LEMMA ReserveKeeps ==
    ASSUME TradingInv, NEW t \in Tasks, Reserve(t)
    PROVE  TradingInv'
<1> DEFINE w      == Spends(t)
           amount == ReserveFor(asked[t].ord)
           ord    == asked[t].ord
           k      == [task[t] EXCEPT !.stage = "insert", !.cur = t]
<1>1. task[t].stage = "reserve" /\ t \notin CancelIds /\ task[t] = Ended("reserve")
  BY DEF Reserve, At, TradingInv, TasksSound, SoundTask, StageFacts, Clean
<1>2. t \in OrderIds /\ task[t] \in TaskRecord /\ task[t].trades = <<>>
  BY <1>1 DEF Tasks, TradingInv, TasksSound, Ended, Fresh
<1>3. order[t].status = "UNUSED"
  BY <1>1, <1>2 DEF TradingInv, OrdersKnown, Known
<1>4. Engine!Process(t, ord) /\ UNCHANGED <<pendingStops, asked>> /\ task' = [task EXCEPT ![t] = k]
  BY DEF Reserve
<1>5. ord \in EB!EngineOrder /\ EB!WellFormed(ord)
  BY <1>1, <1>2, AskedOrder, SameRequests DEF TradingInv, RequestsSound
<1> HIDE DEF ord
<1>6. EB!Sound(ord)
  BY <1>5 DEF EB!Sound, EB!EngineOrder, EB!WellFormed
<1>7. EB!Fresh(ord)
  BY <1>5 DEF EB!Fresh, EB!EngineOrder, EB!WellFormed, EB!NoPrice
<1>8. t \notin ordersById
  BY <1>2, <1>3 DEF TradingInv, EngineSound, EB!EngineInv, EB!BookInv, EB!RestingOrder
<1>9. EB!StopsApart(stops, pendingStops, Lists, order)
  BY DEF TradingInv, EngineSound, EB!EngineInv, EB!StopInv
<1>10. EB!OnNoList(t, stops, pendingStops, Lists)
  BY <1>2, <1>3, <1>9 DEF EB!StopsApart, EB!OnNoList, EB!StopOrder, EB!Fresh
<1>11. /\ k \in TaskRecord /\ k.stage = "insert" /\ k.triggered = task[t].triggered
       /\ k.cur = t /\ k.trades = <<>>
  BY <1>2 DEF TaskRecord, Stages
<1> HIDE DEF k
<1>12. SoundTask(t, k)
  <2>1. Len(k.trades) = 0
    BY <1>11, EmptySeq
  <2> QED
    BY <1>1, <1>2, <1>11, <2>1 DEF SoundTask, StageFacts, Clean
<1>13. TasksSound' /\ \A u \in Tasks : task'[u].triggered = task[u].triggered
  BY <1>4, <1>11, <1>12 DEF TradingInv, TasksSound, SoundTask
<1>14. Lists' = Lists /\ ListsApart'
  BY <1>13, ListsUnchanged DEF TradingInv
<1>15. /\ EngineSound' /\ NotOwnMaker' /\ order'[t].status # "UNUSED"
       /\ \A x \in OrderIds \ {t} : order'[x] = order[x]
  BY <1>2, <1>4, <1>6, <1>7, <1>8, <1>9, <1>10, <1>13, <1>14, EnterEngine
<1>16. wallet' \in [Wallets -> Balance] /\ holder' \in [Wallets -> Tasks \cup {NoTask}]
  <2>1. amount \in Nat
    BY <1>2, AskedOrder, ReserveNat DEF TradingInv
  <2>2. /\ w \in Wallets /\ wallet[w].available >= amount
        /\ wallet' = [wallet EXCEPT ![w] = [available |-> @.available - amount,
                                            locked    |-> @.locked + amount]]
        /\ holder' = [holder EXCEPT ![w] = t]
    BY <1>2, SpendsWallet DEF Reserve, TradingInv
  <2> HIDE DEF w, amount
  <2> QED
    BY <2>1, <2>2 DEF TradingInv, Stored, Balance
<1>17. Stored'
  BY <1>16 DEF TradingInv, Stored, Reserve, dbVars, tradeVars
<1> QED
  BY <1>3, <1>4, <1>11, <1>12, <1>14, <1>15, <1>17, EngineTask

LEMMA FireKeeps ==
    ASSUME TradingInv, NEW t \in Tasks, Fire(t)
    PROVE  TradingInv'
<1> DEFINE list == task[t].triggered
           s    == Head(list)
           ord  == Engine!Triggered(order[s])
           k    == [task[t] EXCEPT !.stage = "insert", !.cur = s, !.trades = <<>>,
                                   !.triggered = Tail(list)]
<1>1. task[t].stage = "fire" /\ list # <<>> /\ t \notin CancelIds
  BY DEF Fire, At, TradingInv, TasksSound, SoundTask, StageFacts
<1>2. list \in Seq(OrderIds) /\ Tail(list) \in Seq(OrderIds) /\ task[t] \in TaskRecord
  BY <1>1, TaskFields, HeadTailProperties DEF TradingInv
<1>3. /\ Engine!Process(s, ord) /\ task' = [task EXCEPT ![t] = k]
      /\ UNCHANGED <<pendingStops, asked, lockVars, wallet, dbVars, restarts>>
  BY DEF Fire
<1>4. s \in OrderIds
  BY <1>1, <1>2, EngineAssumptions, EB!HeadOfQueue
<1>5. <<>> \in Seq(EB!TradeType)
  BY EmptySeq
<1> HIDE DEF s, ord
<1>6. /\ k \in TaskRecord /\ k.stage = "insert" /\ k.triggered = Tail(list)
      /\ k.cur = s /\ k.trades = <<>>
  <2> HIDE DEF list
  <2> QED
    BY <1>2, <1>4, <1>5 DEF TaskRecord, Stages
<1> HIDE DEF k
<1>7. SoundTask(t, k)
  <2>1. Len(k.trades) = 0
    BY <1>6, EmptySeq
  <2> QED
    BY <1>1, <1>4, <1>6, <2>1 DEF SoundTask, StageFacts, Clean
<1>8. TasksSound' /\ task'[t] = k /\ \A u \in Tasks \ {t} : task'[u] = task[u]
  BY <1>3, <1>7 DEF TradingInv, TasksSound, SoundTask
<1>9. /\ Lists' = (Lists \ {list}) \cup EB!RestOf(list) /\ ListsApart' /\ list \in Lists
  BY <1>1, <1>6, <1>8, ListPopped DEF TradingInv
<1>10. /\ EB!StopOrder(order[s])
       /\ EB!StopsApart(stops, pendingStops, Lists', order)
       /\ EB!OnNoList(s, stops, pendingStops, Lists')
  BY <1>9, EngineAssumptions, EB!RestOfBatch DEF s, TradingInv, EngineSound
<1>11. EB!Sound(order[s]) /\ ord = EB!Triggered(order[s])
  BY <1>4, SameHelpers DEF ord, TradingInv, EngineSound, EB!TypeInv, EB!SoundOrders,
     Engine!Triggered, EB!Triggered
<1>12. EB!Sound(ord) /\ EB!Fresh(ord)
  BY <1>10, <1>11, EngineAssumptions, EB!TriggeredIsFresh
<1>13. s \notin ordersById
  BY <1>4, <1>10 DEF TradingInv, EngineSound, EB!EngineInv, EB!BookInv, EB!RestingOrder, EB!StopOrder
<1>14. /\ EngineSound' /\ NotOwnMaker' /\ order'[s].status # "UNUSED"
       /\ \A x \in OrderIds \ {s} : order'[x] = order[x]
  BY <1>3, <1>4, <1>8, <1>10, <1>12, <1>13, EnterEngine
<1>15. order[s].status # "UNUSED"
  BY <1>10 DEF EB!StopOrder, EB!Fresh
<1>16. Stored'
  BY <1>3 DEF TradingInv, Stored, lockVars, dbVars, tradeVars
<1> QED
  BY <1>3, <1>4, <1>6, <1>7, <1>9, <1>14, <1>15, <1>16, EngineTask

\* A market buy is given the size it has bought: no order of the book, no stop.
LEMMA SizedOrder ==
    ASSUME TradingInv, NEW t \in Tasks, task[t].cur \in OrderIds
    PROVE  LET o == task[t].cur IN
           /\ EB!Sound(Sized(t)) /\ Sized(t).status = order[o].status
           /\ \/ Sized(t) = order[o]
              \/ order[o].order_type = "MARKET" /\ EB!Remaining(Sized(t)) = 0
<1> DEFINE o      == task[t].cur
           bought == Total(task[t].trades, LAMBDA x : x.quantity)
           sized  == [order[o] EXCEPT !.filled_quantity = bought, !.quantity = bought]
<1>1. EB!Sound(order[o]) /\ order[o] \in EB!EngineOrder
  BY DEF TradingInv, EngineSound, EB!TypeInv, EB!SoundOrders, EB!Sound
<1>2. bought \in Nat
  <2> DEFINE n == Len(task[t].trades)
             f == [i \in 1 .. n |-> task[t].trades[i].quantity]
  <2>1. task[t].trades \in Seq(EB!TradeType) /\ n \in Nat
    BY TaskFields, LenProperties DEF TradingInv
  <2>2. \A i \in 1 .. n : f[i] \in Nat
    <3>1. \A i \in 1 .. n : task[t].trades[i] \in EB!TradeType
      BY <2>1, ElementOfSeq
    <3> QED
      BY <3>1 DEF EB!TradeType
  <2>3. bought = SumFunction(f)
    BY DEF Total
  <2>4. IsFiniteSet(1 .. n) /\ DOMAIN f = 1 .. n
    BY <2>1, FS_Interval
  <2> HIDE DEF n, f, bought
  <2> QED
    BY <2>2, <2>3, <2>4, SumWhole, SumNat
<1>3. Sized(t) = sized \/ Sized(t) = order[o]
  BY DEF Sized
<1>4. Sized(t) = order[o] \/ order[o].order_type = "MARKET"
  BY DEF Sized
<1> HIDE DEF bought, o
<1>5. EB!Sound(sized) /\ sized.status = order[o].status /\ EB!Remaining(sized) = 0
  <2>1. PICK ord \in EB!EngineOrder : ord = order[o]
    BY <1>1
  <2>2. PICK q \in Nat : q = bought
    BY <1>2
  <2>3. sized = [ord EXCEPT !.filled_quantity = q, !.quantity = q]
    BY <2>1, <2>2
  <2> HIDE DEF sized
  <2>4. sized \in EB!EngineOrder /\ sized.filled_quantity = q /\ sized.quantity = q
        /\ sized.status = ord.status
    BY <2>3 DEF EB!EngineOrder
  <2> QED
    BY <2>1, <2>4 DEF EB!Sound, EB!Remaining
<1> HIDE DEF sized
<1> QED
  BY <1>1, <1>3, <1>4, <1>5 DEF o

LEMMA InsertKeeps ==
    ASSUME TradingInv, NEW t \in Tasks, Insert(t)
    PROVE  TradingInv'
<1> DEFINE o    == task[t].cur
           new  == Sized(t)
           row  == RowOf(t, new)
           st   == AfterTrades(task[t].trades)
           d    == [task[t].draft EXCEPT ![o] = row]
           k    == [task[t] EXCEPT !.draft = d, !.stage = st]
<1>1. /\ task[t].stage = "insert" /\ o \in OrderIds /\ t \notin CancelIds /\ pc = "idle"
      /\ order[o].status # "UNUSED"
  BY DEF Insert, At, TradingInv, TasksSound, SoundTask, StageFacts, Clean, OrdersKnown, Known
<1>2. /\ EB!Sound(new) /\ new.status = order[o].status
      /\ \/ new = order[o]
         \/ order[o].order_type = "MARKET" /\ EB!Remaining(new) = 0
  BY <1>1, SizedOrder
<1>3. /\ order' = [order EXCEPT ![o] = new]
      /\ task' = [task EXCEPT ![t].draft[o] = row, ![t].stage = st]
      /\ rowLock' = [rowLock EXCEPT ![o][t] = IF @ < NoKeyUpdate THEN NoKeyUpdate ELSE @,
                                    ![Pair][t] = IF @ < KeyShare THEN KeyShare ELSE @]
      /\ UNCHANGED <<levels, totals, ordersById, stops, pendingStops, lastTradePrice,
                     pc, taker, remaining, quoteRemaining, result,
                     asked, holder, wallet, dbVars, restarts, exposed>>
  BY DEF Insert
<1>4. row \in Row
  <2>1. Visible(t, o) \in Row
    BY <1>1, VisibleRow DEF TradingInv
  <2>2. new.status \in EB!Statuses /\ new.filled_quantity \in Nat /\ new.quantity \in Nat
    <3> HIDE DEF new
    <3> QED
      BY <1>1, <1>2 DEF EB!Sound, EB!EngineOrder
  <2> HIDE DEF new
  <2> QED
    BY <2>1, <2>2 DEF RowOf, Row
<1>5. st \in {"release", "settle"} /\ (st = "settle" => task[t].trades # <<>>)
  BY DEF AfterTrades
<1> HIDE DEF o, row, st, new
<1>6. task' = [task EXCEPT ![t] = k]
  BY <1>3 DEF TradingInv, TasksSound, TaskRecord
<1>7. d \in [OrderIds -> Row]
  BY <1>1, <1>4, TaskFields DEF TradingInv
<1> HIDE DEF d
<1>8. /\ k \in TaskRecord /\ k.stage = st /\ k.triggered = task[t].triggered
      /\ k.cur = task[t].cur /\ k.trades = task[t].trades
  BY <1>5, <1>7, TaskFields DEF TradingInv, TaskRecord, Stages
<1> HIDE DEF k
<1>9. SoundTask(t, k)
  BY <1>1, <1>5, <1>8, NextStage DEF TradingInv, Stages, Clean
<1>10. TasksSound' /\ \A u \in Tasks : task'[u].triggered = task[u].triggered
  BY <1>6, <1>8, <1>9 DEF TradingInv, TasksSound, SoundTask
<1>11. Lists' = Lists /\ ListsApart'
  BY <1>10, ListsUnchanged DEF TradingInv
<1>12. EB!TypeInv /\ EB!EngineInv /\ order \in [OrderIds -> EB!EngineOrder] /\ EB!Sound(order[o])
  BY <1>1 DEF TradingInv, EngineSound, EB!TypeInv, EB!TypeOK, EB!SoundOrders
<1>13. order'[o] = new /\ \A x \in OrderIds \ {o} : order'[x] = order[x]
  BY <1>1, <1>3, <1>12
<1>14. EB!SoundOrders(order)'
  <2>1. order' \in [OrderIds -> EB!EngineOrder]
    BY <1>2, <1>3, <1>12 DEF EB!Sound
  <2>2. \A x \in OrderIds : EB!Sound(order[x])
    BY <1>12 DEF EB!TypeInv, EB!SoundOrders
  <2> QED
    BY <1>2, <1>13, <2>1, <2>2 DEF EB!SoundOrders
<1>15. EB!TypeInv'
  BY <1>1, <1>3, <1>11, <1>12, <1>14 DEF EB!TypeInv, EB!TypeOK, EB!SoundOrders, EB!InCall
<1>16. EB!OrdersInv'
  <2>1. EB!OrdersInv
    BY <1>12 DEF EB!EngineInv
  <2> QED
    BY <1>1, <1>2, <1>13, <2>1 DEF EB!OrdersInv
<1>17. EB!BookInv'
  <2>1. \A x \in ordersById : order[x].order_type = "LIMIT" /\ x \in OrderIds
    BY <1>12 DEF EB!EngineInv, EB!BookInv, EB!RestingOrder, EB!TypeInv, EB!TypeOK
  <2>2. \A x \in ordersById : order'[x] = order[x]
    BY <1>2, <1>13, <2>1
  <2> QED
    BY <1>3, <1>12, <2>2, EngineAssumptions, EB!BookFrame DEF EB!EngineInv
<1>18. EB!StopInv'
  <2>1. \A x \in OrderIds : EB!StopOrder(order[x]) => order'[x] = order[x]
    BY <1>2, <1>13 DEF EB!StopOrder
  <2> QED
    BY <1>3, <1>11, <1>12, <2>1, EngineAssumptions, EB!StopFrame DEF EB!EngineInv
<1>19. EB!TakerInv'
  BY <1>1, <1>3, <1>12 DEF EB!EngineInv, EB!TakerInv, EB!Matching
<1>20. EngineSound' /\ NotOwnMaker'
  BY <1>3, <1>15, <1>16, <1>17, <1>18, <1>19 DEF EngineSound, EB!EngineInv, TradingInv, NotOwnMaker
<1>21. \A x \in OrderIds : order'[x].status = order[x].status
  BY <1>2, <1>13
<1>22. Stored'
  <2> DEFINE f == [rowLock EXCEPT ![o][t] = IF @ < NoKeyUpdate THEN NoKeyUpdate ELSE @]
  <2>1. rowLock \in [Rows -> [Tasks -> 0 .. 3]] /\ o \in Rows /\ Pair \in Rows
    BY <1>1 DEF TradingInv, Stored, Rows, Unlocked, ForUpdate
  <2>2. f \in [Rows -> [Tasks -> 0 .. 3]]
    BY <2>1 DEF NoKeyUpdate
  <2>3. o # Pair
    BY <1>1, TaskAssumption
  <2>4. rowLock' = [f EXCEPT ![Pair][t] = IF @ < KeyShare THEN KeyShare ELSE @]
    BY <1>3, <2>1, <2>3
  <2> HIDE DEF f
  <2>5. rowLock' \in [Rows -> [Tasks -> Unlocked .. ForUpdate]]
    BY <2>1, <2>2, <2>4 DEF Unlocked, ForUpdate, KeyShare
  <2> QED
    BY <1>3, <2>5 DEF TradingInv, Stored, dbVars, tradeVars
<1> QED
  BY <1>3, <1>5, <1>6, <1>8, <1>9, <1>11, <1>20, <1>21, <1>22, EngineTask

-----------------------------------------------------------------------------
(* The engine's own steps, the start and the restart.                      *)

LEMMA SpentInt ==
    ASSUME NEW trades \in Seq(EB!TradeType)
    PROVE  Total(trades, LAMBDA x : x.price * x.quantity) \in Int
<1> DEFINE n == Len(trades)
           f == [i \in 1 .. n |-> trades[i].price * trades[i].quantity]
<1>1. n \in Nat
  BY LenProperties
<1>2. ASSUME NEW i \in 1 .. n PROVE f[i] \in Int
  <2>1. trades[i] \in EB!TradeType
    BY <1>1, ElementOfSeq
  <2>2. trades[i].price * trades[i].quantity \in Nat
    BY <2>1, AmountsNat
  <2>3. f[i] = trades[i].price * trades[i].quantity
    OBVIOUS
  <2> HIDE DEF f
  <2> QED
    BY <2>2, <2>3
<1>3. Total(trades, LAMBDA x : x.price * x.quantity) = SumFunction(f)
  BY DEF Total
<1>4. IsFiniteSet(1 .. n) /\ DOMAIN f = 1 .. n
  BY <1>1, FS_Interval
<1> HIDE DEF f, n
<1> QED
  BY <1>2, <1>3, <1>4, SumWhole, SumInt DEF Ints

LEMMA EngineRunsKeeps == TradingInv /\ EngineRuns => TradingInv'
<1> SUFFICES ASSUME TradingInv, EngineRuns PROVE TradingInv'
  OBVIOUS
<1> DEFINE spent == Total(result, LAMBDA x : x.price * x.quantity)
           at(t) == pc' = "idle" /\ task[t].stage = "insert" /\ task[t].cur = taker
           new(t) == [task[t] EXCEPT !.trades = result, !.spent = spent]
<1>1. /\ Engine!EngineStep
      /\ task' = IF pc' = "idle"
                 THEN [t \in Tasks |-> IF task[t].stage = "insert" /\ task[t].cur = taker
                                       THEN new(t) ELSE task[t]]
                 ELSE task
      /\ UNCHANGED <<asked, lockVars, wallet, dbVars, restarts, exposed>>
  BY DEF EngineRuns
<1>2. result \in Seq(EB!TradeType) /\ spent \in Int
  <2>1. result \in Seq(EB!TradeType)
    BY DEF TradingInv, EngineSound, EB!TypeInv, EB!TypeOK
  <2> QED
    BY <2>1, SpentInt
<1> HIDE DEF spent
<1>3. \A t \in Tasks : task'[t] = IF at(t) THEN new(t) ELSE task[t]
  BY <1>1 DEF TradingInv, TasksSound
<1>4. ASSUME NEW t \in Tasks
      PROVE  /\ new(t) \in TaskRecord /\ new(t).stage = task[t].stage
             /\ new(t).cur = task[t].cur /\ new(t).triggered = task[t].triggered
             /\ new(t).trades = result
  BY <1>2, TaskFields DEF TradingInv, TaskRecord
<1>5. \A t \in Tasks : /\ task'[t] \in TaskRecord
                       /\ task'[t].stage = task[t].stage /\ task'[t].cur = task[t].cur
                       /\ task'[t].triggered = task[t].triggered
                       /\ task'[t] = task[t] \/ (at(t) /\ task'[t].trades = result)
  BY <1>3, <1>4, TaskFields DEF TradingInv
<1> HIDE DEF new
<1>6. DOMAIN task' = Tasks /\ task' = [t \in Tasks |-> task'[t]]
  BY <1>1 DEF TradingInv, TasksSound
<1>7. Lists' = Lists /\ ListsApart'
  BY <1>5, ListsUnchanged DEF TradingInv
<1>8. EB!EngineStep
  BY <1>1, <1>7, SameStep
<1>9. EngineSound'
  <2>1. EB!Next
    BY <1>8 DEF EB!Next
  <2> QED
    BY <2>1, EngineMoves DEF TradingInv
<1>10. NotOwnMaker' /\ pc # "idle"
  BY <1>8, StepTrades DEF TradingInv
<1>11. \A o \in OrderIds : order'[o].status = "UNUSED" <=> order[o].status = "UNUSED"
  BY <1>8, StepStatus DEF TradingInv
<1>12. TasksSound'
  <2>1. \A i \in 1 .. Len(result) : result[i].maker # taker
    BY <1>10 DEF TradingInv, NotOwnMaker
  <2>2. ASSUME NEW t \in Tasks PROVE SoundTask(t, task'[t])
    <3>1. SoundTask(t, task[t])
      BY DEF TradingInv, TasksSound
    <3>2. CASE task'[t] = task[t]
      BY <3>1, <3>2
    <3>3. CASE at(t) /\ task'[t].trades = result
      BY <1>5, <2>1, <3>1, <3>3 DEF SoundTask, StageFacts, Clean
    <3> QED
      BY <1>5, <3>2, <3>3
  <2>3. task' \in [Tasks -> TaskRecord]
    BY <1>5, <1>6
  <2> QED
    BY <2>2, <2>3 DEF TasksSound
<1>13. OrdersKnown'
  <2>1. \A t \in Tasks : task[t].stage = "insert" => task[t].cur \in OrderIds
    BY DEF TradingInv, TasksSound, SoundTask, StageFacts, Clean
  <2> QED
    BY <1>5, <1>11, <2>1 DEF TradingInv, OrdersKnown, Known
<1>14. RequestsSound'
  BY <1>1, <1>5 DEF TradingInv, RequestsSound, Tasks
<1>15. Stored'
  BY <1>1 DEF TradingInv, Stored, lockVars, dbVars, tradeVars
<1> QED
  BY <1>7, <1>9, <1>10, <1>12, <1>13, <1>14, <1>15 DEF TradingInv

LEMMA TradingInit == Init => TradingInv
<1> SUFFICES ASSUME Init PROVE TradingInv
  OBVIOUS
<1>1. /\ Engine!Init /\ task = [t \in Tasks |-> Fresh]
      /\ asked = [o \in OrderIds |-> [user |-> CHOOSE u \in Users : TRUE, ord |-> Engine!Blank]]
      /\ rows = [o \in OrderIds |-> NoRow]
      /\ rowLock = [r \in Rows |-> [t \in Tasks |-> Unlocked]]
      /\ wallet = [w \in Wallets |-> [available |-> Funds[w], locked |-> 0]]
      /\ committed = wallet
      /\ holder = [w \in Wallets |-> NoTask]
      /\ settled = [o \in OrderIds |-> 0] /\ fees = 0 /\ made = [a \in Assets |-> 0]
  BY DEF Init
<1>2. Fresh = Ended("ready")
  BY DEF Ended, Fresh
<1>3. /\ Fresh \in TaskRecord /\ Fresh.stage = "ready" /\ Fresh.triggered = <<>>
      /\ Fresh.trades = <<>>
  BY <1>2, EndedRecord DEF Stages
<1>4. \A t \in Tasks : task[t] = Fresh
  BY <1>1
<1>5. TasksSound
  <2>1. Len(Fresh.trades) = 0
    BY <1>3, EmptySeq
  <2>2. \A t \in Tasks : SoundTask(t, Fresh)
    BY <1>2, <1>3, <2>1 DEF SoundTask, StageFacts, Clean
  <2> QED
    BY <1>1, <1>3, <1>4, <2>2 DEF TasksSound
<1>6. Lists = {} /\ ListsApart
  BY <1>3, <1>4 DEF Lists, ListsApart
<1>7. EngineSound
  <2>1. EB!Init
    BY <1>1, <1>6, SameHelpers DEF Engine!Init, EB!Init
  <2> QED
    BY <2>1, EngineStarts
<1>8. pc = "idle" /\ order = [o \in OrderIds |-> EB!Blank]
  BY <1>1, SameHelpers DEF Engine!Init
<1>9. OrdersKnown /\ NotOwnMaker
  <2>1. \A o \in OrderIds : order[o].status = "UNUSED"
    BY <1>8 DEF EB!Blank
  <2> QED
    BY <1>3, <1>4, <1>8, <2>1 DEF OrdersKnown, Known, NotOwnMaker
<1>10. RequestsSound
  <2>1. EB!Blank \in EB!EngineOrder
    BY DEF EB!Blank, EB!EngineOrder, EB!OrderTypes, EB!Sides, EB!TimeInForce, EB!Statuses, EB!NoPrice
  <2>2. (CHOOSE u \in Users : TRUE) \in Users
    BY MarketAssumption
  <2>3. \A t \in OrderIds : task[t].stage # "reserve"
    BY <1>3, <1>4 DEF Tasks
  <2> QED
    BY <1>1, <2>1, <2>2, <2>3, SameHelpers DEF RequestsSound
<1>11. Stored
  <2>1. NoRow \in Row
    BY DEF NoRow, Row
  <2>2. wallet \in [Wallets -> Balance]
    BY <1>1, FundsAssumption DEF Balance
  <2> QED
    BY <1>1, <2>1, <2>2 DEF Stored, Unlocked, ForUpdate
<1> QED
  BY <1>5, <1>6, <1>7, <1>9, <1>10, <1>11 DEF TradingInv

LEMMA RestartKeeps == TradingInv /\ Restart => TradingInv'
<1> SUFFICES ASSUME TradingInv, Restart PROVE TradingInv'
  OBVIOUS
<1> DEFINE new(t) == IF Running(t) THEN Ended("failed") ELSE task[t]
<1>1. /\ order' = [o \in OrderIds |-> Engine!Blank]
      /\ levels' = [s \in Engine!Sides |-> [p \in Prices |-> <<>>]]
      /\ totals' = [s \in Engine!Sides |-> [p \in Prices |-> 0]]
      /\ stops'  = [s \in Engine!Sides |-> [p \in Prices |-> <<>>]]
      /\ ordersById' = {} /\ pendingStops' = <<>> /\ lastTradePrice' = Engine!NoPrice
      /\ pc' = "idle" /\ taker' = NoOrder
      /\ remaining' = 0 /\ quoteRemaining' = 0 /\ result' = <<>>
      /\ task' = [t \in Tasks |-> new(t)]
      /\ wallet' = committed
      /\ holder' = [w \in Wallets |-> NoTask]
      /\ rowLock' = [r \in Rows |-> [t \in Tasks |-> Unlocked]]
      /\ UNCHANGED <<asked, dbVars, exposed>>
  BY DEF Restart
<1>2. ASSUME NEW t \in Tasks
      PROVE  /\ new(t) \in TaskRecord /\ new(t) = Ended(new(t).stage)
             /\ new(t).stage \in {"ready", "done", "failed"}
  <2>1. CASE Running(t)
    BY <2>1, EndedRecord DEF Stages
  <2>2. CASE ~Running(t)
    <3>1. new(t) = task[t] /\ task[t].stage \in {"ready", "done", "failed"}
      BY <2>2 DEF Running
    <3> QED
      BY <3>1 DEF TradingInv, TasksSound, SoundTask, StageFacts, Clean
  <2> QED
    BY <2>1, <2>2
<1>3. ASSUME NEW t \in Tasks
      PROVE  /\ new(t).trades = <<>> /\ new(t).triggered = <<>> /\ SoundTask(t, new(t))
  <2>1. new(t) \in TaskRecord /\ new(t) = Ended(new(t).stage)
        /\ new(t).stage \in {"ready", "done", "failed"}
    BY <1>2
  <2> DEFINE k == new(t)
  <2> HIDE DEF new
  <2>2. k.trades = <<>> /\ k.triggered = <<>>
    BY <2>1, EndedRecord DEF Stages
  <2>3. Len(k.trades) = 0
    BY <2>2, EmptySeq
  <2> HIDE DEF k
  <2>4. k \in TaskRecord /\ k = Ended(k.stage) /\ k.stage \in {"ready", "done", "failed"}
    BY <2>1 DEF k
  <2>5. SoundTask(t, k)
    BY <2>2, <2>3, <2>4 DEF SoundTask, StageFacts, Clean
  <2> QED
    BY <2>2, <2>5 DEF k
<1>4. \A t \in Tasks : task'[t] = new(t)
  BY <1>1
<1>5. \A t \in Tasks : task'[t].stage = "ready" => task[t].stage = "ready"
  <2> SUFFICES ASSUME NEW t \in Tasks, task'[t].stage = "ready" PROVE task[t].stage = "ready"
    OBVIOUS
  <2>1. Ended("failed").stage = "failed"
    BY EndedRecord DEF Stages
  <2> QED
    BY <1>4, <2>1
<1> HIDE DEF new
<1>6. TasksSound'
  BY <1>1, <1>2, <1>3, <1>4 DEF TasksSound
<1>7. Lists' = {} /\ ListsApart'
  <2>1. \A t \in Tasks : task'[t].triggered = <<>>
    BY <1>3, <1>4
  <2> QED
    BY <2>1 DEF Lists, ListsApart
<1>8. EngineSound'
  <2>1. EB!Init'
    BY <1>1, <1>7, SameHelpers DEF EB!Init
  <2>2. (EB!Init => EngineSound)'
    BY EngineStarts, PTL
  <2> QED
    BY <2>1, <2>2
<1>9. \A o \in OrderIds : order'[o].status = "UNUSED"
  BY <1>1, SameHelpers DEF EB!Blank
<1>10. OrdersKnown'
  BY <1>2, <1>4, <1>9 DEF OrdersKnown, Known
<1>11. NotOwnMaker'
  BY <1>1 DEF NotOwnMaker
<1>12. RequestsSound'
  BY <1>1, <1>2, <1>4 DEF TradingInv, RequestsSound, Tasks
<1>13. Stored'
  BY <1>1 DEF TradingInv, Stored, dbVars, tradeVars, Unlocked, ForUpdate
<1> QED
  BY <1>6, <1>7, <1>8, <1>10, <1>11, <1>12, <1>13 DEF TradingInv

LEMMA StutterKeeps == TradingInv /\ UNCHANGED vars => TradingInv'
<1> SUFFICES ASSUME TradingInv, UNCHANGED vars PROVE TradingInv'
  OBVIOUS
<1>1. /\ UNCHANGED <<order, pc, taker, result, asked, task, rowLock, holder, wallet, rows,
                     committed, settled, fees, made>>
      /\ UNCHANGED engineVars
  BY DEF vars, engineVars, lockVars, dbVars, tradeVars
<1>2. UNCHANGED EB!vars
  BY <1>1 DEF Lists, engineVars, EB!vars, EB!bookVars, EB!stopVars, EB!callVars
<1>3. EngineSound'
  BY <1>2, EngineMoves DEF TradingInv
<1>4. TasksSound' /\ ListsApart' /\ NotOwnMaker' /\ RequestsSound' /\ Stored'
  BY <1>1 DEF TradingInv, TasksSound, ListsApart, NotOwnMaker, RequestsSound, Stored
<1>5. OrdersKnown'
  BY <1>1 DEF TradingInv, OrdersKnown, Known
<1> QED
  BY <1>3, <1>4, <1>5 DEF TradingInv

LEMMA TaskStepKeeps ==
    ASSUME TradingInv, NEW t \in Tasks, TaskStep(t)
    PROVE  TradingInv'
<1>1. CASE Short(t) \/ NoMaker(t) \/ EmptyTrade(t) \/ EmptyRelease(t)
  BY <1>1, AbortKeeps DEF Short, NoMaker, EmptyTrade, EmptyRelease, At
<1> QED
  BY <1>1, ReserveKeeps, RefuseKeeps, InsertKeeps, LockWalletKeeps, TransferKeeps,
     FlushTradeKeeps, WriteMakerKeeps, ReleaseKeeps, NoReleaseKeeps, TakeStopsKeeps,
     SkipStopKeeps, TriggerKeeps, FireKeeps, CancelOrderKeeps, CommitKeeps DEF TaskStep

LEMMA TradingNext == TradingInv /\ [Next]_vars => TradingInv'
<1> SUFFICES ASSUME TradingInv, [Next]_vars PROVE TradingInv'
  OBVIOUS
<1>1. CASE EngineRuns
  BY <1>1, EngineRunsKeeps
<1>2. CASE \E t \in OrderIds : \E req \in RequestsOf[t] : Begin(t, req)
  BY <1>2, BeginKeeps
<1>3. CASE \E t \in CancelIds, o \in OrderIds : CancelSelect(t, o)
  BY <1>3, CancelSelectKeeps
<1>4. CASE \E t \in Tasks : TaskStep(t) \/ Fail(t)
  BY <1>4, TaskStepKeeps, AbortKeeps DEF Fail
<1>5. CASE Restart
  BY <1>5, RestartKeeps
<1>6. CASE UNCHANGED vars
  BY <1>6, StutterKeeps
<1> QED
  BY <1>1, <1>2, <1>3, <1>4, <1>5, <1>6 DEF Next

\* What every request, list and row is while requests, failures and restarts
\* interleave; the engine's own invariant holds throughout (trading.py).
THEOREM TradingCorrect == Spec => []TradingInv
<1> QED
  BY TradingInit, TradingNext, PTL DEF Spec

\* No balance is ever negative, whichever requests settle, release, fail or
\* roll back (wallet_service.py, ck_wallet_*).
THEOREM TypeCorrect == Spec => []TypeOK
<1>1. TradingInv => TypeOK
  <2> SUFFICES ASSUME TradingInv PROVE TypeOK
    OBVIOUS
  <2>1. \A t \in Tasks : task[t].stage \in Stages
    BY DEF TradingInv, TasksSound, TaskRecord
  <2>2. \A o \in OrderIds : rows[o].status \in Engine!Statuses \cup {"NONE"}
    BY SameHelpers DEF TradingInv, Stored, Row
  <2> QED
    BY <2>1, <2>2 DEF TradingInv, Stored, TypeOK
<1> QED
  BY <1>1, TradingCorrect, PTL

-----------------------------------------------------------------------------
(* Money.                                                                  *)

Worth(balance) == balance.available + balance.locked

WorthOf(balances, asset) == [u \in Users |-> Worth(balances[<<u, asset>>])]

\* By how much a task has changed the wallets it has locked.
MovedBy(t, asset) ==
    [u \in Users |-> IF holder[<<u, asset>>] = t
                     THEN Worth(wallet[<<u, asset>>]) - Worth(committed[<<u, asset>>])
                     ELSE 0]

Moved(t, asset) == SumFunctionOnSet(MovedBy(t, asset), Users)

\* What has left the wallets: fees, less what was paid out and not paid in.
Left(charged, more, asset) == (IF asset = "quote" THEN charged ELSE 0) - more[asset]

LeftBy(asset)  == [t \in Tasks |-> Left(task[t].fees, task[t].made, asset)]
LeftNow(asset) == SumFunctionOnSet(LeftBy(asset), Tasks)

\* No task charges or makes anything.
SameBooks == \A t \in Tasks : task'[t].fees = task[t].fees /\ task'[t].made = task[t].made

WorthAll(balances, asset) == SumFunctionOnSet(WorthOf(balances, asset), Users)

\* A wallet differs from its committed row only while a task has it locked, and
\* what a task has moved between wallets comes to what it has charged and made.
Balanced(asset) ==
    /\ \A t \in Tasks : Moved(t, asset) = 0 - LeftBy(asset)[t]
    /\ WorthAll(committed, asset) = Deposited(asset) - Left(fees, made, asset)
    /\ WorthAll(wallet, asset) = Deposited(asset) - Left(fees, made, asset) - LeftNow(asset)

MoneyInv ==
    /\ \A w \in Wallets : holder[w] = NoTask => wallet[w] = committed[w]
    /\ \A a \in Assets : Balanced(a)

LEMMA FiniteSets == IsFiniteSet(Users) /\ IsFiniteSet(Tasks)
BY MarketAssumption, TaskAssumption, FS_Union DEF Tasks

LEMMA WorthInt ==
    ASSUME NEW b \in [Wallets -> Balance], NEW a \in Assets
    PROVE  /\ \A u \in Users : Worth(b[<<u, a>>]) \in Nat
           /\ Ints(WorthOf(b, a), Users) /\ WorthAll(b, a) \in Int
<1>1. \A u \in Users : b[<<u, a>>] \in Balance
  BY MoneyWallets
<1>2. \A x \in Balance : Worth(x) \in Nat
  BY DEF Balance, Worth
<1>3. \A u \in Users : Worth(b[<<u, a>>]) \in Nat
  BY <1>1, <1>2
<1>4. Ints(WorthOf(b, a), Users)
  BY <1>3 DEF Ints, WorthOf
<1> QED
  BY <1>3, <1>4, FiniteSets, SumInt DEF WorthAll

LEMMA DepositedInt == \A a \in Assets : Deposited(a) \in Int
<1> SUFFICES ASSUME NEW a \in Assets PROVE Deposited(a) \in Int
  OBVIOUS
<1> DEFINE f == [u \in Users |-> Funds[<<u, a>>]]
<1>1. Ints(f, Users) /\ DOMAIN f = Users
  BY MoneyWallets, FundsAssumption DEF Ints
<1>2. Deposited(a) = SumFunction(f)
  BY DEF Deposited
<1> HIDE DEF f
<1> QED
  BY <1>1, <1>2, FiniteSets, SumWhole, SumInt

LEMMA MovedInt ==
    ASSUME Stored, NEW t, NEW a \in Assets
    PROVE  Ints(MovedBy(t, a), Users) /\ Moved(t, a) \in Int
<1>1. \A u \in Users : Worth(wallet[<<u, a>>]) \in Nat /\ Worth(committed[<<u, a>>]) \in Nat
  BY WorthInt DEF Stored
<1>2. Ints(MovedBy(t, a), Users)
  BY <1>1 DEF Ints, MovedBy
<1> QED
  BY <1>2, FiniteSets, SumInt DEF Moved

LEMMA LeftInt ==
    ASSUME TasksSound, NEW a \in Assets
    PROVE  /\ Ints(LeftBy(a), Tasks) /\ LeftNow(a) \in Int
           /\ \A t \in Tasks : LeftBy(a)[t] = Left(task[t].fees, task[t].made, a)
           /\ \A t \in Tasks : LeftBy(a)[t] \in Int
<1>1. ASSUME NEW t \in Tasks PROVE Left(task[t].fees, task[t].made, a) \in Int
  <2>1. task[t].fees \in Nat /\ task[t].made[a] \in Nat
    BY TaskFields
  <2> QED
    BY <2>1 DEF Left
<1>2. \A t \in Tasks : LeftBy(a)[t] = Left(task[t].fees, task[t].made, a)
  BY DEF LeftBy
<1>3. Ints(LeftBy(a), Tasks)
  BY <1>1, <1>2 DEF Ints
<1> QED
  BY <1>1, <1>2, <1>3, FiniteSets, SumInt DEF LeftNow

\* In place, the fees and what was made are summed apart.
LEMMA LeftParts ==
    ASSUME TasksSound, NEW a \in Assets
    PROVE  LET charged == SumFunction([t \in Tasks |-> task[t].fees])
               more    == SumFunction([t \in Tasks |-> task[t].made[a]])
           IN  /\ LeftNow(a) = (IF a = "quote" THEN charged ELSE 0) - more
               /\ charged \in Int /\ more \in Int
<1> DEFINE f == [t \in Tasks |-> task[t].fees]
           g == [t \in Tasks |-> task[t].made[a]]
           h == LeftBy(a)
<1>1. /\ \A t \in Tasks : f[t] \in Nat /\ g[t] \in Nat
      /\ \A t \in Tasks : h[t] = (IF a = "quote" THEN f[t] ELSE 0) - g[t]
      /\ DOMAIN f = Tasks /\ DOMAIN g = Tasks
  BY TaskFields DEF LeftBy, Left
<1>2. LeftNow(a) = SumFunctionOnSet(h, Tasks)
  BY DEF LeftNow
<1> HIDE DEF f, g, h
<1>3. SumFunction(f) = SumFunctionOnSet(f, Tasks) /\ SumFunction(g) = SumFunctionOnSet(g, Tasks)
  BY <1>1, SumWhole
<1>4. Ints(f, Tasks) /\ Ints(g, Tasks) /\ Ints(h, Tasks)
  BY <1>1 DEF Ints
<1>5. SumFunction(f) \in Int /\ SumFunction(g) \in Int /\ LeftNow(a) \in Int
  BY <1>2, <1>3, <1>4, FiniteSets, SumInt
<1>6. CASE a = "quote"
  <2>1. \A t \in Tasks : f[t] = h[t] + g[t]
    BY <1>1, <1>6
  <2>2. SumFunctionOnSet(f, Tasks) = SumFunctionOnSet(h, Tasks) + SumFunctionOnSet(g, Tasks)
    BY <1>4, <2>1, FiniteSets, SumPlus
  <2> QED
    BY <1>2, <1>3, <1>5, <1>6, <2>2 DEF f, g
<1>7. CASE a # "quote"
  <2> DEFINE z == [t \in Tasks |-> 0]
  <2>1. \A t \in Tasks : z[t] = h[t] + g[t] /\ z[t] = 0
    BY <1>1, <1>7
  <2> HIDE DEF z
  <2>2. SumFunctionOnSet(z, Tasks) = SumFunctionOnSet(h, Tasks) + SumFunctionOnSet(g, Tasks)
    BY <1>4, <2>1, FiniteSets, SumPlus
  <2>3. SumFunctionOnSet(z, Tasks) = 0
    BY <2>1, FiniteSets, SumZero
  <2> QED
    BY <1>2, <1>3, <1>5, <1>7, <2>2, <2>3 DEF f, g
<1> QED
  BY <1>6, <1>7

LEMMA MoneyMeans == TradingInv /\ MoneyInv => FundsConserved
<1> SUFFICES ASSUME TradingInv, MoneyInv PROVE FundsConserved
  OBVIOUS
<1> DEFINE charged == SumFunction([t \in Tasks |-> task[t].fees])
           more(a) == SumFunction([t \in Tasks |-> task[t].made[a]])
<1>1. \A b, a : Held(b, a) = WorthAll(b, a)
  <2> SUFFICES ASSUME NEW b, NEW a PROVE Held(b, a) = WorthAll(b, a)
    OBVIOUS
  <2>1. Held(b, a) = SumFunction(WorthOf(b, a))
    BY DEF Held, WorthOf, Worth
  <2>2. DOMAIN WorthOf(b, a) = Users
    BY DEF WorthOf
  <2> QED
    BY <2>1, <2>2, SumWhole DEF WorthAll
<1>2. ASSUME NEW a \in Assets
      PROVE  /\ Held(committed, a) = Deposited(a) - (IF a = "quote" THEN fees ELSE 0) + made[a]
             /\ Held(wallet, a) = Deposited(a) - (IF a = "quote" THEN fees ELSE 0) + made[a]
                                    - (IF a = "quote" THEN charged ELSE 0) + more(a)
             /\ Deposited(a) \in Int /\ made[a] \in Int /\ more(a) \in Int
  <2>1. /\ LeftNow(a) = (IF a = "quote" THEN charged ELSE 0) - more(a)
        /\ charged \in Int /\ more(a) \in Int
    BY LeftParts DEF TradingInv
  <2>2. Deposited(a) \in Int /\ fees \in Int /\ made[a] \in Int
    BY DepositedInt DEF TradingInv, Stored
  <2>3. /\ WorthAll(committed, a) = Deposited(a) - Left(fees, made, a)
        /\ WorthAll(wallet, a) = Deposited(a) - Left(fees, made, a) - LeftNow(a)
    BY DEF MoneyInv, Balanced
  <2> HIDE DEF charged, more
  <2> QED
    BY <1>1, <2>1, <2>2, <2>3 DEF Left
<1>3. charged \in Int /\ fees \in Int
  BY LeftParts DEF TradingInv, Stored, Assets
<1> HIDE DEF charged, more
<1>4. /\ Held(committed, "base")  = Deposited("base") + made["base"]
      /\ Held(wallet, "base")     = Deposited("base") + made["base"] + more("base")
  BY <1>2 DEF Assets
<1>5. /\ Held(committed, "quote") = Deposited("quote") - fees + made["quote"]
      /\ Held(wallet, "quote") = Deposited("quote") - fees + made["quote"] - charged + more("quote")
  BY <1>2 DEF Assets
<1> QED
  BY <1>4, <1>5, Zenon DEF FundsConserved, charged, more

\* What one task has charged and made changes.
LEMMA LeftChange ==
    ASSUME TasksSound, TasksSound', NEW t \in Tasks, \A u \in Tasks \ {t} : task'[u] = task[u],
           NEW a \in Assets
    PROVE  /\ LeftNow(a)' = LeftNow(a) - LeftBy(a)[t] + LeftBy(a)'[t]
           /\ \A u \in Tasks \ {t} : LeftBy(a)'[u] = LeftBy(a)[u]
           /\ LeftBy(a)'[t] = Left(task'[t].fees, task'[t].made, a)
<1> DEFINE f == LeftBy(a)
           g == LeftBy(a)'
<1>1. Ints(f, Tasks) /\ \A u \in Tasks : f[u] = Left(task[u].fees, task[u].made, a)
  BY LeftInt
<1>2. \A u \in Tasks : g[u] = Left(task'[u].fees, task'[u].made, a)
  BY DEF LeftBy
<1>3. Ints(g, Tasks)
  <2>1. ASSUME NEW u \in Tasks PROVE g[u] \in Int
    <3>1. task'[u].fees \in Nat /\ task'[u].made[a] \in Nat
      BY DEF TasksSound, TaskRecord
    <3> HIDE DEF g
    <3> QED
      BY <1>2, <3>1 DEF Left
  <2> HIDE DEF g
  <2> QED
    BY <2>1 DEF Ints
<1>4. LeftNow(a) = SumFunctionOnSet(f, Tasks) /\ LeftNow(a)' = SumFunctionOnSet(g, Tasks)
  BY DEF LeftNow
<1>5. \A u \in Tasks \ {t} : g[u] = f[u]
  BY <1>1, <1>2
<1> HIDE DEF f, g
<1>6. SumFunctionOnSet(g, Tasks) = SumFunctionOnSet(f, Tasks) - f[t] + g[t]
  BY <1>1, <1>3, <1>5, FiniteSets, SumChange
<1> QED
  BY <1>2, <1>4, <1>5, <1>6 DEF f, g

\* Steps that move nothing from one wallet to another and charge nothing.
LEMMA NothingMoves ==
    ASSUME TradingInv, MoneyInv, TasksSound', UNCHANGED <<committed, fees, made>>, SameBooks,
           \A w \in Wallets : Worth(wallet'[w]) = Worth(wallet[w]),
           \A w \in Wallets : holder'[w] # holder[w] => holder[w] = NoTask,
           \A w \in Wallets : holder'[w] = NoTask => wallet'[w] = wallet[w]
    PROVE  MoneyInv'
<1>1. \A w \in Wallets : holder'[w] = NoTask => wallet'[w] = committed'[w]
  BY DEF MoneyInv
<1>2. ASSUME NEW t \in Tasks, NEW a \in Assets PROVE Moved(t, a)' = Moved(t, a)
  <2>1. ASSUME NEW u \in Users
        PROVE  (IF holder'[<<u, a>>] = t
                THEN Worth(wallet'[<<u, a>>]) - Worth(committed[<<u, a>>]) ELSE 0)
             = (IF holder[<<u, a>>] = t
                THEN Worth(wallet[<<u, a>>]) - Worth(committed[<<u, a>>]) ELSE 0)
    <3> DEFINE w == <<u, a>>
    <3>1. w \in Wallets /\ t # NoTask
      BY MoneyWallets, TaskAssumption
    <3>2. Worth(wallet[w]) \in Nat /\ Worth(committed[w]) \in Nat
      BY WorthInt DEF TradingInv, Stored
    <3> HIDE DEF w
    <3>3. (IF holder'[w] = t THEN Worth(wallet'[w]) - Worth(committed[w]) ELSE 0)
            = (IF holder[w] = t THEN Worth(wallet[w]) - Worth(committed[w]) ELSE 0)
      <4>1. CASE holder'[w] = holder[w]
        BY <3>1, <4>1
      <4>2. CASE holder'[w] # holder[w]
        <5>1. holder[w] = NoTask /\ wallet[w] = committed[w]
          BY <3>1, <4>2 DEF MoneyInv
        <5> QED
          BY <3>1, <3>2, <5>1
      <4> QED
        BY <4>1, <4>2
    <3> QED
      BY <3>3 DEF w
  <2>2. MovedBy(t, a)' = MovedBy(t, a)
    BY <2>1 DEF MovedBy
  <2> QED
    BY <2>2 DEF Moved
<1>3. ASSUME NEW a \in Assets
      PROVE  WorthAll(wallet, a)' = WorthAll(wallet, a) /\ WorthAll(committed, a)' = WorthAll(committed, a)
  <2>1. \A u \in Users : Worth(wallet'[<<u, a>>]) = Worth(wallet[<<u, a>>])
    BY MoneyWallets
  <2>2. WorthOf(wallet, a)' = WorthOf(wallet, a) /\ WorthOf(committed, a)' = WorthOf(committed, a)
    BY <2>1 DEF WorthOf
  <2> QED
    BY <2>2 DEF WorthAll
<1>4. ASSUME NEW a \in Assets PROVE LeftBy(a)' = LeftBy(a) /\ LeftNow(a)' = LeftNow(a)
  <2>1. LeftBy(a)' = LeftBy(a)
    BY DEF LeftBy, SameBooks
  <2> QED
    BY <2>1 DEF LeftNow
<1>5. ASSUME NEW a \in Assets PROVE Balanced(a)'
  <2>1. Balanced(a) /\ Deposited(a)' = Deposited(a) /\ Left(fees, made, a)' = Left(fees, made, a)
    BY DEF MoneyInv, Deposited, Left
  <2> QED
    BY <1>2, <1>3, <1>4, <2>1 DEF Balanced
<1> QED
  BY <1>1, <1>5 DEF MoneyInv

\* Locking a wallet that no other task has locked.
LEMMA LockIsFree ==
    ASSUME Stored, NEW t \in Tasks, NEW x, WalletHolders(t, x) = {},
           holder' = [holder EXCEPT ![x] = t]
    PROVE  /\ \A w \in Wallets : holder'[w] # holder[w] => holder[w] = NoTask
           /\ \A w \in Wallets : holder'[w] = NoTask => w # x
BY TaskAssumption DEF Stored, WalletHolders

LEMMA WaitsNot ==
    ASSUME NEW t \in Tasks, Blockers(t) = {}
    PROVE  /\ task[t].stage = "reserve" => WalletHolders(t, Spends(t)) = {}
           /\ task[t].stage = "settle" /\ ~AllLocked(t) => WalletHolders(t, NextWallet(t)) = {}
           /\ task[t].stage = "release" /\ ReleaseDue(t) # 0 =>
                WalletHolders(t, Spends(task[t].cur)) = {}
BY DEF Blockers

LEMMA ReserveMoney ==
    ASSUME TradingInv, MoneyInv, NEW t \in Tasks, Reserve(t)
    PROVE  MoneyInv'
<1> DEFINE w      == Spends(t)
           amount == ReserveFor(asked[t].ord)
<1>1. task[t].stage = "reserve" /\ t \in OrderIds
  BY DEF Reserve, At, TradingInv, TasksSound, SoundTask, StageFacts, Clean, Tasks
<1>2. w \in Wallets /\ amount \in Nat
  BY <1>1, SpendsWallet, AskedOrder, ReserveNat DEF TradingInv
<1>3. WalletHolders(t, w) = {}
  BY <1>1, WaitsNot DEF Reserve, At
<1>4. /\ wallet' = [wallet EXCEPT ![w] = [available |-> @.available - amount,
                                          locked    |-> @.locked + amount]]
      /\ holder' = [holder EXCEPT ![w] = t]
      /\ task' = [task EXCEPT ![t].stage = "insert", ![t].cur = t]
      /\ UNCHANGED <<committed, fees, made>>
  BY DEF Reserve, dbVars, tradeVars
<1> HIDE DEF w, amount
<1>5. /\ \A x \in Wallets : holder'[x] # holder[x] => holder[x] = NoTask
      /\ \A x \in Wallets : holder'[x] = NoTask => x # w
  BY <1>3, <1>4, LockIsFree DEF TradingInv
<1>6. /\ \A x \in Wallets : Worth(wallet'[x]) = Worth(wallet[x])
      /\ \A x \in Wallets : x # w => wallet'[x] = wallet[x]
  BY <1>2, <1>4 DEF TradingInv, Stored, Balance, Worth
<1>7. SameBooks
  BY <1>4 DEF SameBooks, TradingInv, TasksSound, TaskRecord
<1>8. TasksSound'
  BY ReserveKeeps DEF TradingInv
<1> QED
  BY <1>4, <1>5, <1>6, <1>7, <1>8, NothingMoves

LEMMA ReleaseMoney ==
    ASSUME TradingInv, MoneyInv, NEW t \in Tasks, Release(t)
    PROVE  MoneyInv'
<1> DEFINE w      == Spends(task[t].cur)
           amount == Releasable(w, ReleaseDue(t))
<1>1. task[t].stage = "release" /\ task[t].cur \in OrderIds
  BY DEF Release, At, TradingInv, TasksSound, SoundTask, StageFacts, Clean
<1>2. w \in Wallets /\ ReleaseDue(t) \in Int
  BY <1>1, SpendsWallet, ReleaseDueInt DEF TradingInv
<1>3. wallet[w].locked \in Nat
  BY <1>2 DEF TradingInv, Stored, Balance
<1>4. /\ amount > 0 /\ Blockers(t) = {}
      /\ wallet' = [wallet EXCEPT ![w] = [available |-> @.available + amount,
                                          locked    |-> @.locked - amount]]
      /\ holder' = [holder EXCEPT ![w] = t]
      /\ task' = [task EXCEPT ![t].stage = AfterRelease(t)]
      /\ UNCHANGED <<committed, fees, made>>
  BY DEF Release, At, dbVars, tradeVars
<1> HIDE DEF w
<1>5. amount \in Int /\ ReleaseDue(t) # 0
  BY <1>2, <1>3, <1>4 DEF Releasable
<1> HIDE DEF amount
<1>6. WalletHolders(t, w) = {}
  BY <1>1, <1>4, <1>5, WaitsNot DEF w
<1>7. /\ \A x \in Wallets : holder'[x] # holder[x] => holder[x] = NoTask
      /\ \A x \in Wallets : holder'[x] = NoTask => x # w
  BY <1>4, <1>6, LockIsFree DEF TradingInv
<1>8. /\ \A x \in Wallets : Worth(wallet'[x]) = Worth(wallet[x])
      /\ \A x \in Wallets : x # w => wallet'[x] = wallet[x]
  BY <1>2, <1>4, <1>5 DEF TradingInv, Stored, Balance, Worth
<1>9. SameBooks
  BY <1>4 DEF SameBooks, TradingInv, TasksSound, TaskRecord
<1>10. TasksSound'
  BY ReleaseKeeps DEF TradingInv
<1> QED
  BY <1>4, <1>7, <1>8, <1>9, <1>10, NothingMoves

LEMMA LockWalletMoney ==
    ASSUME TradingInv, MoneyInv, NEW t \in Tasks, LockWallet(t)
    PROVE  MoneyInv'
<1> DEFINE w == NextWallet(t)
<1>1. /\ task[t].stage = "settle" /\ ~AllLocked(t) /\ Blockers(t) = {}
      /\ holder' = [holder EXCEPT ![w] = t]
      /\ UNCHANGED <<task, wallet, committed, fees, made>>
  BY DEF LockWallet, At, dbVars, tradeVars
<1>2. WalletHolders(t, w) = {}
  BY <1>1, WaitsNot
<1> HIDE DEF w
<1>3. \A x \in Wallets : holder'[x] # holder[x] => holder[x] = NoTask
  BY <1>1, <1>2, LockIsFree DEF TradingInv
<1>4. TasksSound' /\ SameBooks
  BY <1>1, LockWalletKeeps DEF TradingInv, SameBooks
<1> QED
  BY <1>1, <1>3, <1>4, NothingMoves

\* The steps that change neither wallets nor their locks nor the fees.
LEMMA QuietMoney ==
    ASSUME TradingInv, TradingInv', MoneyInv, UNCHANGED <<wallet, committed, holder, fees, made>>,
           SameBooks
    PROVE  MoneyInv'
BY NothingMoves DEF TradingInv

\* A task that ends, and what has become of the wallets it had locked.
EndsWith(t) ==
    /\ holder' = [w \in Wallets |-> IF holder[w] = t THEN NoTask ELSE holder[w]]
    /\ \A u \in Tasks \ {t} : task'[u] = task[u]
    /\ task'[t].fees = 0 /\ task'[t].made = [a \in Assets |-> 0]

LEMMA OthersMoved ==
    ASSUME TradingInv, NEW t \in Tasks, EndsWith(t), NEW a \in Assets,
           \A w \in Wallets : holder[w] # t =>
               wallet'[w] = wallet[w] /\ committed'[w] = committed[w]
    PROVE  /\ \A u \in Tasks \ {t} : Moved(u, a)' = Moved(u, a)
           /\ Moved(t, a)' = 0
<1>1. ASSUME NEW u \in Tasks \ {t} PROVE MovedBy(u, a)' = MovedBy(u, a)
  <2>1. ASSUME NEW x \in Users
        PROVE  (IF holder'[<<x, a>>] = u
                THEN Worth(wallet'[<<x, a>>]) - Worth(committed'[<<x, a>>]) ELSE 0)
             = (IF holder[<<x, a>>] = u
                THEN Worth(wallet[<<x, a>>]) - Worth(committed[<<x, a>>]) ELSE 0)
    <3> DEFINE w == <<x, a>>
    <3>1. w \in Wallets /\ u # NoTask /\ u # t
      BY MoneyWallets, TaskAssumption
    <3> HIDE DEF w
    <3>2. holder'[w] = IF holder[w] = t THEN NoTask ELSE holder[w]
      BY <3>1 DEF EndsWith
    <3>3. (IF holder'[w] = u THEN Worth(wallet'[w]) - Worth(committed'[w]) ELSE 0)
            = (IF holder[w] = u THEN Worth(wallet[w]) - Worth(committed[w]) ELSE 0)
      BY <3>1, <3>2
    <3> QED
      BY <3>3 DEF w
  <2> QED
    BY <2>1 DEF MovedBy
<1>2. \A x \in Users : MovedBy(t, a)'[x] = 0
  <2>1. \A x \in Users : holder'[<<x, a>>] # t
    BY MoneyWallets, TaskAssumption DEF EndsWith
  <2> QED
    BY <2>1 DEF MovedBy
<1>3. Moved(t, a)' = 0
  <2> DEFINE f == MovedBy(t, a)'
  <2>1. Moved(t, a)' = SumFunctionOnSet(f, Users) /\ \A x \in Users : f[x] = 0
    BY <1>2 DEF Moved
  <2> HIDE DEF f
  <2> QED
    BY <2>1, FiniteSets, SumZero
<1>4. \A u \in Tasks \ {t} : Moved(u, a)' = Moved(u, a)
  BY <1>1 DEF Moved
<1> QED
  BY <1>3, <1>4

LEMMA TaskEnds ==
    ASSUME TradingInv, NEW t \in Tasks, Unlock(t), NEW st \in {"done", "failed"},
           task' = [task EXCEPT ![t] = Ended(st)]
    PROVE  EndsWith(t)
<1> DEFINE k == Ended(st)
<1>1. k.fees = 0 /\ k.made = [a \in Assets |-> 0]
  BY EndedRecord DEF Stages
<1> HIDE DEF k
<1>2. task'[t] = k /\ \A u \in Tasks \ {t} : task'[u] = task[u]
  BY DEF TradingInv, TasksSound, k
<1> QED
  BY <1>1, <1>2 DEF Unlock, EndsWith

\* When a task ends, the locks it had are free and its wallets are at rest.
LEMMA EndAtRest ==
    ASSUME TradingInv, TradingInv', MoneyInv, NEW t \in Tasks, EndsWith(t),
           \A w \in Wallets : holder[w] # t =>
               wallet'[w] = wallet[w] /\ committed'[w] = committed[w],
           \A w \in Wallets : holder[w] = t => wallet'[w] = committed'[w]
    PROVE  /\ \A w \in Wallets : holder'[w] = NoTask => wallet'[w] = committed'[w]
           /\ \A a \in Assets : /\ \A u \in Tasks : Moved(u, a)' = 0 - LeftBy(a)'[u]
                              /\ LeftNow(a)' = LeftNow(a) - LeftBy(a)[t]
<1>1. \A w \in Wallets : holder'[w] = NoTask => wallet'[w] = committed'[w]
  <2> SUFFICES ASSUME NEW w \in Wallets, holder'[w] = NoTask PROVE wallet'[w] = committed'[w]
    OBVIOUS
  <2>1. CASE holder[w] = t
    BY <2>1
  <2>2. CASE holder[w] # t
    <3>1. holder[w] = NoTask
      BY <2>2 DEF EndsWith
    <3> QED
      BY <2>2, <3>1 DEF MoneyInv
  <2> QED
    BY <2>1, <2>2
<1>2. ASSUME NEW a \in Assets
      PROVE  /\ \A u \in Tasks : Moved(u, a)' = 0 - LeftBy(a)'[u]
             /\ LeftNow(a)' = LeftNow(a) - LeftBy(a)[t]
  <2>1. (\A u \in Tasks \ {t} : Moved(u, a)' = Moved(u, a)) /\ Moved(t, a)' = 0
    BY OthersMoved
  <2>2. /\ LeftNow(a)' = LeftNow(a) - LeftBy(a)[t] + LeftBy(a)'[t]
        /\ \A u \in Tasks \ {t} : LeftBy(a)'[u] = LeftBy(a)[u]
        /\ LeftBy(a)'[t] = Left(task'[t].fees, task'[t].made, a)
    BY LeftChange DEF TradingInv, EndsWith
  <2>3. LeftBy(a)'[t] = 0
    BY <2>2 DEF EndsWith, Left
  <2>4. LeftNow(a) \in Int /\ LeftBy(a)[t] \in Int
    BY LeftInt DEF TradingInv
  <2>5. \A u \in Tasks : Moved(u, a) = 0 - LeftBy(a)[u]
    BY DEF MoneyInv, Balanced
  <2>6. LeftNow(a)' = LeftNow(a) - LeftBy(a)[t]
    BY <2>2, <2>3, <2>4
  <2>7. \A u \in Tasks : Moved(u, a)' = 0 - LeftBy(a)'[u]
    BY <2>1, <2>2, <2>3, <2>5
  <2> QED
    BY <2>6, <2>7
<1> QED
  BY <1>1, <1>2

LEMMA CommitMoney ==
    ASSUME TradingInv, MoneyInv, NEW t \in Tasks, Commit(t)
    PROVE  MoneyInv'
<1>1. TradingInv'
  BY CommitKeeps
<1>2. /\ committed' = [w \in Wallets |-> IF holder[w] = t THEN wallet[w] ELSE committed[w]]
      /\ fees' = fees + task[t].fees /\ made' = [a \in Assets |-> made[a] + task[t].made[a]]
      /\ wallet' = wallet
      /\ Unlock(t) /\ task' = [task EXCEPT ![t] = Ended("done")]
  BY DEF Commit
<1>3. EndsWith(t)
  BY <1>2, TaskEnds
<1>4. /\ \A w \in Wallets : holder'[w] = NoTask => wallet'[w] = committed'[w]
      /\ \A a \in Assets : /\ \A u \in Tasks : Moved(u, a)' = 0 - LeftBy(a)'[u]
                         /\ LeftNow(a)' = LeftNow(a) - LeftBy(a)[t]
  BY <1>1, <1>2, <1>3, EndAtRest
<1>5. ASSUME NEW a \in Assets
      PROVE  WorthAll(committed, a)' = WorthAll(committed, a) + Moved(t, a)
  <2> DEFINE f == WorthOf(committed, a)
             g == MovedBy(t, a)
             h == WorthOf(committed', a)
  <2>1. Ints(f, Users) /\ Ints(g, Users)
    BY WorthInt, MovedInt DEF TradingInv, Stored
  <2>2. ASSUME NEW u \in Users PROVE h[u] = f[u] + g[u]
    <3> DEFINE w == <<u, a>>
    <3>1. w \in Wallets
      BY MoneyWallets
    <3>2. Worth(wallet[w]) \in Nat /\ Worth(committed[w]) \in Nat
      BY WorthInt DEF TradingInv, Stored
    <3>3. /\ f[u] = Worth(committed[w]) /\ h[u] = Worth(committed'[w])
          /\ g[u] = IF holder[w] = t THEN Worth(wallet[w]) - Worth(committed[w]) ELSE 0
      BY DEF WorthOf, MovedBy
    <3>4. committed'[w] = IF holder[w] = t THEN wallet[w] ELSE committed[w]
      BY <1>2, <3>1
    <3> HIDE DEF w, f, g, h
    <3> QED
      BY <3>2, <3>3, <3>4
  <2>3. /\ WorthAll(committed, a)' = SumFunctionOnSet(h, Users)
        /\ WorthAll(committed, a) = SumFunctionOnSet(f, Users)
        /\ Moved(t, a) = SumFunctionOnSet(g, Users)
    BY DEF WorthAll, Moved
  <2> HIDE DEF f, g, h
  <2> QED
    BY <2>1, <2>2, <2>3, FiniteSets, SumPlus
<1>6. \A a \in Assets : WorthAll(wallet, a)' = WorthAll(wallet, a)
  BY <1>2 DEF WorthAll
<1>7. ASSUME NEW a \in Assets PROVE Balanced(a)'
  <2>1. /\ WorthAll(committed, a) = Deposited(a) - Left(fees, made, a)
        /\ WorthAll(wallet, a) = Deposited(a) - Left(fees, made, a) - LeftNow(a)
        /\ Moved(t, a) = 0 - LeftBy(a)[t]
    BY DEF MoneyInv, Balanced
  <2>2. /\ Deposited(a) \in Int /\ fees \in Int /\ made[a] \in Int /\ LeftNow(a) \in Int
        /\ LeftBy(a)[t] \in Int /\ task[t].fees \in Int /\ task[t].made[a] \in Int
    BY DepositedInt, LeftInt, TaskFields DEF TradingInv, Stored
  <2>3. Left(fees, made, a)' = Left(fees, made, a) + LeftBy(a)[t]
    BY <1>2, <2>2 DEF Left, LeftBy
  <2>4. Deposited(a)' = Deposited(a)
    BY DEF Deposited
  <2>5. Left(fees, made, a) \in Int
    BY <2>2 DEF Left
  <2>6. WorthAll(committed, a)' = Deposited(a)' - Left(fees, made, a)'
    BY <1>5, <1>6, <2>1, <2>2, <2>3, <2>4, <2>5
  <2>7. WorthAll(wallet, a)' = Deposited(a)' - Left(fees, made, a)' - LeftNow(a)'
    BY <1>4, <1>5, <1>6, <2>1, <2>2, <2>3, <2>4, <2>5
  <2> QED
    BY <1>4, <2>6, <2>7 DEF Balanced
<1> QED
  BY <1>4, <1>7 DEF MoneyInv

LEMMA AbortMoney ==
    ASSUME TradingInv, MoneyInv, NEW t \in Tasks, pc = "idle", Abort(t)
    PROVE  MoneyInv'
<1>1. TradingInv'
  BY AbortKeeps
<1>2. /\ wallet' = [w \in Wallets |-> IF holder[w] = t THEN committed[w] ELSE wallet[w]]
      /\ UNCHANGED <<committed, fees, made>>
      /\ Unlock(t) /\ task' = [task EXCEPT ![t] = Ended("failed")]
  BY DEF Abort, dbVars, tradeVars
<1>3. EndsWith(t)
  BY <1>2, TaskEnds
<1>4. /\ \A w \in Wallets : holder'[w] = NoTask => wallet'[w] = committed'[w]
      /\ \A a \in Assets : /\ \A u \in Tasks : Moved(u, a)' = 0 - LeftBy(a)'[u]
                         /\ LeftNow(a)' = LeftNow(a) - LeftBy(a)[t]
  BY <1>1, <1>2, <1>3, EndAtRest
<1>5. ASSUME NEW a \in Assets
      PROVE  WorthAll(wallet, a) = WorthAll(wallet, a)' + Moved(t, a)
  <2> DEFINE f == WorthOf(wallet', a)
             g == MovedBy(t, a)
             h == WorthOf(wallet, a)
  <2>1. Ints(f, Users) /\ Ints(g, Users)
    BY <1>1, WorthInt, MovedInt DEF TradingInv, Stored
  <2>2. ASSUME NEW u \in Users PROVE h[u] = f[u] + g[u]
    <3> DEFINE w == <<u, a>>
    <3>1. w \in Wallets
      BY MoneyWallets
    <3>2. Worth(wallet[w]) \in Nat /\ Worth(committed[w]) \in Nat
      BY WorthInt DEF TradingInv, Stored
    <3>3. /\ f[u] = Worth(wallet'[w]) /\ h[u] = Worth(wallet[w])
          /\ g[u] = IF holder[w] = t THEN Worth(wallet[w]) - Worth(committed[w]) ELSE 0
      BY DEF WorthOf, MovedBy
    <3>4. wallet'[w] = IF holder[w] = t THEN committed[w] ELSE wallet[w]
      BY <1>2, <3>1
    <3> HIDE DEF w, f, g, h
    <3> QED
      BY <3>2, <3>3, <3>4
  <2>3. /\ WorthAll(wallet, a)' = SumFunctionOnSet(f, Users)
        /\ WorthAll(wallet, a) = SumFunctionOnSet(h, Users)
        /\ Moved(t, a) = SumFunctionOnSet(g, Users)
    BY DEF WorthAll, Moved
  <2> HIDE DEF f, g, h
  <2> QED
    BY <2>1, <2>2, <2>3, FiniteSets, SumPlus
<1>6. \A a \in Assets : WorthAll(committed, a)' = WorthAll(committed, a)
  BY <1>2 DEF WorthAll
<1>7. ASSUME NEW a \in Assets PROVE Balanced(a)'
  <2>1. /\ WorthAll(committed, a) = Deposited(a) - Left(fees, made, a)
        /\ WorthAll(wallet, a) = Deposited(a) - Left(fees, made, a) - LeftNow(a)
        /\ Moved(t, a) = 0 - LeftBy(a)[t]
    BY DEF MoneyInv, Balanced
  <2>2. /\ Deposited(a) \in Int /\ fees \in Int /\ made[a] \in Int /\ LeftNow(a) \in Int
        /\ LeftBy(a)[t] \in Int /\ task[t].fees \in Int /\ task[t].made[a] \in Int
    BY DepositedInt, LeftInt, TaskFields DEF TradingInv, Stored
  <2>3. /\ Left(fees, made, a)' = Left(fees, made, a)
        /\ WorthAll(wallet, a)' \in Int
    BY <1>1, <1>2, WorthInt DEF TradingInv, Stored, Left
  <2>4. Deposited(a)' = Deposited(a)
    BY DEF Deposited
  <2>5. Left(fees, made, a) \in Int
    BY <2>2 DEF Left
  <2>6. WorthAll(committed, a)' = Deposited(a)' - Left(fees, made, a)'
    BY <1>5, <1>6, <2>1, <2>2, <2>3, <2>4, <2>5
  <2>7. /\ LeftNow(a)' = LeftNow(a) - LeftBy(a)[t]
        /\ WorthAll(wallet, a) = WorthAll(wallet, a)' + Moved(t, a)
    BY <1>4, <1>5
  <2>8. WorthAll(wallet, a)' = Deposited(a)' - Left(fees, made, a)' - LeftNow(a)'
    BY <2>1, <2>2, <2>3, <2>4, <2>5, <2>7
  <2> QED
    BY <1>4, <2>6, <2>8 DEF Balanced
<1> QED
  BY <1>4, <1>7 DEF MoneyInv

\* One element grows by m, and one shrinks by n.
Pays(f, g, x, y, m, n) ==
    \A u \in Users : g[u] = f[u] + (IF u = x THEN m ELSE 0) - (IF u = y THEN n ELSE 0)

LEMMA SumPays ==
    ASSUME NEW f, NEW g, Ints(f, Users), NEW x \in Users, NEW y \in Users, NEW m \in Int,
           NEW n \in Int, Pays(f, g, x, y, m, n)
    PROVE  SumFunctionOnSet(g, Users) = SumFunctionOnSet(f, Users) + m - n
<1> DEFINE add  == [u \in Users |-> IF u = x THEN m ELSE 0]
           drop == [u \in Users |-> IF u = y THEN 0 - n ELSE 0]
           both == [u \in Users |-> f[u] + add[u]]
<1>1. \A u \in Users : f[u] \in Int
  BY DEF Ints
<1>2. /\ \A u \in Users : add[u] = IF u = x THEN m ELSE 0
      /\ \A u \in Users : drop[u] = IF u = y THEN 0 - n ELSE 0
      /\ \A u \in Users : both[u] = f[u] + add[u]
  OBVIOUS
<1> HIDE DEF add, drop, both
<1>3. Ints(add, Users) /\ Ints(drop, Users) /\ Ints(both, Users)
  BY <1>1, <1>2 DEF Ints
<1>4. SumFunctionOnSet(add, Users) = m /\ SumFunctionOnSet(drop, Users) = 0 - n
  BY <1>2, FiniteSets, SumOnly
<1>5. SumFunctionOnSet(both, Users) = SumFunctionOnSet(f, Users) + SumFunctionOnSet(add, Users)
  BY <1>2, <1>3, FiniteSets, SumPlus
<1>6. \A u \in Users : g[u] = both[u] + drop[u]
  BY <1>1, <1>2, <1>3 DEF Ints, Pays
<1>7. SumFunctionOnSet(g, Users) = SumFunctionOnSet(both, Users) + SumFunctionOnSet(drop, Users)
  BY <1>3, <1>6, FiniteSets, SumPlus
<1>8. SumFunctionOnSet(f, Users) \in Int
  BY FiniteSets, SumInt
<1> QED
  BY <1>4, <1>5, <1>7, <1>8

\* The same between the wallets of two users that a task has locked.
PaysIn(t, asset, x, y, m, n) ==
    /\ holder[<<x, asset>>] = t
    /\ holder[<<y, asset>>] = t
    /\ Pays(WorthOf(wallet, asset), WorthOf(wallet', asset), x, y, m, n)

\* A task pays from one wallet to another, both of which it has locked.
LEMMA Paid ==
    ASSUME TradingInv, NEW t \in Tasks, NEW a \in Assets, NEW x \in Users, NEW y \in Users,
           NEW m \in Int, NEW n \in Int, UNCHANGED <<holder, committed>>,
           PaysIn(t, a, x, y, m, n)
    PROVE  /\ WorthAll(wallet, a)' = WorthAll(wallet, a) + m - n
           /\ Moved(t, a)' = Moved(t, a) + m - n
           /\ \A v \in Tasks \ {t} : Moved(v, a)' = Moved(v, a)
<1>1. \A u \in Users : Worth(wallet[<<u, a>>]) \in Nat /\ Worth(committed[<<u, a>>]) \in Nat
  BY WorthInt DEF TradingInv, Stored
<1>2. WorthAll(wallet, a)' = WorthAll(wallet, a) + m - n
  <2> DEFINE f == WorthOf(wallet, a)
             g == WorthOf(wallet', a)
  <2>1. Ints(f, Users)
    BY WorthInt DEF TradingInv, Stored
  <2>2. Pays(f, g, x, y, m, n)
    BY DEF PaysIn
  <2>3. /\ WorthAll(wallet, a)' = SumFunctionOnSet(g, Users)
        /\ WorthAll(wallet, a) = SumFunctionOnSet(f, Users)
    BY DEF WorthAll
  <2> HIDE DEF f, g
  <2> QED
    BY <2>1, <2>2, <2>3, SumPays
<1>3. Moved(t, a)' = Moved(t, a) + m - n
  <2> DEFINE f == MovedBy(t, a)
             g == MovedBy(t, a)'
  <2>1. Ints(f, Users)
    BY MovedInt DEF TradingInv
  <2>2. Pays(f, g, x, y, m, n)
    <3> SUFFICES ASSUME NEW u \in Users
                 PROVE  g[u] = f[u] + (IF u = x THEN m ELSE 0) - (IF u = y THEN n ELSE 0)
      BY DEF Pays
    <3>1. f[u] = IF holder[<<u, a>>] = t
                 THEN Worth(wallet[<<u, a>>]) - Worth(committed[<<u, a>>]) ELSE 0
      BY DEF MovedBy
    <3>2. g[u] = IF holder[<<u, a>>] = t
                 THEN Worth(wallet'[<<u, a>>]) - Worth(committed[<<u, a>>]) ELSE 0
      BY DEF MovedBy
    <3>3. Worth(wallet'[<<u, a>>]) =
            Worth(wallet[<<u, a>>]) + (IF u = x THEN m ELSE 0) - (IF u = y THEN n ELSE 0)
      BY DEF PaysIn, Pays, WorthOf
    <3>4. holder[<<u, a>>] # t => u # x /\ u # y
      BY DEF PaysIn
    <3> HIDE DEF f, g
    <3> QED
      BY <1>1, <3>1, <3>2, <3>3, <3>4
  <2>3. Moved(t, a)' = SumFunctionOnSet(g, Users) /\ Moved(t, a) = SumFunctionOnSet(f, Users)
    BY DEF Moved
  <2> HIDE DEF f, g
  <2> QED
    BY <2>1, <2>2, <2>3, SumPays
<1>4. ASSUME NEW v \in Tasks \ {t} PROVE Moved(v, a)' = Moved(v, a)
  <2>1. ASSUME NEW u \in Users, holder[<<u, a>>] = v
        PROVE  Worth(wallet'[<<u, a>>]) = Worth(wallet[<<u, a>>])
    <3>1. u # x /\ u # y
      BY <2>1 DEF PaysIn
    <3> QED
      BY <1>1, <3>1 DEF PaysIn, Pays, WorthOf
  <2>2. MovedBy(v, a)' = MovedBy(v, a)
    BY <2>1 DEF MovedBy
  <2> QED
    BY <2>2 DEF Moved
<1> QED
  BY <1>2, <1>3, <1>4

LEMMA TransferMoney ==
    ASSUME TradingInv, MoneyInv, NEW t \in Tasks, Transfer(t)
    PROVE  MoneyInv'
<1> DEFINE trade  == Head(task[t].trades)
           tk     == task[t].cur
           b      == asked[Buyer(trade, tk)].user
           s      == asked[Seller(trade, tk)].user
           fee    == trade.price * trade.quantity * (TakerFee + MakerFee)
           qty    == trade.quantity
           debit  == Taken(trade, tk, "quote")
           given  == Taken(trade, tk, "base")
           credit == SellerCredit(trade, tk)
<1>1. TradingInv'
  BY TransferKeeps
<1>2. /\ trade \in EB!TradeType /\ trade.maker # tk
      /\ b \in Users /\ s \in Users
      /\ holder[<<b, "quote">>] = t /\ holder[<<b, "base">>] = t
      /\ holder[<<s, "quote">>] = t /\ holder[<<s, "base">>] = t
      /\ \A u \in Users :
           /\ wallet'[<<u, "base">>].available =
                wallet[<<u, "base">>].available + (IF u = b THEN qty ELSE 0)
           /\ wallet'[<<u, "base">>].locked =
                wallet[<<u, "base">>].locked - (IF u = s THEN given ELSE 0)
           /\ wallet'[<<u, "quote">>].available =
                wallet[<<u, "quote">>].available + (IF u = s THEN credit ELSE 0)
           /\ wallet'[<<u, "quote">>].locked =
                wallet[<<u, "quote">>].locked - (IF u = b THEN debit ELSE 0)
  BY TransferEffect
<1>3. /\ fee = BuyerDebit(trade, tk) - credit
      /\ qty \in Int /\ debit \in Int /\ given \in Int /\ credit \in Int /\ fee \in Int
      /\ BuyerDebit(trade, tk) \in Int
  <2>1. Taken(trade, tk, "base") \in Nat /\ Taken(trade, tk, "quote") \in Nat /\ tk \in OrderIds
    BY <1>2, TransferEffect, TakenNat DEF Assets
  <2>2. /\ fee = BuyerDebit(trade, tk) - SellerCredit(trade, tk) /\ trade.quantity \in Nat
        /\ SellerCredit(trade, tk) \in Nat /\ fee \in Nat /\ BuyerDebit(trade, tk) \in Nat
    BY <1>2, AmountsNat, FeesOfTrade
  <2> QED
    BY <2>1, <2>2
<1>4. /\ UNCHANGED <<holder, committed, fees, made>>
      /\ task' = [task EXCEPT ![t].stage = "flush",
                              ![t].fees = @ + fee,
                              ![t].made = [a \in Assets |-> @[a] + TradeNeed(trade, tk, a)
                                                                - Taken(trade, tk, a)],
                              ![t].settled = SettledWith(@, trade, tk)]
  BY Zenon DEF Transfer, lockVars, dbVars, tradeVars
<1>5. /\ \A u \in Tasks \ {t} : task'[u] = task[u]
      /\ task'[t].fees = task[t].fees + fee
      /\ task'[t].made["base"] = task[t].made["base"] + qty - given
      /\ task'[t].made["quote"] = task[t].made["quote"] + BuyerDebit(trade, tk) - debit
  <2>1. task \in [Tasks -> TaskRecord] /\ task[t] \in TaskRecord
    BY DEF TradingInv, TasksSound
  <2>2. TradeNeed(trade, tk, "base") = qty /\ TradeNeed(trade, tk, "quote") = BuyerDebit(trade, tk)
    BY DEF TradeNeed
  <2> HIDE DEF trade, tk, fee, qty, debit, given
  <2>3. /\ \A u \in Tasks \ {t} : task'[u] = task[u]
        /\ task'[t].fees = task[t].fees + fee
        /\ task'[t].made = [a \in Assets |-> task[t].made[a] + TradeNeed(trade, tk, a)
                                                - Taken(trade, tk, a)]
    BY <1>4, <2>1 DEF TaskRecord
  <2> QED
    BY <2>2, <2>3 DEF Assets, debit, given
<1> DEFINE owed == BuyerDebit(trade, tk)
<1> HIDE DEF fee, debit, given, credit, b, s, qty, owed, trade, tk
<1>6. \A u \in Users : wallet[<<u, "base">>] \in Balance /\ wallet[<<u, "quote">>] \in Balance
  BY MoneyWallets DEF TradingInv, Stored, Assets
<1>7. \A u \in Users : /\ wallet[<<u, "base">>].available \in Nat
                       /\ wallet[<<u, "base">>].locked \in Nat
                       /\ wallet[<<u, "quote">>].available \in Nat
                       /\ wallet[<<u, "quote">>].locked \in Nat
  BY <1>6 DEF Balance
<1>8. "base" \in Assets /\ "quote" \in Assets
  BY DEF Assets
<1>9. /\ WorthAll(wallet, "base")' = WorthAll(wallet, "base") + qty - given
      /\ Moved(t, "base")' = Moved(t, "base") + qty - given
      /\ \A v \in Tasks \ {t} : Moved(v, "base")' = Moved(v, "base")
  <2>1. Pays(WorthOf(wallet, "base"), WorthOf(wallet', "base"), b, s, qty, given)
    <3> SUFFICES ASSUME NEW u \in Users
                 PROVE  Worth(wallet'[<<u, "base">>]) = Worth(wallet[<<u, "base">>])
                          + (IF u = b THEN qty ELSE 0) - (IF u = s THEN given ELSE 0)
      BY DEF Pays, WorthOf
    <3> DEFINE old == wallet[<<u, "base">>]
               new == wallet'[<<u, "base">>]
    <3>1. /\ new.available = old.available + (IF u = b THEN qty ELSE 0)
          /\ new.locked = old.locked - (IF u = s THEN given ELSE 0)
      BY <1>2, Zenon
    <3>2. old.available \in Nat /\ old.locked \in Nat
      BY <1>7, Zenon
    <3> HIDE DEF old, new
    <3>3. Worth(new) = Worth(old) + (IF u = b THEN qty ELSE 0) - (IF u = s THEN given ELSE 0)
      BY <1>3, <3>1, <3>2 DEF Worth
    <3> QED
      BY <3>3 DEF old, new
  <2>2. /\ UNCHANGED <<holder, committed>> /\ b \in Users /\ s \in Users
        /\ holder[<<b, "base">>] = t /\ holder[<<s, "base">>] = t
    BY <1>2, <1>4
  <2>3. qty \in Int /\ given \in Int
    BY <1>3
  <2>4. PaysIn(t, "base", b, s, qty, given)
    BY <2>1, <2>2 DEF PaysIn
  <2> QED
    BY <1>8, <2>2, <2>3, <2>4, Paid
<1>10. /\ WorthAll(wallet, "quote")' = WorthAll(wallet, "quote") + credit - debit
       /\ Moved(t, "quote")' = Moved(t, "quote") + credit - debit
       /\ \A v \in Tasks \ {t} : Moved(v, "quote")' = Moved(v, "quote")
  <2>1. Pays(WorthOf(wallet, "quote"), WorthOf(wallet', "quote"), s, b, credit, debit)
    <3> SUFFICES ASSUME NEW u \in Users
                 PROVE  Worth(wallet'[<<u, "quote">>]) = Worth(wallet[<<u, "quote">>])
                          + (IF u = s THEN credit ELSE 0) - (IF u = b THEN debit ELSE 0)
      BY DEF Pays, WorthOf
    <3> DEFINE old == wallet[<<u, "quote">>]
               new == wallet'[<<u, "quote">>]
    <3>1. /\ new.available = old.available + (IF u = s THEN credit ELSE 0)
          /\ new.locked = old.locked - (IF u = b THEN debit ELSE 0)
      BY <1>2, Zenon
    <3>2. old.available \in Nat /\ old.locked \in Nat
      BY <1>7, Zenon
    <3> HIDE DEF old, new
    <3>3. Worth(new) = Worth(old) + (IF u = s THEN credit ELSE 0) - (IF u = b THEN debit ELSE 0)
      BY <1>3, <3>1, <3>2 DEF Worth
    <3> QED
      BY <3>3 DEF old, new
  <2>2. /\ UNCHANGED <<holder, committed>> /\ b \in Users /\ s \in Users
        /\ holder[<<b, "quote">>] = t /\ holder[<<s, "quote">>] = t
    BY <1>2, <1>4
  <2>3. credit \in Int /\ debit \in Int
    BY <1>3
  <2>4. PaysIn(t, "quote", s, b, credit, debit)
    BY <2>1, <2>2 DEF PaysIn
  <2> QED
    BY <1>8, <2>2, <2>3, <2>4, Paid
<1>11. /\ LeftBy("base")'[t] = LeftBy("base")[t] - qty + given
       /\ LeftBy("quote")'[t] = LeftBy("quote")[t] + debit - credit
  <2>1. /\ task[t].fees \in Int /\ task[t].made["base"] \in Int /\ task[t].made["quote"] \in Int
    BY <1>8, TaskFields DEF TradingInv
  <2>2. \A a \in Assets : /\ LeftBy(a)[t] = Left(task[t].fees, task[t].made, a)
                          /\ LeftBy(a)'[t] = Left(task'[t].fees, task'[t].made, a)
    BY DEF LeftBy
  <2>3. owed \in Int /\ fee = owed - credit
    BY <1>3 DEF owed
  <2>4. task'[t].made["quote"] = task[t].made["quote"] + owed - debit
    BY <1>5 DEF owed
  <2> QED
    BY <1>3, <1>5, <1>8, <2>1, <2>2, <2>3, <2>4 DEF Left
<1>12. \A w \in Wallets : holder'[w] = NoTask => wallet'[w] = committed'[w]
  <2> SUFFICES ASSUME NEW w \in Wallets, holder'[w] = NoTask PROVE wallet'[w] = committed'[w]
    OBVIOUS
  <2>1. wallet[w] = committed[w] /\ holder[w] = NoTask
    BY <1>4 DEF MoneyInv
  <2>2. PICK u \in Users, a \in Assets : w = <<u, a>>
    BY DEF Wallets
  <2>3. w # <<b, a>> /\ w # <<s, a>>
    BY <1>2, <2>1, <2>2, TaskAssumption DEF Assets
  <2>4. u # b /\ u # s
    BY <2>2, <2>3
  <2>5. /\ wallet'[<<u, "base">>].available = wallet[<<u, "base">>].available + 0
        /\ wallet'[<<u, "base">>].locked = wallet[<<u, "base">>].locked - 0
        /\ wallet'[<<u, "quote">>].available = wallet[<<u, "quote">>].available + 0
        /\ wallet'[<<u, "quote">>].locked = wallet[<<u, "quote">>].locked - 0
    BY <1>2, <2>4
  <2>6. wallet'[w].available = wallet[w].available /\ wallet'[w].locked = wallet[w].locked
    <3>1. CASE a = "base"
      <4>1. /\ wallet'[<<u, "base">>].available = wallet[<<u, "base">>].available
            /\ wallet'[<<u, "base">>].locked = wallet[<<u, "base">>].locked
        BY <1>7, <2>4, <2>5
      <4> QED
        BY <2>2, <3>1, <4>1
    <3>2. CASE a = "quote"
      <4>1. /\ wallet'[<<u, "quote">>].available = wallet[<<u, "quote">>].available
            /\ wallet'[<<u, "quote">>].locked = wallet[<<u, "quote">>].locked
        BY <1>7, <2>4, <2>5
      <4> QED
        BY <2>2, <3>2, <4>1
    <3> QED
      BY <3>1, <3>2 DEF Assets
  <2>7. wallet'[w] \in Balance /\ wallet[w] \in Balance
    BY <1>1 DEF TradingInv, Stored
  <2>8. wallet'[w] = wallet[w]
    BY <2>6, <2>7 DEF Balance
  <2> QED
    BY <1>4, <2>1, <2>8
<1>13. ASSUME NEW a \in Assets, NEW m \in Int, NEW n \in Int,
              WorthAll(wallet, a)' = WorthAll(wallet, a) + m - n,
              Moved(t, a)' = Moved(t, a) + m - n,
              \A v \in Tasks \ {t} : Moved(v, a)' = Moved(v, a),
              LeftBy(a)'[t] = LeftBy(a)[t] - m + n
       PROVE  Balanced(a)'
  <2>1. /\ LeftNow(a)' = LeftNow(a) - LeftBy(a)[t] + LeftBy(a)'[t]
        /\ \A u \in Tasks \ {t} : LeftBy(a)'[u] = LeftBy(a)[u]
    BY <1>1, <1>5, LeftChange DEF TradingInv
  <2>2. /\ LeftNow(a) \in Int /\ LeftBy(a)[t] \in Int /\ Deposited(a) \in Int
        /\ fees \in Int /\ made[a] \in Int
    BY LeftInt, DepositedInt DEF TradingInv, Stored
  <2>3. /\ \A v \in Tasks : Moved(v, a) = 0 - LeftBy(a)[v]
        /\ WorthAll(committed, a) = Deposited(a) - Left(fees, made, a)
        /\ WorthAll(wallet, a) = Deposited(a) - Left(fees, made, a) - LeftNow(a)
    BY DEF MoneyInv, Balanced
  <2>4. /\ Left(fees, made, a)' = Left(fees, made, a) /\ Deposited(a)' = Deposited(a)
        /\ WorthAll(committed, a)' = WorthAll(committed, a)
    BY <1>4 DEF Left, Deposited, WorthAll
  <2>5. Left(fees, made, a) \in Int
    BY <2>2 DEF Left
  <2>6. Moved(t, a)' = 0 - LeftBy(a)'[t]
    BY <1>13, <2>2, <2>3
  <2>7. \A v \in Tasks : Moved(v, a)' = 0 - LeftBy(a)'[v]
    BY <1>13, <2>1, <2>3, <2>6
  <2>8. WorthAll(wallet, a)' = Deposited(a)' - Left(fees, made, a)' - LeftNow(a)'
    BY <1>13, <2>1, <2>2, <2>3, <2>4, <2>5
  <2> QED
    BY <2>3, <2>4, <2>7, <2>8 DEF Balanced
<1>14. Balanced("base")'
  BY <1>3, <1>8, <1>9, <1>11, <1>13
<1>15. Balanced("quote")'
  <2>1. LeftBy("quote")'[t] = LeftBy("quote")[t] - credit + debit
    <3>1. LeftBy("quote")[t] \in Int
      BY <1>8, LeftInt DEF TradingInv
    <3> QED
      BY <1>3, <1>11, <3>1
  <2> QED
    BY <1>3, <1>8, <1>10, <1>13, <2>1
<1> QED
  BY <1>12, <1>14, <1>15 DEF MoneyInv, Assets

LEMMA RestartMoney ==
    ASSUME TradingInv, MoneyInv, Restart
    PROVE  MoneyInv'
<1>1. TradingInv'
  BY RestartKeeps
<1>2. /\ task' = [t \in Tasks |-> IF Running(t) THEN Ended("failed") ELSE task[t]]
      /\ wallet' = committed /\ holder' = [w \in Wallets |-> NoTask]
      /\ UNCHANGED <<committed, fees, made>>
  BY DEF Restart, dbVars, tradeVars
<1>3. ASSUME NEW t \in Tasks PROVE task'[t].fees = 0 /\ task'[t].made = [a \in Assets |-> 0]
  <2>1. Ended("failed").fees = 0 /\ Ended("failed").made = [a \in Assets |-> 0]
    BY EndedRecord DEF Stages
  <2>2. ~Running(t) => task[t].fees = 0 /\ task[t].made = [a \in Assets |-> 0]
    <3>1. ~Running(t) => task[t] = Ended(task[t].stage) /\ task[t].stage \in Stages
      BY DEF Running, TradingInv, TasksSound, SoundTask, StageFacts, Clean, TaskRecord
    <3> QED
      BY <3>1, EndedRecord
  <2>3. task'[t] = IF Running(t) THEN Ended("failed") ELSE task[t]
    BY <1>2
  <2> QED
    BY <2>1, <2>2, <2>3
<1>4. ASSUME NEW t \in Tasks, NEW a \in Assets PROVE Moved(t, a)' = 0
  <2> DEFINE f == MovedBy(t, a)'
  <2>1. \A u \in Users : holder'[<<u, a>>] # t
    BY <1>2, MoneyWallets, TaskAssumption
  <2>2. \A u \in Users : f[u] = 0
    BY <2>1 DEF MovedBy
  <2>3. Moved(t, a)' = SumFunctionOnSet(f, Users)
    BY DEF Moved
  <2> HIDE DEF f
  <2> QED
    BY <2>2, <2>3, FiniteSets, SumZero
<1>5. ASSUME NEW a \in Assets PROVE (\A t \in Tasks : LeftBy(a)'[t] = 0) /\ LeftNow(a)' = 0
  <2> DEFINE f == LeftBy(a)'
  <2>1. \A t \in Tasks : f[t] = 0
    BY <1>3 DEF LeftBy, Left
  <2>2. LeftNow(a)' = SumFunctionOnSet(f, Tasks)
    BY DEF LeftNow
  <2> HIDE DEF f
  <2>3. LeftNow(a)' = 0
    BY <2>1, <2>2, FiniteSets, SumZero
  <2> QED
    BY <2>1, <2>3 DEF f
<1>6. ASSUME NEW a \in Assets PROVE Balanced(a)'
  <2>1. WorthAll(wallet, a)' = WorthAll(committed, a) /\ WorthAll(committed, a)' = WorthAll(committed, a)
    BY <1>2 DEF WorthAll
  <2>2. /\ WorthAll(committed, a) = Deposited(a) - Left(fees, made, a)
        /\ Left(fees, made, a)' = Left(fees, made, a) /\ Deposited(a)' = Deposited(a)
    BY <1>2 DEF MoneyInv, Balanced, Left, Deposited
  <2>3. WorthAll(committed, a) \in Int
    BY WorthInt DEF TradingInv, Stored
  <2> QED
    BY <1>4, <1>5, <2>1, <2>2, <2>3 DEF Balanced
<1>7. \A w \in Wallets : holder'[w] = NoTask => wallet'[w] = committed'[w]
  BY <1>2
<1> QED
  BY <1>6, <1>7 DEF MoneyInv

LEMMA MoneyInit == Init => MoneyInv
<1> SUFFICES ASSUME Init PROVE MoneyInv
  OBVIOUS
<1>1. /\ task = [t \in Tasks |-> Fresh]
      /\ wallet = [w \in Wallets |-> [available |-> Funds[w], locked |-> 0]]
      /\ committed = wallet /\ holder = [w \in Wallets |-> NoTask]
      /\ fees = 0 /\ made = [a \in Assets |-> 0]
  BY DEF Init
<1>2. \A t \in Tasks : task[t].fees = 0 /\ task[t].made = [a \in Assets |-> 0]
  BY <1>1 DEF Fresh
<1>3. ASSUME NEW t \in Tasks, NEW a \in Assets PROVE Moved(t, a) = 0
  <2> DEFINE f == MovedBy(t, a)
  <2>1. \A u \in Users : holder[<<u, a>>] # t
    BY <1>1, MoneyWallets, TaskAssumption
  <2>2. \A u \in Users : f[u] = 0
    BY <2>1 DEF MovedBy
  <2>3. Moved(t, a) = SumFunctionOnSet(f, Users)
    BY DEF Moved
  <2> HIDE DEF f
  <2> QED
    BY <2>2, <2>3, FiniteSets, SumZero
<1>4. ASSUME NEW a \in Assets PROVE (\A t \in Tasks : LeftBy(a)[t] = 0) /\ LeftNow(a) = 0
  <2> DEFINE f == LeftBy(a)
  <2>1. \A t \in Tasks : f[t] = 0
    BY <1>2 DEF LeftBy, Left
  <2>2. LeftNow(a) = SumFunctionOnSet(f, Tasks)
    BY DEF LeftNow
  <2> HIDE DEF f
  <2>3. LeftNow(a) = 0
    BY <2>1, <2>2, FiniteSets, SumZero
  <2> QED
    BY <2>1, <2>3 DEF f
<1>5. ASSUME NEW a \in Assets PROVE WorthAll(wallet, a) = Deposited(a)
  <2> DEFINE f == WorthOf(wallet, a)
             g == [u \in Users |-> Funds[<<u, a>>]]
  <2>1. \A u \in Users : Funds[<<u, a>>] \in Nat
    BY MoneyWallets, FundsAssumption
  <2>2. \A u \in Users : f[u] = g[u]
    BY <1>1, <2>1, MoneyWallets DEF WorthOf, Worth
  <2>3. \A u \in Users : g[u] \in Nat
    BY <2>1
  <2>4. DOMAIN g = Users
    OBVIOUS
  <2>5. WorthAll(wallet, a) = SumFunctionOnSet(f, Users) /\ Deposited(a) = SumFunction(g)
    BY DEF WorthAll, Deposited
  <2> HIDE DEF f, g
  <2>6. Ints(f, Users)
    BY <2>2, <2>3 DEF Ints
  <2> QED
    BY <2>2, <2>4, <2>5, <2>6, FiniteSets, SumWhole, SumSame
<1>6. ASSUME NEW a \in Assets PROVE Balanced(a)
  <2>1. Left(fees, made, a) = 0 /\ Deposited(a) \in Int
    BY <1>1, DepositedInt DEF Left
  <2> QED
    BY <1>1, <1>3, <1>4, <1>5, <2>1 DEF Balanced
<1> QED
  BY <1>1, <1>6 DEF MoneyInv

\* The steps of a task that leave wallets, their locks and the fees alone.
LEMMA QuietTask ==
    ASSUME TradingInv, NEW t \in Tasks,
           \/ Refuse(t) \/ Insert(t) \/ FlushTrade(t) \/ WriteMaker(t) \/ NoRelease(t)
           \/ TakeStops(t) \/ SkipStop(t) \/ Trigger(t) \/ Fire(t) \/ CancelOrder(t)
    PROVE  UNCHANGED <<wallet, committed, holder, fees, made>> /\ SameBooks
<1> USE DEF lockVars, dbVars, tradeVars, SameBooks
<1>0. task \in [Tasks -> TaskRecord] /\ \A u \in Tasks : task[u] \in TaskRecord
  BY DEF TradingInv, TasksSound
<1>1. CASE Refuse(t)
  <2>1. /\ task' = [task EXCEPT ![t] = Ended("failed")]
        /\ UNCHANGED <<wallet, committed, holder, fees, made>>
    BY <1>1 DEF Refuse
  <2>2. Ended("failed").fees = 0 /\ Ended("failed").made = [a \in Assets |-> 0]
    BY EndedRecord DEF Stages
  <2>3. task[t].fees = 0 /\ task[t].made = [a \in Assets |-> 0]
    <3>1. task[t] = Ended(task[t].stage) /\ task[t].stage \in Stages
      BY <1>1 DEF Refuse, At, TradingInv, TasksSound, SoundTask, StageFacts, Clean, TaskRecord
    <3> QED
      BY <3>1, EndedRecord
  <2> DEFINE k == Ended("failed")
  <2> HIDE DEF k
  <2>4. task' = [task EXCEPT ![t] = k] /\ k.fees = 0
        /\ k.made = [a \in Assets |-> 0]
    BY <2>1, <2>2 DEF k
  <2> QED
    BY <1>0, <2>1, <2>3, <2>4
<1>2. CASE Insert(t)
  BY <1>0, <1>2 DEF Insert, TaskRecord
<1>3. CASE FlushTrade(t)
  BY <1>0, <1>3 DEF FlushTrade, TaskRecord
<1>4. CASE WriteMaker(t)
  BY <1>0, <1>4 DEF WriteMaker, TaskRecord
<1>5. CASE NoRelease(t)
  BY <1>0, <1>5 DEF NoRelease, TaskRecord
<1>6. CASE TakeStops(t)
  BY <1>0, <1>6 DEF TakeStops, TaskRecord
<1>7. CASE SkipStop(t)
  BY <1>0, <1>7 DEF SkipStop, TaskRecord
<1>8. CASE Trigger(t)
  BY <1>0, <1>8 DEF Trigger, TaskRecord
<1>9. CASE Fire(t)
  BY <1>0, <1>9 DEF Fire, TaskRecord
<1>10. CASE CancelOrder(t)
  BY <1>0, <1>10 DEF CancelOrder, TaskRecord
<1> QED
  BY <1>1, <1>2, <1>3, <1>4, <1>5, <1>6, <1>7, <1>8, <1>9, <1>10

LEMMA TaskStepMoney ==
    ASSUME TradingInv, MoneyInv, NEW t \in Tasks, TaskStep(t)
    PROVE  MoneyInv'
<1>1. CASE Short(t) \/ NoMaker(t) \/ EmptyTrade(t) \/ EmptyRelease(t)
  BY <1>1, AbortMoney DEF Short, NoMaker, EmptyTrade, EmptyRelease, At
<1>2. CASE \/ Refuse(t) \/ Insert(t) \/ FlushTrade(t) \/ WriteMaker(t) \/ NoRelease(t)
           \/ TakeStops(t) \/ SkipStop(t) \/ Trigger(t) \/ Fire(t) \/ CancelOrder(t)
  <2>1. TradingInv'
    BY TaskStepKeeps
  <2> QED
    BY <1>2, <2>1, QuietTask, QuietMoney
<1>3. CASE Reserve(t)
  BY <1>3, ReserveMoney
<1>4. CASE LockWallet(t)
  BY <1>4, LockWalletMoney
<1>5. CASE Transfer(t)
  BY <1>5, TransferMoney
<1>6. CASE Release(t)
  BY <1>6, ReleaseMoney
<1>7. CASE Commit(t)
  BY <1>7, CommitMoney
<1> QED
  BY <1>1, <1>2, <1>3, <1>4, <1>5, <1>6, <1>7 DEF TaskStep

LEMMA MoneyNext == TradingInv /\ MoneyInv /\ [Next]_vars => MoneyInv'
<1> SUFFICES ASSUME TradingInv, MoneyInv, [Next]_vars PROVE MoneyInv'
  OBVIOUS
<1> USE DEF lockVars, dbVars, tradeVars, SameBooks
<1>0. task \in [Tasks -> TaskRecord] /\ \A u \in Tasks : task[u] \in TaskRecord
  BY DEF TradingInv, TasksSound
<1>1. TradingInv'
  BY TradingNext
<1>2. CASE EngineRuns
  <2>1. UNCHANGED <<wallet, committed, holder, fees, made>>
    BY <1>2 DEF EngineRuns
  <2>2. SameBooks
    BY <1>0, <1>2 DEF EngineRuns, TaskRecord
  <2> QED
    BY <1>1, <2>1, <2>2, QuietMoney
<1>3. ASSUME NEW t \in OrderIds, NEW req \in RequestsOf[t], Begin(t, req) PROVE MoneyInv'
  <2>1. UNCHANGED <<wallet, committed, holder, fees, made>> /\ SameBooks
    BY <1>0, <1>3 DEF Begin, TaskRecord, Tasks
  <2> QED
    BY <1>1, <2>1, QuietMoney
<1>4. ASSUME NEW t \in CancelIds, NEW o \in OrderIds, CancelSelect(t, o) PROVE MoneyInv'
  <2>1. UNCHANGED <<wallet, committed, holder, fees, made>> /\ SameBooks
    BY <1>0, <1>4 DEF CancelSelect, TaskRecord, Tasks
  <2> QED
    BY <1>1, <2>1, QuietMoney
<1>5. CASE \E t \in Tasks : TaskStep(t) \/ Fail(t)
  BY <1>5, TaskStepMoney, AbortMoney DEF Fail
<1>6. CASE Restart
  BY <1>6, RestartMoney
<1>7. CASE UNCHANGED vars
  <2>1. UNCHANGED <<wallet, committed, holder, fees, made, task>>
    BY <1>7 DEF vars
  <2> QED
    BY <1>1, <2>1, QuietMoney
<1> QED
  BY <1>2, <1>3, <1>4, <1>5, <1>6, <1>7 DEF Next

\* Every wallet differs from its committed row only while a task has it locked,
\* and what a task has moved so far comes to the fees it has charged, less what
\* the other side got where a settlement was clamped to what is locked, so that
\* its commit and its rollback both leave the sums right (settle_trade, get_db).
THEOREM MoneyAccounted == Spec => []MoneyInv
<1>1. Init => MoneyInv
  BY MoneyInit
<1>2. TradingInv /\ MoneyInv /\ [Next]_vars => MoneyInv'
  BY MoneyNext
<1> QED
  BY <1>1, <1>2, TradingCorrect, PTL DEF Spec

\* Every unit is accounted for, whichever requests settle, release, fail,
\* deadlock or die with the process in between: what the wallets hold is what was
\* deposited, less the fees charged, more what settlements paid out beyond what
\* was locked for them (settle_trade, get_db).
THEOREM MoneyConserved == Spec => []FundsConserved
BY MoneyAccounted, TradingCorrect, MoneyMeans, PTL
=============================================================================
