----------------------------- MODULE FillsProofs -----------------------------
(***************************************************************************)
(* How much of an order is settled in Trading, for every set of orders,    *)
(* cancels, users, prices and requests, checked by TLAPS.                  *)
(*                                                                         *)
(* A fill is first in the result of the engine's call, then in the record  *)
(* of one request, then in the committed rows.  What is in the three is at *)
(* most what the client asked for less what the engine has left to match.  *)
(***************************************************************************)
EXTENDS TradingProofs

-----------------------------------------------------------------------------
(* How much of an order a list of trades fills.                            *)

\* How much of order o a trade of taker tk fills, and all of trades.
Part(x, tk, o) == IF o \in {tk, x.maker} THEN x.quantity ELSE 0

Parts(trades, tk, o) == [i \in 1 .. Len(trades) |-> Part(trades[i], tk, o)]

PartOf(trades, tk, o) == SumFunctionOnSet(Parts(trades, tk, o), 1 .. Len(trades))

LEMMA PartsNat ==
    ASSUME NEW trades \in Seq(EB!TradeType), NEW tk, NEW o
    PROVE  /\ Len(trades) \in Nat /\ IsFiniteSet(1 .. Len(trades))
           /\ \A i \in 1 .. Len(trades) : Parts(trades, tk, o)[i] = Part(trades[i], tk, o)
           /\ \A i \in 1 .. Len(trades) : Parts(trades, tk, o)[i] \in Nat
           /\ Ints(Parts(trades, tk, o), 1 .. Len(trades))
           /\ PartOf(trades, tk, o) \in Nat
<1> DEFINE f == Parts(trades, tk, o)
<1>1. Len(trades) \in Nat /\ IsFiniteSet(1 .. Len(trades))
  BY LenProperties, FS_Interval
<1>2. \A i \in 1 .. Len(trades) : f[i] = Part(trades[i], tk, o)
  BY DEF Parts
<1>3. \A x \in EB!TradeType : Part(x, tk, o) \in Nat
  BY DEF Part, EB!TradeType
<1>4. \A i \in 1 .. Len(trades) : trades[i] \in EB!TradeType
  BY <1>1, ElementOfSeq
<1>5. \A i \in 1 .. Len(trades) : f[i] \in Nat
  BY <1>2, <1>3, <1>4
<1>6. Ints(f, 1 .. Len(trades))
  BY <1>5 DEF Ints
<1>7. PartOf(trades, tk, o) = SumFunctionOnSet(f, 1 .. Len(trades))
  BY DEF PartOf
<1> HIDE DEF f
<1>8. PartOf(trades, tk, o) \in Nat
  BY <1>1, <1>5, <1>7, SumNat
<1> QED
  BY <1>1, <1>2, <1>5, <1>6, <1>8 DEF f

LEMMA PartNone == \A tk, o : PartOf(<<>>, tk, o) = 0
<1>1. 1 .. Len(<<>>) = {}
  BY EmptySeq
<1> QED
  BY <1>1, SumEmpty DEF PartOf

LEMMA PartLast ==
    ASSUME NEW trades \in Seq(EB!TradeType), NEW x \in EB!TradeType, NEW tk, NEW o
    PROVE  PartOf(Append(trades, x), tk, o) = PartOf(trades, tk, o) + Part(x, tk, o)
<1> DEFINE s == Append(trades, x)
           n == Len(trades)
           f == Parts(trades, tk, o)
           g == Parts(s, tk, o)
<1>1. /\ s \in Seq(EB!TradeType) /\ Len(s) = n + 1 /\ s[n + 1] = x
      /\ \A i \in 1 .. n : s[i] = trades[i]
  BY AppendProperties
<1>2. n \in Nat /\ IsFiniteSet(1 .. n) /\ Ints(f, 1 .. n)
      /\ \A i \in 1 .. n : f[i] = Part(trades[i], tk, o)
  BY PartsNat
<1> HIDE DEF s, n
<1>3. Ints(g, 1 .. n + 1) /\ \A i \in 1 .. n + 1 : g[i] = Part(s[i], tk, o)
  BY <1>1, PartsNat
<1>4. PartOf(trades, tk, o) = SumFunctionOnSet(f, 1 .. n)
      /\ PartOf(s, tk, o) = SumFunctionOnSet(g, 1 .. n + 1)
  BY <1>1 DEF PartOf, n
<1> HIDE DEF f, g
<1>5. 1 .. n + 1 = (1 .. n) \cup {n + 1} /\ n + 1 \notin 1 .. n
  BY <1>2
<1>6. SumFunctionOnSet(g, (1 .. n) \cup {n + 1}) = g[n + 1] + SumFunctionOnSet(g, 1 .. n)
  <2>1. Ints(g, (1 .. n) \cup {n + 1})
    BY <1>3, <1>5
  <2> QED
    BY <1>2, <1>5, <2>1, SumAdd
<1>7. SumFunctionOnSet(f, 1 .. n) = SumFunctionOnSet(g, 1 .. n)
  <2>1. \A i \in 1 .. n : f[i] = g[i]
    BY <1>1, <1>2, <1>3
  <2> QED
    BY <1>2, <2>1, SumSame
<1>8. g[n + 1] = Part(x, tk, o)
  BY <1>1, <1>2, <1>3
<1>9. SumFunctionOnSet(f, 1 .. n) \in Int /\ Part(x, tk, o) \in Int
  <2>1. Part(x, tk, o) \in Int
    BY DEF Part, EB!TradeType
  <2> QED
    BY <1>2, <2>1, SumInt
<1>10. SumFunctionOnSet(g, 1 .. n + 1) = g[n + 1] + SumFunctionOnSet(g, 1 .. n)
  BY <1>5, <1>6, Zenon
<1>11. PartOf(s, tk, o) = PartOf(trades, tk, o) + Part(x, tk, o)
  BY <1>4, <1>7, <1>8, <1>9, <1>10
<1> QED
  BY <1>11 DEF s

LEMMA PartFirst ==
    ASSUME NEW trades \in Seq(EB!TradeType), trades # <<>>, NEW tk, NEW o
    PROVE  PartOf(trades, tk, o) = Part(Head(trades), tk, o) + PartOf(Tail(trades), tk, o)
<1> DEFINE s == Tail(trades)
           n == Len(trades)
           f == Parts(trades, tk, o)
           g == Parts(s, tk, o)
           b == [i \in 1 .. n - 1 |-> i + 1]
<1>1. /\ s \in Seq(EB!TradeType) /\ Len(s) = n - 1 /\ Head(trades) = trades[1]
      /\ \A i \in 1 .. Len(s) : s[i] = trades[i + 1]
  BY HeadTailProperties
<1>2. n \in Nat /\ n # 0
  BY EmptySeq, LenProperties
<1>3. /\ Ints(f, 1 .. n) /\ IsFiniteSet(1 .. n)
      /\ \A i \in 1 .. n : f[i] = Part(trades[i], tk, o)
  BY PartsNat
<1> HIDE DEF s, n
<1>4. Ints(g, 1 .. n - 1) /\ \A i \in 1 .. n - 1 : g[i] = Part(s[i], tk, o)
  BY <1>1, PartsNat
<1>5. PartOf(trades, tk, o) = SumFunctionOnSet(f, 1 .. n)
      /\ PartOf(s, tk, o) = SumFunctionOnSet(g, 1 .. n - 1)
  BY <1>1 DEF PartOf, n
<1> HIDE DEF f, g
<1>6. IsFiniteSet(1 .. n - 1) /\ IsFiniteSet(2 .. n)
  BY <1>2, FS_Interval
<1>7. SumFunctionOnSet(g, 1 .. n - 1) = SumFunctionOnSet(f, 2 .. n)
  <2>1. /\ b \in [1 .. n - 1 -> 2 .. n] /\ \A i \in 1 .. n - 1 : b[i] = i + 1
        /\ \A x, y \in 1 .. n - 1 : b[x] = b[y] => x = y
    BY <1>2
  <2>2. \A z \in 2 .. n : z - 1 \in 1 .. n - 1 /\ b[z - 1] = z
    BY <1>2
  <2> HIDE DEF b
  <2>3. \A z \in 2 .. n : \E x \in 1 .. n - 1 : b[x] = z
    BY <2>2
  <2>4. \A i \in 1 .. n - 1 : g[i] = f[b[i]]
    BY <1>1, <1>2, <1>3, <1>4, <2>1
  <2> DEFINE S == 1 .. n - 1
             T == 2 .. n
  <2>5. /\ IsFiniteSet(S) /\ IsFiniteSet(T) /\ Ints(g, S) /\ b \in [S -> T]
        /\ \A x, y \in S : b[x] = b[y] => x = y
        /\ \A z \in T : \E x \in S : b[x] = z
        /\ \A i \in S : g[i] = f[b[i]]
    BY <1>4, <1>6, <2>1, <2>3, <2>4, Zenon
  <2> HIDE DEF S, T
  <2>6. SumFunctionOnSet(g, S) = SumFunctionOnSet(f, T)
    BY <2>5, SumAlong
  <2> QED
    BY <2>6, Zenon DEF S, T
<1>8. SumFunctionOnSet(f, 1 .. n) = f[1] + SumFunctionOnSet(f, 2 .. n)
  <2> DEFINE A == 1 .. n
  <2>1. 1 \in A /\ A \ {1} = 2 .. n
    BY <1>2
  <2>2. IsFiniteSet(A) /\ Ints(f, A)
    BY <1>3
  <2> HIDE DEF A
  <2>3. SumFunctionOnSet(f, A) = f[1] + SumFunctionOnSet(f, A \ {1})
    BY <2>1, <2>2, SumPartsOut
  <2> QED
    BY <2>1, <2>3, Zenon DEF A
<1>9. f[1] = Part(Head(trades), tk, o)
  BY <1>1, <1>2, <1>3
<1> QED
  BY <1>5, <1>7, <1>8, <1>9 DEF s

-----------------------------------------------------------------------------
(* What the engine's steps fill.                                           *)

\* What never changes of an order while the engine works on it.
OrderKept(o) ==
    /\ order'[o].order_type = order[o].order_type
    /\ order'[o].quote_quantity = order[o].quote_quantity

\* A turn of a loop fills maker and taker with what its trade says; the taker
\* may be filled with less if it has a quote budget.
LEMMA LoopFills ==
    ASSUME EngineSound, EB!MatchLimit \/ EB!MatchMarket
    PROVE  \E maker \in OrderIds \ {taker}, p \in Prices, qty \in Nat :
             /\ taker \in OrderIds
             /\ \A o \in OrderIds \ {maker, taker} : order'[o] = order[o]
             /\ \A o \in {maker, taker} : OrderKept(o) /\ order[o].status # "UNUSED"
             /\ EB!Remaining(order'[maker]) = EB!Remaining(order[maker]) - qty
             /\ EB!Remaining(order'[taker]) \in Nat
             /\ order[taker].quote_quantity = 0 =>
                  EB!Remaining(order'[taker]) = EB!Remaining(order[taker]) - qty
             /\ taker' = taker /\ pc' = pc /\ pc # "idle"
             /\ result' = Append(result, [maker |-> maker, price |-> p, quantity |-> qty])
<1>1. EB!Matching /\ EB!TypeInv /\ EB!EngineInv /\ EB!TakerInv
  BY EngineAssumptions, EB!LoopTrades DEF EngineSound, EB!EngineInv
<1>2. PICK p \in Prices, qty \in Nat :
        /\ p \in EB!Occupied(EB!Opposite(order[taker].side)) /\ EB!Trade(p, qty)
        /\ qty <= EB!MakerRemaining(p)
        /\ order[taker].quote_quantity = 0 => qty <= EB!Remaining(order[taker])
  <2>1. CASE EB!MatchLimit
    <3>1. PICK p \in Prices :
            /\ EB!IsBest(EB!Opposite(order[taker].side), p)
            /\ EB!Trade(p, EB!FillQuantity(p))
      BY <2>1 DEF EB!MatchLimit
    <3>2. /\ pc = "limit" /\ remaining > 0 /\ remaining = EB!Remaining(order[taker])
          /\ remaining \in Int /\ p \in EB!Occupied(EB!Opposite(order[taker].side))
      BY <1>1, <2>1, <3>1 DEF EB!MatchLimit, EB!IsBest, EB!TakerInv, EB!TypeInv, EB!TypeOK
    <3>3. EB!MakerRemaining(p) \in Nat
      BY <1>1, <3>2, EngineAssumptions, EB!MakerRemainingNat
    <3>4. EB!FillQuantity(p) \in Nat /\ EB!FillQuantity(p) <= EB!MakerRemaining(p)
          /\ EB!FillQuantity(p) <= remaining
      BY <3>2, <3>3 DEF EB!FillQuantity, EB!Lesser
    <3> QED
      BY <3>1, <3>2, <3>4
  <2>2. CASE EB!MatchMarket
    <3>1. PICK p \in Prices :
            /\ EB!IsBest(EB!Opposite(order[taker].side), p)
            /\ EB!Trade(p, EB!MarketFill(p))
      BY <2>2 DEF EB!MatchMarket
    <3>2. /\ pc = "market" /\ EB!MarketWants
          /\ p \in EB!Occupied(EB!Opposite(order[taker].side))
          /\ remaining > 0 => remaining = EB!Remaining(order[taker])
          /\ quoteRemaining <= order[taker].quote_quantity
      BY <1>1, <2>2, <3>1 DEF EB!MatchMarket, EB!IsBest, EB!TakerInv
    <3>3. /\ EB!MarketFill(p) \in Nat /\ EB!MarketFill(p) <= EB!MakerRemaining(p)
          /\ remaining > 0 => EB!MarketFill(p) <= remaining
      BY <1>1, <3>2, EngineAssumptions, EB!MarketFillNat
    <3>4. order[taker].quote_quantity = 0 => remaining > 0
      <4>1. quoteRemaining \in Int
        BY <1>1 DEF EB!TypeInv, EB!TypeOK
      <4> QED
        BY <3>2, <4>1 DEF EB!MarketWants
    <3> QED
      BY <3>1, <3>2, <3>3, <3>4
  <2> QED
    BY <2>1, <2>2
<1> DEFINE side  == EB!Opposite(order[taker].side)
           maker == Head(levels[side][p])
<1>3. /\ side \in EB!Sides /\ taker \in OrderIds /\ maker \in OrderIds /\ maker # taker
      /\ EB!RestingOrder(order[maker], side, p)
      /\ order'[maker] = EB!Filled(order[maker], qty)
      /\ order'[taker] = EB!Filled(order[taker], qty)
      /\ \A o \in OrderIds \ {maker, taker} : order'[o] = order[o]
  BY <1>1, <1>2, EngineAssumptions, EB!TradeEffect
<1>4. /\ result' = Append(result, [maker |-> maker, price |-> p, quantity |-> qty])
      /\ taker' = taker /\ pc' = pc /\ EB!MakerRemaining(p) = EB!Remaining(order[maker])
  BY <1>2 DEF EB!Trade, EB!MakerRemaining
<1>5. /\ order[maker].status # "UNUSED" /\ order[taker].status # "UNUSED"
      /\ pc # "idle"
  BY <1>1, <1>3 DEF EB!RestingOrder, EB!TakerInv, EB!Matching
<1> HIDE DEF maker, side
<1>6. ASSUME NEW o \in {maker, taker}
      PROVE  /\ OrderKept(o) /\ EB!Remaining(order[o]) \in Nat
             /\ EB!Remaining(order'[o])
                  = EB!Remaining(order[o]) - EB!Lesser(qty, EB!Remaining(order[o]))
  <2>1. EB!Sound(order[o]) /\ order'[o] = EB!Filled(order[o], qty)
    BY <1>1, <1>3 DEF EB!TypeInv, EB!SoundOrders
  <2>2. EB!Remaining(order[o]) \in Nat
    BY <2>1, EngineAssumptions, EB!RemainingBounds
  <2> DEFINE ord   == order[o]
             after == EB!Filled(ord, qty)
  <2>3. EB!Sound(ord) /\ qty \in Nat
    BY <2>1
  <2> HIDE DEF ord
  <2>4. /\ after.order_type = ord.order_type
        /\ after.quote_quantity = ord.quote_quantity
        /\ EB!Remaining(after) = EB!Remaining(ord) - EB!Lesser(qty, EB!Remaining(ord))
    BY <2>3, EngineAssumptions, EB!FilledEffect, Zenon
  <2> QED
    BY <2>1, <2>2, <2>4 DEF OrderKept, ord
<1>7. /\ EB!Remaining(order'[maker]) = EB!Remaining(order[maker]) - qty
      /\ EB!Remaining(order'[taker]) \in Nat
      /\ order[taker].quote_quantity = 0 =>
           EB!Remaining(order'[taker]) = EB!Remaining(order[taker]) - qty
  <2> DEFINE m == EB!Remaining(order[maker])
             t == EB!Remaining(order[taker])
  <2>1. /\ m \in Nat /\ EB!Remaining(order'[maker]) = m - EB!Lesser(qty, m)
        /\ t \in Nat /\ EB!Remaining(order'[taker]) = t - EB!Lesser(qty, t)
    BY <1>6
  <2>2. qty <= m /\ (order[taker].quote_quantity = 0 => qty <= t)
    BY <1>2, <1>4
  <2> HIDE DEF m, t
  <2>3. /\ m - EB!Lesser(qty, m) = m - qty /\ t - EB!Lesser(qty, t) \in Nat
        /\ order[taker].quote_quantity = 0 => t - EB!Lesser(qty, t) = t - qty
    BY <1>2, <2>1, <2>2 DEF EB!Lesser
  <2> QED
    BY <2>1, <2>3 DEF m, t
<1> QED
  BY <1>3, <1>4, <1>5, <1>6, <1>7

\* The steps after the loops fill nothing.
LEMMA FinishFills ==
    ASSUME EngineSound, EB!FinishLimit \/ EB!FinishMarket
    PROVE  /\ \A o \in OrderIds :
                OrderKept(o) /\ EB!Remaining(order'[o]) <= EB!Remaining(order[o])
           /\ UNCHANGED <<taker, result>> /\ pc' = "stops"
<1> DEFINE ord == order[taker]
<1>1. /\ taker \in OrderIds /\ ord \in EB!EngineOrder /\ EB!Sound(ord)
      /\ order \in [OrderIds -> EB!EngineOrder]
      /\ \A o \in OrderIds \ {taker} : order'[o] = order[o]
      /\ \A o \in OrderIds : EB!Remaining(order[o]) \in Nat
  <2>1. taker \in OrderIds /\ order \in [OrderIds -> EB!EngineOrder] /\ EB!SoundOrders(order)
    BY DEF EngineSound, EB!TypeInv, EB!TypeOK, EB!InCall, EB!FinishLimit, EB!FinishMarket
  <2>2. \A o \in OrderIds : EB!Remaining(order[o]) \in Nat
    BY <2>1, EngineAssumptions, EB!RemainingBounds DEF EB!SoundOrders
  <2> QED
    BY <2>1, <2>2, FinishStatus DEF EB!SoundOrders
<1>2. OrderKept(taker) /\ EB!Remaining(order'[taker]) <= EB!Remaining(order[taker])
  <2>1. CASE EB!FinishLimit
    <3> DEFINE status  == EB!StatusAfterMatching(ord, "OPEN")
               peak    == EB!VisiblePart(ord)
               resting == IF ord.iceberg_peak > 0
                          THEN [ord EXCEPT !.status = status,
                                           !.quantity = ord.filled_quantity + peak,
                                           !.iceberg_base = EB!Remaining(ord) - peak]
                          ELSE [ord EXCEPT !.status = status]
               last    == IF remaining > 0 /\ ord.filled_quantity = 0 THEN "CANCELLED" ELSE status
               dropped == [ord EXCEPT !.status = last]
    <3>1. order' = [order EXCEPT ![taker] = resting] \/ order' = [order EXCEPT ![taker] = dropped]
      BY <2>1 DEF EB!FinishLimit
    <3>2. peak \in Nat /\ peak <= EB!Remaining(ord)
      BY <1>1 DEF EB!VisiblePart, EB!Lesser, EB!EngineOrder
    <3> HIDE DEF peak, status, last
    <3>3. /\ resting.order_type = ord.order_type /\ resting.quote_quantity = ord.quote_quantity
          /\ resting.filled_quantity = ord.filled_quantity
          /\ resting.quantity \in {ord.quantity, ord.filled_quantity + peak}
      BY <1>1 DEF EB!EngineOrder
    <3>4. /\ dropped.order_type = ord.order_type /\ dropped.quote_quantity = ord.quote_quantity
          /\ dropped.filled_quantity = ord.filled_quantity /\ dropped.quantity = ord.quantity
      BY <1>1 DEF EB!EngineOrder
    <3> HIDE DEF resting, dropped
    <3>5. order'[taker] = resting \/ order'[taker] = dropped
      BY <1>1, <3>1
    <3>6. ord.quantity \in Nat /\ ord.filled_quantity \in Nat
      BY <1>1 DEF EB!EngineOrder
    <3> QED
      BY <1>1, <3>2, <3>3, <3>4, <3>5, <3>6 DEF EB!Remaining, OrderKept
  <2>2. CASE EB!FinishMarket
    <3> DEFINE status == EB!StatusAfterMatching(order[taker], "CANCELLED")
    <3>1. order' = [order EXCEPT ![taker].status = status]
      BY <2>2 DEF EB!FinishMarket
    <3> HIDE DEF status
    <3>2. order'[taker] = [ord EXCEPT !.status = status]
      BY <1>1, <3>1
    <3>3. /\ order'[taker].order_type = ord.order_type
          /\ order'[taker].quote_quantity = ord.quote_quantity
          /\ EB!Remaining(order'[taker]) = EB!Remaining(ord)
      BY <1>1, <3>2, EngineAssumptions, EB!StatusEffect
    <3> QED
      BY <1>1, <3>3 DEF OrderKept
  <2> QED
    BY <2>1, <2>2
<1>3. \A o \in OrderIds : OrderKept(o) /\ EB!Remaining(order'[o]) <= EB!Remaining(order[o])
  <2> SUFFICES ASSUME NEW o \in OrderIds
               PROVE  OrderKept(o) /\ EB!Remaining(order'[o]) <= EB!Remaining(order[o])
    OBVIOUS
  <2>1. CASE o = taker
    BY <1>2, <2>1
  <2>2. CASE o # taker
    BY <1>1, <2>2 DEF OrderKept
  <2> QED
    BY <2>1, <2>2
<1>4. UNCHANGED <<taker, result>> /\ pc' = "stops"
  BY DEF EB!FinishLimit, EB!FinishMarket
<1> QED
  BY <1>3, <1>4

-----------------------------------------------------------------------------
(* The bound on what is matched of an order.                               *)

\* The trades of a task's record that are not settled yet, and what the task
\* has settled of order o or has yet to settle.
DueOf(k) == IF k.stage \in {"flush", "write"} THEN Tail(k.trades) ELSE k.trades

ShareOf(k, o) == k.settled[o] + PartOf(DueOf(k), k.cur, o)

Shares(o) == [t \in Tasks |-> ShareOf(task[t], o)]

\* What is matched of order o: settled, in work, or in the engine's call.
Claimed(o) == settled[o] + SumFunctionOnSet(Shares(o), Tasks) + PartOf(result, taker, o)

Unsubmitted(o) == task[o].stage \in {"ready", "reserve"}

\* What may be matched of it: what its client asked for, less what the engine
\* has left to match.
Room(o) == IF Unsubmitted(o) THEN 0 ELSE asked[o].ord.quantity - EB!Remaining(order[o])

Bounded(o) == Unsubmitted(o) \/ asked[o].ord.quote_quantity = 0 => Claimed(o) <= Room(o)

FillBound == \A o \in OrderIds : Bounded(o)

QuoteFree == \A o \in OrderIds : asked[o].ord.quote_quantity = 0 => order[o].quote_quantity = 0

\* An order whose own request has not written its row; no other request has.
Unwritten(o) ==
    \/ Unsubmitted(o)
    \/ task[o].stage = "insert" /\ task[o].cur = o /\ task[o].draft[o] = NoRow

RowsWritten ==
    \A o \in OrderIds :
        Unwritten(o) => rows[o] = NoRow /\ \A t \in Tasks : task[t].draft[o] = NoRow

\* The request of record k sees a row of order o.
Sees(k, o) == k.draft[o] # NoRow \/ rows[o] # NoRow

\* Which rows a request has seen or written at a stage.
WriteFacts(t, k) ==
    /\ k.stage = "insert" =>
         \/ k.cur = t /\ k.draft[t] = NoRow
         \/ k.draft[k.cur] # NoRow /\ order[k.cur].order_type \in {"LIMIT", "MARKET"}
    /\ k.stage = "fire" => k.draft[Head(k.triggered)] # NoRow
    /\ k.stage = "write" => Sees(k, Head(k.trades).maker)
    /\ k.stage = "pair" => rows[k.cur] # NoRow

WritesSound == \A t \in Tasks : WriteFacts(t, task[t])

\* No two requests wait for the engine's result of the same order.
OneInsert ==
    \A t, u \in Tasks :
        task[t].stage = "insert" /\ task[u].stage = "insert" /\ task[t].cur = task[u].cur => t = u

FillsInv == FillBound /\ QuoteFree /\ RowsWritten /\ WritesSound /\ OneInsert

-----------------------------------------------------------------------------
(* What the bound says, and what a request of it changes.                  *)

LEMMA SeesVisible ==
    ASSUME NEW t \in Tasks, NEW o
    PROVE  Visible(t, o) # NoRow <=> Sees(task[t], o)
BY DEF Visible, Sees

LEMMA DueTrades ==
    ASSUME NEW t, NEW k, SoundTask(t, k)
    PROVE  DueOf(k) \in Seq(EB!TradeType)
BY HeadTailProperties DEF DueOf, SoundTask, StageFacts, TaskRecord

LEMMA ShareNat ==
    ASSUME NEW t, NEW k, SoundTask(t, k), NEW o \in OrderIds
    PROVE  ShareOf(k, o) \in Nat /\ k.settled[o] \in Nat /\ k.settled[o] <= ShareOf(k, o)
<1>1. k.settled[o] \in Nat
  BY DEF SoundTask, TaskRecord
<1>2. PartOf(DueOf(k), k.cur, o) \in Nat
  BY DueTrades, PartsNat
<1> QED
  BY <1>1, <1>2 DEF ShareOf

LEMMA SharesInt ==
    ASSUME TasksSound, NEW o \in OrderIds
    PROVE  /\ \A t \in Tasks : Shares(o)[t] = ShareOf(task[t], o) /\ ShareOf(task[t], o) \in Nat
           /\ Ints(Shares(o), Tasks) /\ SumFunctionOnSet(Shares(o), Tasks) \in Nat
<1>1. \A t \in Tasks : Shares(o)[t] = ShareOf(task[t], o)
  BY DEF Shares
<1>2. \A t \in Tasks : ShareOf(task[t], o) \in Nat
  BY ShareNat DEF TasksSound
<1> DEFINE f == Shares(o)
<1>3. \A t \in Tasks : f[t] \in Nat
  BY <1>1, <1>2
<1> HIDE DEF f
<1>4. Ints(f, Tasks) /\ SumFunctionOnSet(f, Tasks) \in Nat
  BY <1>3, FiniteSets, SumNat DEF Ints
<1> QED
  BY <1>1, <1>2, <1>4 DEF f

LEMMA ClaimedInt ==
    ASSUME TradingInv, NEW o \in OrderIds
    PROVE  /\ Claimed(o) \in Nat /\ PartOf(result, taker, o) \in Nat /\ settled[o] \in Nat
           /\ SumFunctionOnSet(Shares(o), Tasks) \in Nat
<1>1. result \in Seq(EB!TradeType)
  BY DEF TradingInv, EngineSound, EB!TypeInv, EB!TypeOK
<1>2. PartOf(result, taker, o) \in Nat
  BY <1>1, PartsNat
<1>3. SumFunctionOnSet(Shares(o), Tasks) \in Nat
  BY SharesInt DEF TradingInv
<1>4. settled[o] \in Nat
  BY DEF TradingInv, Stored
<1> QED
  BY <1>2, <1>3, <1>4 DEF Claimed

\* The bound says what the property says.
LEMMA FillsMean == TradingInv /\ FillsInv => NeverOversettled
<1> SUFFICES ASSUME TradingInv, FillsInv, NEW o \in OrderIds, asked[o].ord.quote_quantity = 0
             PROVE  settled[o] + SumFunction([t \in Tasks |-> task[t].settled[o]])
                      <= asked[o].ord.quantity
  BY DEF NeverOversettled
<1> DEFINE f == [t \in Tasks |-> task[t].settled[o]]
           g == Shares(o)
           h == [t \in Tasks |-> g[t] - f[t]]
<1>1. /\ \A t \in Tasks : g[t] \in Nat /\ f[t] \in Nat /\ f[t] <= g[t]
      /\ Ints(g, Tasks)
  <2>1. \A t \in Tasks : SoundTask(t, task[t])
    BY DEF TradingInv, TasksSound
  <2> QED
    BY <2>1, ShareNat, SharesInt DEF TradingInv
<1>2. \A t \in Tasks : h[t] \in Nat /\ g[t] = f[t] + h[t]
  BY <1>1
<1>3. SumFunction(f) = SumFunctionOnSet(f, Tasks)
  BY SumWhole
<1> HIDE DEF f, g, h
<1>4. Ints(f, Tasks) /\ Ints(h, Tasks)
  BY <1>1, <1>2 DEF Ints
<1>5. SumFunctionOnSet(g, Tasks) = SumFunctionOnSet(f, Tasks) + SumFunctionOnSet(h, Tasks)
  BY <1>2, <1>4, FiniteSets, SumPlus
<1>6. SumFunctionOnSet(h, Tasks) \in Nat /\ SumFunctionOnSet(f, Tasks) \in Nat
  BY <1>1, <1>2, FiniteSets, SumNat
<1>7. Claimed(o) = settled[o] + SumFunctionOnSet(g, Tasks) + PartOf(result, taker, o)
  BY DEF Claimed, g
<1>8. PartOf(result, taker, o) \in Nat /\ settled[o] \in Nat
  BY ClaimedInt
<1>9. Claimed(o) <= asked[o].ord.quantity
  <2>1. Claimed(o) <= Room(o)
    BY DEF FillsInv, FillBound, Bounded
  <2>2. asked[o].ord.quantity \in Nat
    BY DEF TradingInv, RequestsSound, EB!EngineOrder
  <2>3. EB!Remaining(order[o]) \in Nat
    BY EngineAssumptions, EB!RemainingBounds DEF TradingInv, EngineSound, EB!TypeInv, EB!SoundOrders
  <2> QED
    BY <2>1, <2>2, <2>3, ClaimedInt DEF Room
<1>10. asked[o].ord.quantity \in Nat
  BY DEF TradingInv, RequestsSound, EB!EngineOrder
<1> QED
  BY <1>3, <1>5, <1>6, <1>7, <1>8, <1>9, <1>10 DEF f

\* The record of one task changes, and what is settled.
LEMMA ClaimedStep ==
    ASSUME TradingInv, TradingInv', NEW t \in Tasks, \A u \in Tasks \ {t} : task'[u] = task[u],
           NEW o \in OrderIds, PartOf(result, taker, o)' = PartOf(result, taker, o)
    PROVE  Claimed(o)' = Claimed(o) - settled[o] - ShareOf(task[t], o)
                           + settled'[o] + ShareOf(task'[t], o)
<1> DEFINE f == Shares(o)
           g == Shares(o)'
<1>1. \A u \in Tasks : f[u] = ShareOf(task[u], o) /\ ShareOf(task[u], o) \in Nat
  BY SharesInt DEF TradingInv
<1>2. \A u \in Tasks : g[u] = ShareOf(task'[u], o) /\ ShareOf(task'[u], o) \in Nat
  <2>1. \A u \in Tasks : g[u] = ShareOf(task'[u], o)
    BY DEF Shares, ShareOf, DueOf, PartOf, Parts, Part
  <2>2. \A u \in Tasks : SoundTask(u, task'[u])
    BY DEF TradingInv, TasksSound, SoundTask, StageFacts
  <2> QED
    BY <2>1, <2>2, ShareNat
<1>3. /\ Claimed(o) = settled[o] + SumFunctionOnSet(f, Tasks) + PartOf(result, taker, o)
      /\ Claimed(o)' = settled'[o] + SumFunctionOnSet(g, Tasks) + PartOf(result, taker, o)'
  BY DEF Claimed
<1> HIDE DEF f, g
<1>4. Ints(f, Tasks) /\ Ints(g, Tasks)
  BY <1>1, <1>2 DEF Ints
<1>5. \A u \in Tasks \ {t} : f[u] = g[u]
  BY <1>1, <1>2
<1>6. SumFunctionOnSet(g, Tasks) = SumFunctionOnSet(f, Tasks) - f[t] + g[t]
  BY <1>4, <1>5, FiniteSets, SumChange
<1>7. SumFunctionOnSet(f, Tasks) \in Int /\ PartOf(result, taker, o) \in Int
      /\ settled[o] \in Int /\ settled'[o] \in Int
  <2>1. SumFunctionOnSet(f, Tasks) \in Int
    BY <1>4, FiniteSets, SumInt
  <2>2. settled'[o] \in Nat
    BY DEF TradingInv, Stored
  <2> QED
    BY <2>1, <2>2, ClaimedInt
<1> QED
  BY <1>1, <1>2, <1>3, <1>6, <1>7

-----------------------------------------------------------------------------
(* One task changes: what follows for the bound.                           *)

LEMMA UnsubmittedBlank ==
    ASSUME TradingInv, NEW o \in OrderIds, Unsubmitted(o)
    PROVE  order[o] = EB!Blank /\ order[o].quote_quantity = 0 /\ EB!Remaining(order[o]) = 0
<1>1. order[o].status = "UNUSED"
  BY DEF TradingInv, OrdersKnown, Known, Unsubmitted, Tasks
<1>2. order[o] = EB!Blank
  BY <1>1 DEF TradingInv, EngineSound, EB!EngineInv, EB!OrdersInv
<1> QED
  BY <1>2 DEF EB!Blank, EB!Remaining

\* The engine has no more left to match of an order than before, or, when the
\* order is submitted, than its client asked for.
NoMoreLeft(o) ==
    EB!Remaining(order'[o])
      <= IF Unsubmitted(o) THEN asked[o].ord.quantity ELSE EB!Remaining(order[o])

BoundInts ==
    \A o \in OrderIds :
        /\ EB!Remaining(order[o]) \in Nat /\ asked[o].ord.quantity \in Nat
        /\ Claimed(o) \in Nat

LEMMA BoundNat == TradingInv => BoundInts
<1> SUFFICES ASSUME TradingInv, NEW o \in OrderIds
             PROVE  /\ EB!Remaining(order[o]) \in Nat /\ asked[o].ord.quantity \in Nat
                    /\ Claimed(o) \in Nat
  BY DEF BoundInts
<1>1. asked[o].ord.quantity \in Nat
  BY DEF TradingInv, RequestsSound, EB!EngineOrder
<1>2. EB!Remaining(order[o]) \in Nat
  BY EngineAssumptions, EB!RemainingBounds DEF TradingInv, EngineSound, EB!TypeInv, EB!SoundOrders
<1> QED
  BY <1>1, <1>2, ClaimedInt

LEMMA BoundStep ==
    ASSUME TradingInv, TradingInv', FillBound, UNCHANGED asked, NEW o \in OrderIds, NoMoreLeft(o),
           Unsubmitted(o)' => Unsubmitted(o), Claimed(o)' <= Claimed(o)
    PROVE  Bounded(o)'
<1>1. BoundInts /\ BoundInts'
  <2>1. (TradingInv => BoundInts)'
    BY BoundNat, PTL
  <2> QED
    BY <2>1, BoundNat
<1>2. /\ EB!Remaining(order[o]) \in Nat /\ asked[o].ord.quantity \in Nat
      /\ EB!Remaining(order'[o]) \in Nat /\ Claimed(o) \in Nat /\ Claimed(o)' \in Nat
  BY <1>1 DEF BoundInts, EB!Remaining
<1>3. Bounded(o)
  BY DEF FillBound
<1>4. Room(o)' = IF Unsubmitted(o)' THEN 0 ELSE asked[o].ord.quantity - EB!Remaining(order'[o])
  BY DEF Room, EB!Remaining
<1>5. Unsubmitted(o)' \/ asked[o].ord.quote_quantity = 0 => Claimed(o)' <= Room(o)'
  BY <1>2, <1>3, <1>4 DEF Bounded, Room, NoMoreLeft
<1> QED
  BY <1>5 DEF Bounded

LEMMA RowsStep ==
    ASSUME RowsWritten, NEW t \in Tasks, \A u \in Tasks \ {t} : task'[u] = task[u],
           Unwritten(t)' => Unwritten(t),
           \A o \in OrderIds :
             /\ rows'[o] # NoRow => Sees(task[t], o)
             /\ task'[t].draft[o] # NoRow => Sees(task[t], o) \/ (o = t /\ ~Unwritten(o)')
    PROVE  RowsWritten'
<1> SUFFICES ASSUME NEW o \in OrderIds, Unwritten(o)', NEW u \in Tasks
             PROVE  rows'[o] = NoRow /\ task'[u].draft[o] = NoRow
  BY DEF RowsWritten
<1>1. Unwritten(o)
  <2>1. CASE o = t
    BY <2>1
  <2>2. CASE o # t
    BY <2>2 DEF Unwritten, Unsubmitted, Tasks
  <2> QED
    BY <2>1, <2>2
<1>2. rows[o] = NoRow /\ \A v \in Tasks : task[v].draft[o] = NoRow
  BY <1>1 DEF RowsWritten
<1> QED
  BY <1>2 DEF Sees

\* What the other requests know of rows stays true.
LEMMA WritesStep ==
    ASSUME TasksSound, WritesSound, NEW t \in Tasks, \A u \in Tasks \ {t} : task'[u] = task[u],
           \A o \in OrderIds : rows[o] # NoRow => rows'[o] # NoRow,
           \A u \in Tasks \ {t} :
             task[u].stage = "insert" =>
               order'[task[u].cur].order_type = order[task[u].cur].order_type,
           WriteFacts(t, task[t])'
    PROVE  WritesSound'
<1> SUFFICES ASSUME NEW u \in Tasks \ {t} PROVE WriteFacts(u, task[u])'
  BY DEF WritesSound
<1>1. WriteFacts(u, task[u]) /\ task'[u] = task[u] /\ SoundTask(u, task[u])
  BY DEF WritesSound, TasksSound
<1>2. task[u].stage = "write" => Head(task[u].trades).maker \in OrderIds
  BY <1>1, FirstTrade DEF SoundTask, StageFacts
<1>3. task[u].stage = "pair" => task[u].cur \in OrderIds
  BY <1>1 DEF SoundTask, StageFacts, Clean
<1> QED
  BY <1>1, <1>2, <1>3 DEF WriteFacts, Sees

\* The steps of a request that submits and inserts no order.
LEMMA StepFills ==
    ASSUME TradingInv, TradingInv', FillsInv, NEW t \in Tasks,
           \A u \in Tasks \ {t} : task'[u] = task[u], UNCHANGED <<asked, taker, result>>,
           task'[t].stage \notin {"ready", "reserve", "insert"},
           \A o \in OrderIds : OrderKept(o) /\ EB!Remaining(order'[o]) <= EB!Remaining(order[o]),
           \A o \in OrderIds :
             settled'[o] + ShareOf(task'[t], o) <= settled[o] + ShareOf(task[t], o),
           \A o \in OrderIds :
             /\ rows[o] # NoRow => rows'[o] # NoRow
             /\ rows'[o] # NoRow => Sees(task[t], o)
             /\ task'[t].draft[o] # NoRow => Sees(task[t], o) \/ o = t,
           WriteFacts(t, task[t])'
    PROVE  FillsInv'
<1>1. FillBound /\ QuoteFree /\ RowsWritten /\ WritesSound /\ OneInsert
  BY DEF FillsInv
<1>2. ASSUME NEW o \in OrderIds PROVE Bounded(o)'
  <2>1. PartOf(result, taker, o)' = PartOf(result, taker, o)
    BY DEF PartOf, Parts, Part
  <2>2. Claimed(o)' = Claimed(o) - settled[o] - ShareOf(task[t], o)
                        + settled'[o] + ShareOf(task'[t], o)
    BY <2>1, ClaimedStep
  <2>3. /\ Claimed(o) \in Int /\ settled[o] \in Int /\ settled'[o] \in Int
        /\ ShareOf(task[t], o) \in Int /\ ShareOf(task'[t], o) \in Int
    <3>1. SoundTask(t, task[t]) /\ SoundTask(t, task'[t])
      BY DEF TradingInv, TasksSound, SoundTask, StageFacts
    <3>2. settled'[o] \in Nat
      BY DEF TradingInv, Stored
    <3> QED
      BY <3>1, <3>2, ShareNat, ClaimedInt
  <2>4. Claimed(o)' <= Claimed(o)
    <3>1. settled'[o] + ShareOf(task'[t], o) <= settled[o] + ShareOf(task[t], o)
      OBVIOUS
    <3> QED
      BY <2>2, <2>3, <3>1
  <2>5. Unsubmitted(o)' => Unsubmitted(o)
    BY DEF Unsubmitted, Tasks
  <2>6. NoMoreLeft(o)
    <3>1. EB!Remaining(order'[o]) <= EB!Remaining(order[o])
      OBVIOUS
    <3>2. asked[o].ord.quantity \in Nat
      BY BoundNat DEF BoundInts
    <3>3. (TradingInv => BoundInts)'
      BY BoundNat, PTL
    <3>4. EB!Remaining(order'[o]) \in Int
      BY <3>3 DEF BoundInts, EB!Remaining
    <3>5. Unsubmitted(o) => EB!Remaining(order[o]) = 0
      BY UnsubmittedBlank
    <3> QED
      BY <3>1, <3>2, <3>4, <3>5 DEF NoMoreLeft
  <2> QED
    BY <1>1, <2>4, <2>5, <2>6, BoundStep
<1>3. QuoteFree'
  BY <1>1 DEF QuoteFree, OrderKept
<1>4. ~Unwritten(t)'
  BY DEF Unwritten, Unsubmitted
<1>5. RowsWritten'
  BY <1>1, <1>4, RowsStep
<1>6. WritesSound'
  <2>1. \A u \in Tasks : task[u].stage = "insert" => task[u].cur \in OrderIds
    BY DEF TradingInv, TasksSound, SoundTask, StageFacts, Clean
  <2> QED
    BY <1>1, <2>1, WritesStep DEF OrderKept, TradingInv
<1>7. OneInsert'
  BY <1>1 DEF OneInsert
<1>8. FillBound'
  BY <1>2 DEF FillBound
<1> QED
  BY <1>3, <1>5, <1>6, <1>7, <1>8 DEF FillsInv

-----------------------------------------------------------------------------
(* The bound: steps of a request.                                          *)

\* The record of one task changes.
TaskSet(t, k) == task' = [task EXCEPT ![t] = k]

LEMMA OneTask ==
    ASSUME TasksSound, NEW t \in Tasks, NEW k, TaskSet(t, k)
    PROVE  task'[t] = k /\ \A u \in Tasks \ {t} : task'[u] = task[u]
BY DEF TasksSound, TaskSet

LEMMA SameShare ==
    ASSUME NEW j, NEW k, k.settled = j.settled, k.cur = j.cur, DueOf(k) = DueOf(j)
    PROVE  \A o : ShareOf(k, o) = ShareOf(j, o)
BY DEF ShareOf

\* The engine's memory is left alone.
LEMMA EngineStill ==
    ASSUME UNCHANGED engineVars
    PROVE  /\ UNCHANGED <<taker, result>>
           /\ \A o \in OrderIds : OrderKept(o) /\ order'[o] = order[o]
BY DEF engineVars, OrderKept

\* A request that ends has nothing left to settle.
LEMMA EndedShare ==
    ASSUME NEW st \in Clean
    PROVE  /\ \A o \in OrderIds : ShareOf(Ended(st), o) = 0
           /\ \A o \in OrderIds : Ended(st).draft[o] = NoRow /\ Ended(st).settled[o] = 0
<1> DEFINE k == Ended(st)
<1>1. k.trades = <<>> /\ k.stage = st /\ st \notin {"flush", "write"}
  BY EndedRecord DEF Clean, Stages
<1>2. \A o \in OrderIds : k.draft[o] = NoRow /\ k.settled[o] = 0
  BY DEF Ended, Fresh
<1> HIDE DEF k
<1>3. \A o : PartOf(k.trades, k.cur, o) = 0
  BY <1>1, PartNone
<1>4. \A o \in OrderIds : ShareOf(k, o) = 0
  BY <1>1, <1>2, <1>3 DEF ShareOf, DueOf
<1> QED
  BY <1>2, <1>4 DEF k

\* A request that works on its trades: they are the shares it still has.
LEMMA RestShare ==
    ASSUME TradingInv, FillsInv, TradingInv', NEW t \in Tasks, NEW k, TaskSet(t, k),
           k.stage \notin {"ready", "reserve", "insert"},
           k.settled = task[t].settled, k.cur = task[t].cur, DueOf(k) = DueOf(task[t]),
           UNCHANGED <<asked, taker, result, rows, settled>>,
           \A o \in OrderIds : OrderKept(o) /\ EB!Remaining(order'[o]) <= EB!Remaining(order[o]),
           \A o \in OrderIds : k.draft[o] # NoRow => Sees(task[t], o) \/ o = t,
           WriteFacts(t, task[t])'
    PROVE  FillsInv'
<1>1. task'[t] = k /\ \A u \in Tasks \ {t} : task'[u] = task[u]
  BY OneTask DEF TradingInv
<1>2. \A o : ShareOf(k, o) = ShareOf(task[t], o)
  BY SameShare
<1>3. \A o \in OrderIds :
        settled'[o] + ShareOf(task'[t], o) <= settled[o] + ShareOf(task[t], o)
  <2> SUFFICES ASSUME NEW o \in OrderIds
               PROVE  settled'[o] + ShareOf(task'[t], o) <= settled[o] + ShareOf(task[t], o)
    OBVIOUS
  <2>1. ShareOf(task[t], o) \in Nat
    BY SharesInt DEF TradingInv
  <2>2. settled'[o] = settled[o] /\ settled[o] \in Nat
    BY DEF TradingInv, Stored
  <2> QED
    BY <1>1, <1>2, <2>1, <2>2
<1>4. \A o \in OrderIds :
        /\ rows[o] # NoRow => rows'[o] # NoRow
        /\ rows'[o] # NoRow => Sees(task[t], o)
        /\ task'[t].draft[o] # NoRow => Sees(task[t], o) \/ o = t
  BY <1>1 DEF Sees
<1> QED
  BY <1>1, <1>3, <1>4, StepFills

LEMMA EndFills ==
    ASSUME TradingInv, TradingInv', FillsInv, NEW t \in Tasks, NEW st \in {"done", "failed"},
           TaskSet(t, Ended(st)), UNCHANGED <<engineVars, asked>>,
           \A o \in OrderIds : settled'[o] <= settled[o] + ShareOf(task[t], o),
           \A o \in OrderIds :
             /\ rows[o] # NoRow => rows'[o] # NoRow
             /\ rows'[o] # NoRow => Sees(task[t], o)
    PROVE  FillsInv'
<1> DEFINE k == Ended(st)
<1>1. k.stage = st /\ \A o \in OrderIds : ShareOf(k, o) = 0 /\ k.draft[o] = NoRow
  BY EndedRecord, EndedShare DEF Stages, Clean
<1> HIDE DEF k
<1>2. task'[t] = k /\ \A u \in Tasks \ {t} : task'[u] = task[u]
  BY OneTask DEF k, TradingInv
<1>3. UNCHANGED <<taker, result>> /\ \A o \in OrderIds : OrderKept(o) /\ order'[o] = order[o]
  BY EngineStill
<1>4. \A o \in OrderIds :
        settled'[o] + ShareOf(task'[t], o) <= settled[o] + ShareOf(task[t], o)
  <2>1. \A o \in OrderIds : settled'[o] \in Nat
    BY DEF TradingInv, Stored
  <2> QED
    BY <1>1, <1>2, <2>1
<1>5. \A o \in OrderIds : OrderKept(o) /\ EB!Remaining(order'[o]) <= EB!Remaining(order[o])
  BY <1>3, BoundNat DEF BoundInts
<1>6. WriteFacts(t, task[t])'
  BY <1>1, <1>2 DEF WriteFacts
<1>7. task'[t].stage \notin {"ready", "reserve", "insert"}
      /\ \A o \in OrderIds : task'[t].draft[o] # NoRow => Sees(task[t], o) \/ o = t
  BY <1>1, <1>2
<1> QED
  BY <1>2, <1>3, <1>4, <1>5, <1>6, <1>7, StepFills

LEMMA AbortFills ==
    ASSUME TradingInv, TradingInv', FillsInv, NEW t \in Tasks, Abort(t) \/ Refuse(t)
    PROVE  FillsInv'
<1>1. /\ TaskSet(t, Ended("failed")) /\ UNCHANGED <<engineVars, asked>>
      /\ UNCHANGED <<settled, rows>>
  BY DEF Abort, Refuse, TaskSet, dbVars, tradeVars
<1>2. \A o \in OrderIds : settled'[o] <= settled[o] + ShareOf(task[t], o)
  <2>1. \A o \in OrderIds : settled[o] \in Nat /\ ShareOf(task[t], o) \in Nat
    BY SharesInt DEF TradingInv, Stored
  <2> QED
    BY <1>1, <2>1
<1>3. \A o \in OrderIds :
        /\ rows[o] # NoRow => rows'[o] # NoRow
        /\ rows'[o] # NoRow => Sees(task[t], o)
  BY <1>1 DEF Sees
<1> QED
  BY <1>1, <1>2, <1>3, EndFills

LEMMA CommitFills ==
    ASSUME TradingInv, TradingInv', FillsInv, NEW t \in Tasks, Commit(t)
    PROVE  FillsInv'
<1>1. /\ TaskSet(t, Ended("done")) /\ UNCHANGED <<engineVars, asked>>
      /\ rows' = [o \in OrderIds |-> Visible(t, o)]
      /\ settled' = [o \in OrderIds |-> settled[o] + task[t].settled[o]]
  BY DEF Commit, TaskSet
<1>2. \A o \in OrderIds : settled'[o] <= settled[o] + ShareOf(task[t], o)
  <2>1. \A o \in OrderIds : /\ settled[o] \in Nat /\ ShareOf(task[t], o) \in Nat
                            /\ task[t].settled[o] \in Nat
                            /\ task[t].settled[o] <= ShareOf(task[t], o)
    <3>1. SoundTask(t, task[t])
      BY DEF TradingInv, TasksSound
    <3> QED
      BY <3>1, ShareNat DEF TradingInv, Stored
  <2> QED
    BY <1>1, <2>1
<1>3. \A o \in OrderIds :
        /\ rows[o] # NoRow => rows'[o] # NoRow
        /\ rows'[o] # NoRow => Sees(task[t], o)
  BY <1>1 DEF Sees, Visible
<1> QED
  BY <1>1, <1>2, <1>3, EndFills

\* The engine and what is committed are left alone.
LEMMA QuietRest ==
    ASSUME TradingInv, FillsInv, TradingInv', NEW t \in Tasks, NEW k, TaskSet(t, k),
           k.stage \notin {"ready", "reserve", "insert"},
           k.settled = task[t].settled, k.cur = task[t].cur, DueOf(k) = DueOf(task[t]),
           UNCHANGED <<order, taker, result, asked, rows, settled>>,
           \A o \in OrderIds : k.draft[o] # NoRow => Sees(task[t], o),
           WriteFacts(t, task[t])'
    PROVE  FillsInv'
<1>1. \A o \in OrderIds : OrderKept(o) /\ EB!Remaining(order'[o]) <= EB!Remaining(order[o])
  BY BoundNat DEF BoundInts, OrderKept
<1> QED
  BY <1>1, RestShare

LEMMA TransferFills ==
    ASSUME TradingInv, TradingInv', FillsInv, NEW t \in Tasks, Transfer(t)
    PROVE  FillsInv'
<1> DEFINE trade == Head(task[t].trades)
           tk    == task[t].cur
           fee   == trade.price * trade.quantity * (TakerFee + MakerFee)
           moved == SettledWith(task[t].settled, trade, tk)
           more  == [a \in Assets |-> task[t].made[a] + TradeNeed(trade, tk, a) - Taken(trade, tk, a)]
           k     == [task[t] EXCEPT !.stage = "flush", !.fees = @ + fee, !.made = more,
                                    !.settled = moved]
<1>1. trade \in EB!TradeType /\ tk \in OrderIds /\ trade.maker # tk /\ trade.maker \in OrderIds
      /\ task[t].trades # <<>> /\ task[t].trades \in Seq(EB!TradeType)
      /\ task[t].stage = "settle"
  <2>1. task[t].stage = "settle" /\ task[t].trades # <<>>
    BY DEF Transfer, At, TradingInv, TasksSound, SoundTask, StageFacts
  <2> QED
    BY <2>1, TransferEffect, FirstTrade, TaskFields DEF TradingInv
<1>2. task[t].settled \in [OrderIds -> Nat] /\ task[t] \in TaskRecord
  BY TaskFields DEF TradingInv
<1>3. task' = [task EXCEPT ![t].stage = "flush",
                            ![t].fees = @ + fee,
                            ![t].made = [a \in Assets |-> @[a] + TradeNeed(trade, tk, a)
                                                              - Taken(trade, tk, a)],
                            ![t].settled = SettledWith(@, trade, tk)]
  BY Zenon DEF Transfer
<1>4. /\ UNCHANGED <<engineVars, asked>> /\ UNCHANGED <<rows, settled>>
  BY DEF Transfer, dbVars, tradeVars
<1>5. trade.quantity \in Nat
  BY <1>1 DEF EB!TradeType
<1>6. /\ moved[tk] = task[t].settled[tk] + trade.quantity
      /\ moved[trade.maker] = task[t].settled[trade.maker] + trade.quantity
      /\ \A o \in OrderIds \ {tk, trade.maker} : moved[o] = task[t].settled[o]
  BY <1>1, <1>2 DEF SettledWith
<1>7. \A o : PartOf(task[t].trades, tk, o)
               = Part(trade, tk, o) + PartOf(Tail(task[t].trades), tk, o)
  BY <1>1, PartFirst
<1>8. Tail(task[t].trades) \in Seq(EB!TradeType)
  BY <1>1, FirstTrade DEF TradingInv
<1>9. \A o : PartOf(Tail(task[t].trades), tk, o) \in Nat
  BY <1>8, PartsNat
<1> HIDE DEF fee, trade, tk
<1>10. TaskSet(t, k)
  BY <1>2, <1>3 DEF TradingInv, TasksSound, TaskRecord, TaskSet
<1> HIDE DEF moved
<1>11. /\ k.stage = "flush" /\ k.settled = moved /\ k.draft = task[t].draft
       /\ k.cur = task[t].cur /\ k.trades = task[t].trades
  BY <1>2 DEF TaskRecord
<1> HIDE DEF k
<1>12. task'[t] = k /\ \A u \in Tasks \ {t} : task'[u] = task[u]
  BY <1>10, OneTask DEF TradingInv
<1>13. ASSUME NEW o \in OrderIds
       PROVE  settled'[o] + ShareOf(task'[t], o) <= settled[o] + ShareOf(task[t], o)
  <2>1. ShareOf(k, o) = moved[o] + PartOf(Tail(task[t].trades), tk, o)
    BY <1>11 DEF ShareOf, DueOf, tk
  <2>2. ShareOf(task[t], o) = task[t].settled[o] + PartOf(task[t].trades, tk, o)
    BY <1>1 DEF ShareOf, DueOf, tk
  <2>3. moved[o] = task[t].settled[o] + Part(trade, tk, o)
    <3>1. task[t].settled[o] \in Nat
      BY <1>2
    <3> QED
      BY <1>5, <1>6, <3>1 DEF Part
  <2>4. settled[o] \in Nat /\ settled'[o] = settled[o] /\ task[t].settled[o] \in Nat
        /\ Part(trade, tk, o) \in Nat
    BY <1>2, <1>4, <1>5 DEF TradingInv, Stored, Part
  <2> QED
    BY <1>7, <1>9, <1>12, <2>1, <2>2, <2>3, <2>4
<1>14. \A o \in OrderIds : OrderKept(o) /\ EB!Remaining(order'[o]) <= EB!Remaining(order[o])
  BY <1>4, EngineStill, BoundNat DEF BoundInts
<1>15. UNCHANGED <<asked, taker, result>>
  BY <1>4, EngineStill
<1>16. WriteFacts(t, task[t])'
  BY <1>11, <1>12 DEF WriteFacts
<1>17. \A o \in OrderIds :
         /\ rows[o] # NoRow => rows'[o] # NoRow
         /\ rows'[o] # NoRow => Sees(task[t], o)
         /\ task'[t].draft[o] # NoRow => Sees(task[t], o) \/ o = t
  BY <1>4, <1>11, <1>12 DEF Sees
<1>18. task'[t].stage \notin {"ready", "reserve", "insert"}
  BY <1>11, <1>12
<1> QED
  BY <1>12, <1>13, <1>14, <1>15, <1>16, <1>17, <1>18, StepFills

LEMMA FlushTradeFills ==
    ASSUME TradingInv, TradingInv', FillsInv, NEW t \in Tasks, FlushTrade(t)
    PROVE  FillsInv'
<1> DEFINE maker == Head(task[t].trades).maker
           r     == Visible(t, maker)
           k     == [task[t] EXCEPT !.stage = "write", !.seen = r]
<1>1. task[t].stage = "flush" /\ Sees(task[t], maker)
  BY SeesVisible DEF FlushTrade, At
<1>2. TaskSet(t, k) /\ UNCHANGED <<order, taker, result, asked, rows, settled>>
  BY DEF FlushTrade, TaskSet, engineVars, dbVars, tradeVars
<1> HIDE DEF r
<1>3. /\ k.stage = "write" /\ k.settled = task[t].settled /\ k.draft = task[t].draft
      /\ k.cur = task[t].cur /\ k.trades = task[t].trades
  BY TaskFields DEF TradingInv, TaskRecord
<1> HIDE DEF k
<1>4. DueOf(k) = DueOf(task[t])
  BY <1>1, <1>3 DEF DueOf
<1>5. WriteFacts(t, task[t])'
  <2>1. task'[t] = k
    BY <1>2, OneTask DEF TradingInv
  <2>2. Head(task'[t].trades).maker = maker
    BY <1>3, <2>1
  <2> HIDE DEF maker
  <2> QED
    BY <1>1, <1>2, <1>3, <2>1, <2>2 DEF WriteFacts, Sees
<1>6. \A o \in OrderIds : k.draft[o] # NoRow => Sees(task[t], o)
  BY <1>3 DEF Sees
<1>7. k.stage \notin {"ready", "reserve", "insert"}
  BY <1>3
<1> QED
  BY <1>2, <1>3, <1>4, <1>5, <1>6, <1>7, QuietRest

LEMMA WriteMakerFills ==
    ASSUME TradingInv, TradingInv', FillsInv, NEW t \in Tasks, WriteMaker(t)
    PROVE  FillsInv'
<1> DEFINE trade  == Head(task[t].trades)
           filled == task[t].seen.filled + trade.quantity
           st     == IF filled >= task[t].seen.quantity THEN "FILLED" ELSE "PARTIALLY_FILLED"
           row    == [task[t].seen EXCEPT !.filled = filled, !.status = st]
           rest   == Tail(task[t].trades)
           d      == [task[t].draft EXCEPT ![trade.maker] = row]
           k      == [task[t] EXCEPT !.draft = d, !.seen = NoRow, !.trades = rest,
                                     !.stage = AfterTrades(rest)]
<1>1. task[t].stage = "write" /\ Sees(task[t], trade.maker)
  BY DEF WriteMaker, At, FillsInv, WritesSound, WriteFacts
<1>2. task' = [task EXCEPT ![t] = [task[t] EXCEPT
                 !.draft = [@ EXCEPT ![trade.maker] = row],
                 !.seen = NoRow, !.trades = rest, !.stage = AfterTrades(rest)]]
      /\ UNCHANGED <<order, taker, result, asked, rows, settled>>
  BY DEF WriteMaker, RestOfTrades, engineVars, dbVars, tradeVars
<1> HIDE DEF row, trade
<1>3. TaskSet(t, k)
  BY <1>2 DEF TaskSet
<1>4. \A o \in OrderIds : d[o] # NoRow => task[t].draft[o] # NoRow \/ o = trade.maker
  BY TaskFields DEF TradingInv
<1> HIDE DEF d
<1>5. AfterTrades(rest) \in {"release", "settle"}
  BY DEF AfterTrades
<1>6. /\ k.stage = AfterTrades(rest) /\ k.settled = task[t].settled /\ k.draft = d
      /\ k.cur = task[t].cur /\ k.trades = rest
  BY TaskFields DEF TradingInv, TaskRecord
<1> HIDE DEF k
<1>7. DueOf(k) = DueOf(task[t])
  BY <1>1, <1>5, <1>6 DEF DueOf
<1>8. WriteFacts(t, task[t])'
  <2>1. task'[t] = k
    BY <1>3, OneTask DEF TradingInv
  <2> QED
    BY <1>5, <1>6, <2>1 DEF WriteFacts
<1>9. \A o \in OrderIds : k.draft[o] # NoRow => Sees(task[t], o)
  BY <1>1, <1>4, <1>6 DEF Sees
<1>10. k.stage \notin {"ready", "reserve", "insert"}
  BY <1>5, <1>6
<1> QED
  BY <1>2, <1>3, <1>6, <1>7, <1>8, <1>9, <1>10, QuietRest

\* Steps that only go on to another stage, with another list of stops.
Goes(t, list, st) == TaskSet(t, [task[t] EXCEPT !.triggered = list, !.stage = st])

LEMMA StageFills ==
    ASSUME TradingInv, TradingInv', FillsInv, NEW t \in Tasks, NEW st, NEW list,
           st \in {"commit", "trigger", "stops"},
           task[t].stage \notin {"flush", "write"},
           Goes(t, list, st),
           UNCHANGED <<order, taker, result, asked, rows, settled>>
    PROVE  FillsInv'
<1> DEFINE k == [task[t] EXCEPT !.triggered = list, !.stage = st]
<1>1. /\ k.stage = st /\ k.settled = task[t].settled /\ k.draft = task[t].draft
      /\ k.cur = task[t].cur /\ k.trades = task[t].trades
  BY TaskFields DEF TradingInv, TaskRecord
<1>2. TaskSet(t, k)
  BY DEF Goes
<1> HIDE DEF k
<1>3. DueOf(k) = DueOf(task[t])
  BY <1>1 DEF DueOf
<1>4. WriteFacts(t, task[t])'
  <2>1. task'[t] = k
    BY <1>2, OneTask DEF TradingInv
  <2> QED
    BY <1>1, <2>1 DEF WriteFacts
<1>5. \A o \in OrderIds : k.draft[o] # NoRow => Sees(task[t], o)
  BY <1>1 DEF Sees
<1>6. k.stage \notin {"ready", "reserve", "insert"}
  BY <1>1
<1> QED
  BY <1>1, <1>2, <1>3, <1>4, <1>5, <1>6, QuietRest

LEMMA ReleaseFills ==
    ASSUME TradingInv, TradingInv', FillsInv, NEW t \in Tasks, Release(t) \/ NoRelease(t)
    PROVE  FillsInv'
<1> DEFINE st == AfterRelease(t)
<1>1. st \in {"commit", "trigger", "stops"}
  BY DEF AfterRelease
<1>2. /\ task' = [task EXCEPT ![t].stage = st] /\ task[t].stage = "release"
      /\ UNCHANGED <<order, taker, result, asked, rows, settled>>
  BY DEF Release, NoRelease, At, engineVars, dbVars, tradeVars
<1> HIDE DEF st
<1>3. Goes(t, task[t].triggered, st)
  BY <1>2, TaskFields DEF Goes, TaskSet, TradingInv, TasksSound, TaskRecord
<1> QED
  BY <1>1, <1>2, <1>3, StageFills

LEMMA StopsFills ==
    ASSUME TradingInv, TradingInv', FillsInv, NEW t \in Tasks, TakeStops(t) \/ SkipStop(t)
    PROVE  FillsInv'
<1>1. CASE TakeStops(t)
  <2> DEFINE st == IF pendingStops = <<>> THEN "commit" ELSE "trigger"
  <2>1. /\ Goes(t, pendingStops, st)
        /\ task[t].stage = "stops" /\ UNCHANGED <<order, taker, result, asked, rows, settled>>
    BY <1>1 DEF TakeStops, At, Goes, TaskSet, dbVars, tradeVars
  <2>2. st \in {"commit", "trigger", "stops"}
    OBVIOUS
  <2> HIDE DEF st
  <2> QED
    BY <2>1, <2>2, StageFills
<1>2. CASE SkipStop(t)
  <2> DEFINE rest == Tail(task[t].triggered)
             st == IF rest = <<>> THEN "stops" ELSE "trigger"
  <2>1. /\ Goes(t, rest, st)
        /\ task[t].stage = "trigger" /\ UNCHANGED <<order, taker, result, asked, rows, settled>>
    BY <1>2 DEF SkipStop, At, Goes, TaskSet, engineVars, dbVars, tradeVars
  <2>2. st \in {"commit", "trigger", "stops"}
    OBVIOUS
  <2> HIDE DEF st, rest
  <2> QED
    BY <2>1, <2>2, StageFills
<1> QED
  BY <1>1, <1>2

LEMMA TriggerFills ==
    ASSUME TradingInv, TradingInv', FillsInv, NEW t \in Tasks, Trigger(t)
    PROVE  FillsInv'
<1> DEFINE s   == Head(task[t].triggered)
           row == [Visible(t, s) EXCEPT !.status = "TRIGGERED"]
           d   == [task[t].draft EXCEPT ![s] = row]
           k   == [task[t] EXCEPT !.draft = d, !.stage = "fire"]
<1>1. task[t].stage = "trigger" /\ task[t].triggered # <<>> /\ Sees(task[t], s)
  BY SeesVisible DEF Trigger, At, TradingInv, TasksSound, SoundTask, StageFacts
<1>2. s \in OrderIds
  BY <1>1, TaskFields, EngineAssumptions, EB!HeadOfQueue DEF TradingInv
<1>3. row # NoRow
  <2>1. Visible(t, s) \in Row
    BY <1>2, VisibleRow DEF TradingInv
  <2>2. row.status = "TRIGGERED"
    BY <2>1 DEF Row
  <2> HIDE DEF row
  <2> QED
    BY <2>2 DEF NoRow
<1>4. /\ task' = [task EXCEPT ![t].draft[s] = row, ![t].stage = "fire"]
      /\ UNCHANGED <<order, taker, result, asked, rows, settled>>
  BY DEF Trigger, engineVars, dbVars, tradeVars
<1> HIDE DEF row
<1>5. TaskSet(t, k)
  BY <1>4 DEF TradingInv, TasksSound, TaskRecord, TaskSet
<1>6. d[s] = row /\ \A o \in OrderIds : d[o] # NoRow => task[t].draft[o] # NoRow \/ o = s
  BY <1>2, TaskFields DEF TradingInv
<1> HIDE DEF d
<1>7. /\ k.stage = "fire" /\ k.settled = task[t].settled /\ k.draft = d
      /\ k.cur = task[t].cur /\ k.trades = task[t].trades /\ k.triggered = task[t].triggered
  BY TaskFields DEF TradingInv, TaskRecord
<1> HIDE DEF k
<1>8. DueOf(k) = DueOf(task[t])
  BY <1>1, <1>7 DEF DueOf
<1>9. WriteFacts(t, task[t])'
  <2>1. task'[t] = k
    BY <1>5, OneTask DEF TradingInv
  <2> QED
    BY <1>3, <1>6, <1>7, <2>1 DEF WriteFacts
<1>10. \A o \in OrderIds : k.draft[o] # NoRow => Sees(task[t], o)
  BY <1>1, <1>6, <1>7 DEF Sees
<1>11. k.stage \notin {"ready", "reserve", "insert"}
  BY <1>7
<1> QED
  BY <1>4, <1>5, <1>7, <1>8, <1>9, <1>10, <1>11, QuietRest

LEMMA CancelSelectFills ==
    ASSUME TradingInv, TradingInv', FillsInv, NEW t \in CancelIds, NEW o \in OrderIds,
           CancelSelect(t, o)
    PROVE  FillsInv'
<1> DEFINE k == [task[t] EXCEPT !.stage = "pair", !.cur = o, !.seen = rows[o]]
<1>1. /\ t \in Tasks /\ task[t].stage = "ready" /\ TaskSet(t, k) /\ t \notin OrderIds
      /\ UNCHANGED <<engineVars, asked>> /\ UNCHANGED <<rows, settled>>
      /\ rows[o].status \in OpenStatuses
  BY TaskAssumption DEF CancelSelect, At, Tasks, TaskSet, dbVars, tradeVars
<1>2. task[t] = Ended("ready") /\ task[t] \in TaskRecord
  BY <1>1 DEF TradingInv, TasksSound, SoundTask, StageFacts, Clean
<1>3. rows[o] # NoRow
  BY <1>1 DEF NoRow, OpenStatuses
<1>4. /\ k.stage = "pair" /\ k.settled = task[t].settled /\ k.draft = task[t].draft
      /\ k.cur = o /\ k.trades = <<>>
  BY <1>2, EndedRecord DEF TaskRecord, Stages
<1> HIDE DEF k
<1>5. task'[t] = k /\ \A u \in Tasks \ {t} : task'[u] = task[u]
  BY <1>1, OneTask DEF TradingInv
<1>6. \A x \in OrderIds : ShareOf(k, x) = 0 /\ k.draft[x] = NoRow
  <2>1. \A x \in OrderIds : k.settled[x] = 0 /\ k.draft[x] = NoRow
    BY <1>2, <1>4, EndedShare DEF Clean
  <2>2. \A x : PartOf(k.trades, k.cur, x) = 0
    BY <1>4, PartNone
  <2> QED
    BY <1>4, <2>1, <2>2 DEF ShareOf, DueOf
<1>7. \A x \in OrderIds :
        settled'[x] + ShareOf(task'[t], x) <= settled[x] + ShareOf(task[t], x)
  <2>1. \A x \in OrderIds : settled[x] \in Nat /\ ShareOf(task[t], x) \in Nat
    BY <1>1, SharesInt DEF TradingInv, Stored
  <2> QED
    BY <1>1, <1>5, <1>6, <2>1
<1>8. UNCHANGED <<taker, result>> /\ \A x \in OrderIds : OrderKept(x) /\ order'[x] = order[x]
  BY <1>1, EngineStill
<1>9. \A x \in OrderIds : OrderKept(x) /\ EB!Remaining(order'[x]) <= EB!Remaining(order[x])
  BY <1>8, BoundNat DEF BoundInts
<1>10. WriteFacts(t, task[t])'
  BY <1>1, <1>3, <1>4, <1>5 DEF WriteFacts
<1>11. \A x \in OrderIds :
         /\ rows[x] # NoRow => rows'[x] # NoRow
         /\ rows'[x] # NoRow => Sees(task[t], x)
         /\ task'[t].draft[x] # NoRow => Sees(task[t], x) \/ x = t
  BY <1>1, <1>5, <1>6 DEF Sees
<1>12. task'[t].stage \notin {"ready", "reserve", "insert"}
  BY <1>4, <1>5
<1> QED
  BY <1>1, <1>5, <1>7, <1>8, <1>9, <1>10, <1>11, <1>12, StepFills

LEMMA CancelOrderFills ==
    ASSUME TradingInv, TradingInv', FillsInv, NEW t \in Tasks, CancelOrder(t)
    PROVE  FillsInv'
<1> DEFINE o   == task[t].cur
           row == [task[t].seen EXCEPT !.status = "CANCELLED"]
           d   == [task[t].draft EXCEPT ![o] = row]
           k   == [task[t] EXCEPT !.draft = d, !.stage = "release"]
<1>1. task[t].stage = "pair" /\ o \in OrderIds
  BY DEF CancelOrder, At, TradingInv, TasksSound, SoundTask, StageFacts, Clean
<1>2. Sees(task[t], o)
  BY <1>1 DEF FillsInv, WritesSound, WriteFacts, Sees
<1>3. /\ IF o \in ordersById THEN Engine!CancelOrder(o) ELSE UNCHANGED engineVars
      /\ task' = [task EXCEPT ![t].draft[o] = row, ![t].stage = "release"]
      /\ UNCHANGED <<asked, rows, settled>>
  BY DEF CancelOrder, dbVars, tradeVars
<1> HIDE DEF o, row
<1>4. TaskSet(t, k)
  BY <1>3 DEF TradingInv, TasksSound, TaskRecord, TaskSet
<1>5. \A x \in OrderIds : d[x] # NoRow => task[t].draft[x] # NoRow \/ x = o
  BY <1>1, TaskFields DEF TradingInv
<1> HIDE DEF d
<1>6. /\ k.stage = "release" /\ k.settled = task[t].settled /\ k.draft = d
      /\ k.cur = task[t].cur /\ k.trades = task[t].trades
  BY TaskFields DEF TradingInv, TaskRecord
<1> HIDE DEF k
<1>7. /\ UNCHANGED <<taker, result>>
      /\ \A x \in OrderIds : OrderKept(x) /\ EB!Remaining(order'[x]) <= EB!Remaining(order[x])
  <2>1. CASE o \in ordersById
    <3> DEFINE st == IF order[o].status \in {"OPEN", "PENDING", "PARTIALLY_FILLED"}
                     THEN "CANCELLED" ELSE order[o].status
    <3>1. /\ order' = [order EXCEPT ![o].status =
                         IF @ \in {"OPEN", "PENDING", "PARTIALLY_FILLED"} THEN "CANCELLED" ELSE @]
          /\ UNCHANGED <<taker, result>>
      BY <1>3, <2>1 DEF Engine!CancelOrder, Engine!callVars
    <3>2. order' = [order EXCEPT ![o] = [order[o] EXCEPT !.status = st]]
      BY <3>1
    <3> HIDE DEF st
    <3>3. order \in [OrderIds -> EB!EngineOrder]
      BY DEF TradingInv, EngineSound, EB!TypeInv, EB!TypeOK
    <3>4. /\ order'[o] = [order[o] EXCEPT !.status = st]
          /\ \A x \in OrderIds \ {o} : order'[x] = order[x]
      BY <1>1, <3>2, <3>3
    <3>5. /\ order'[o].order_type = order[o].order_type
          /\ order'[o].quote_quantity = order[o].quote_quantity
          /\ EB!Remaining(order'[o]) = EB!Remaining(order[o])
      BY <1>1, <3>3, <3>4 DEF EB!EngineOrder, EB!Remaining
    <3>6. \A x \in OrderIds : OrderKept(x) /\ EB!Remaining(order'[x]) = EB!Remaining(order[x])
      BY <3>4, <3>5 DEF OrderKept
    <3> QED
      BY <3>1, <3>6, BoundNat DEF BoundInts
  <2>2. CASE o \notin ordersById
    <3>1. UNCHANGED engineVars
      BY <1>3, <2>2
    <3> QED
      BY <3>1, EngineStill, BoundNat DEF BoundInts
  <2> QED
    BY <2>1, <2>2
<1>8. DueOf(k) = DueOf(task[t])
  BY <1>1, <1>6 DEF DueOf
<1>9. WriteFacts(t, task[t])'
  <2>1. task'[t] = k
    BY <1>4, OneTask DEF TradingInv
  <2> QED
    BY <1>6, <2>1 DEF WriteFacts
<1>10. \A x \in OrderIds : k.draft[x] # NoRow => Sees(task[t], x) \/ x = t
  BY <1>2, <1>5, <1>6 DEF Sees
<1>11. k.stage \notin {"ready", "reserve", "insert"}
  BY <1>6
<1> QED
  BY <1>3, <1>4, <1>6, <1>7, <1>8, <1>9, <1>10, <1>11, RestShare

LEMMA InsertFills ==
    ASSUME TradingInv, TradingInv', FillsInv, NEW t \in Tasks, Insert(t)
    PROVE  FillsInv'
<1> DEFINE o   == task[t].cur
           new == Sized(t)
           row == RowOf(t, new)
           st  == AfterTrades(task[t].trades)
           d   == [task[t].draft EXCEPT ![o] = row]
           k   == [task[t] EXCEPT !.draft = d, !.stage = st]
<1>1. task[t].stage = "insert" /\ o \in OrderIds
  BY DEF Insert, At, TradingInv, TasksSound, SoundTask, StageFacts, Clean
<1>2. o = t \/ Sees(task[t], o)
  BY <1>1 DEF FillsInv, WritesSound, WriteFacts, Sees
<1>3. /\ order' = [order EXCEPT ![o] = new]
      /\ task' = [task EXCEPT ![t].draft[o] = row, ![t].stage = st]
      /\ UNCHANGED <<taker, result, asked, rows, settled>>
  BY DEF Insert, dbVars, tradeVars
<1>4. /\ new.order_type = order[o].order_type /\ new.quote_quantity = order[o].quote_quantity
  <2> DEFINE bought == Total(task[t].trades, LAMBDA x : x.quantity)
             sized  == [order[o] EXCEPT !.filled_quantity = bought, !.quantity = bought]
  <2>1. new = sized \/ new = order[o]
    BY DEF Sized
  <2>2. order[o] \in EB!EngineOrder
    BY <1>1 DEF TradingInv, EngineSound, EB!TypeInv, EB!TypeOK
  <2> HIDE DEF bought, new
  <2>3. sized.order_type = order[o].order_type /\ sized.quote_quantity = order[o].quote_quantity
    BY <2>2 DEF EB!EngineOrder
  <2> QED
    BY <2>1, <2>3
<1>5. new = order[o] \/ EB!Remaining(new) = 0
  BY <1>1, SizedOrder
<1>6. st \in {"release", "settle"}
  BY DEF AfterTrades
<1> HIDE DEF o, row, st, new
<1>7. TaskSet(t, k)
  BY <1>3 DEF TradingInv, TasksSound, TaskRecord, TaskSet
<1>8. \A x \in OrderIds : d[x] # NoRow => task[t].draft[x] # NoRow \/ x = o
  BY <1>1, TaskFields DEF TradingInv
<1> HIDE DEF d
<1>9. /\ k.stage = st /\ k.settled = task[t].settled /\ k.draft = d
      /\ k.cur = task[t].cur /\ k.trades = task[t].trades
  BY TaskFields DEF TradingInv, TaskRecord
<1> HIDE DEF k
<1>10. \A x \in OrderIds : OrderKept(x) /\ EB!Remaining(order'[x]) <= EB!Remaining(order[x])
  <2>1. order \in [OrderIds -> EB!EngineOrder]
    BY DEF TradingInv, EngineSound, EB!TypeInv, EB!TypeOK
  <2>2. order'[o] = new /\ \A x \in OrderIds \ {o} : order'[x] = order[x]
    BY <1>1, <1>3, <2>1
  <2>3. \A x \in OrderIds : EB!Remaining(order[x]) \in Nat
    BY BoundNat DEF BoundInts
  <2> QED
    BY <1>4, <1>5, <2>2, <2>3 DEF OrderKept
<1>11. DueOf(k) = DueOf(task[t])
  BY <1>1, <1>6, <1>9 DEF DueOf
<1>12. WriteFacts(t, task[t])'
  <2>1. task'[t] = k
    BY <1>7, OneTask DEF TradingInv
  <2> QED
    BY <1>6, <1>9, <2>1 DEF WriteFacts
<1>13. \A x \in OrderIds : k.draft[x] # NoRow => Sees(task[t], x) \/ x = t
  BY <1>2, <1>8, <1>9 DEF Sees
<1>14. k.stage \notin {"ready", "reserve", "insert"}
  BY <1>6, <1>9
<1> QED
  BY <1>3, <1>7, <1>9, <1>10, <1>11, <1>12, <1>13, <1>14, RestShare

\* What process_order makes of the order it is given.
LEMMA Processed ==
    ASSUME EngineSound, NEW o \in OrderIds, NEW ord \in EB!EngineOrder, Engine!Process(o, ord)
    PROVE  /\ result = <<>> /\ result' = <<>>
           /\ \A x \in OrderIds \ {o} : order'[x] = order[x]
           /\ order'[o].order_type = ord.order_type
           /\ order'[o].quote_quantity = ord.quote_quantity
           /\ EB!Remaining(order'[o]) = EB!Remaining(ord)
<1>1. EB!Process(o, ord) /\ EB!TypeInv /\ EB!EngineInv
  BY SameProcess DEF EngineSound
<1>2. result' = result /\ result = <<>>
  BY <1>1 DEF EB!Process, EB!Expire, EB!KillFillOrKill, EB!StartMatching, EB!RestStop, EB!callVars,
              EB!EngineInv, EB!TakerInv
<1>3. /\ \A x \in OrderIds \ {o} : order'[x] = order[x]
      /\ order'[o] = ord \/ \E st : order'[o] = [ord EXCEPT !.status = st]
  BY <1>1, EngineAssumptions, EB!ProcessChanges
<1>4. \A st : LET after == [ord EXCEPT !.status = st] IN
                /\ after.order_type = ord.order_type
                /\ after.quote_quantity = ord.quote_quantity
                /\ EB!Remaining(after) = EB!Remaining(ord)
  BY EngineAssumptions, EB!StatusEffect
<1> QED
  BY <1>2, <1>3, <1>4

\* A request submits order o to the engine.
Submits(t, o) ==
    /\ task'[t].stage = "insert" /\ task'[t].cur = o /\ task'[t].trades = <<>>
    /\ task'[t].settled = task[t].settled /\ task'[t].draft = task[t].draft
    /\ \A u \in Tasks \ {t} : task'[u] = task[u]
    /\ \A u \in Tasks \ {t} : task[u].stage = "insert" => task[u].cur # o
    /\ \A x \in OrderIds \ {o} : order'[x] = order[x]
    /\ result = <<>> /\ result' = <<>>
    /\ UNCHANGED <<asked, rows, settled>>

LEMMA SubmitFills ==
    ASSUME TradingInv, TradingInv', FillsInv, NEW t \in Tasks, NEW o \in OrderIds, Submits(t, o),
           NoMoreLeft(o), asked[o].ord.quote_quantity = 0 => order'[o].quote_quantity = 0,
           WriteFacts(t, task[t])', Unwritten(t)' => Unwritten(t)
    PROVE  FillsInv'
<1> USE DEF Submits
<1>1. FillBound /\ QuoteFree /\ RowsWritten /\ WritesSound /\ OneInsert
  BY DEF FillsInv
<1>2. ASSUME NEW x \in OrderIds PROVE Bounded(x)'
  <2>1. PartOf(result, taker, x) = 0 /\ PartOf(result, taker, x)' = 0
    <3>1. PartOf(result, taker, x)' = PartOf(result', taker', x)
      BY DEF PartOf, Parts, Part
    <3> QED
      BY <3>1, PartNone
  <2>2. Claimed(x)' = Claimed(x) - settled[x] - ShareOf(task[t], x)
                        + settled'[x] + ShareOf(task'[t], x)
    BY <2>1, ClaimedStep
  <2>3. /\ Claimed(x) \in Int /\ settled[x] \in Int /\ settled'[x] = settled[x]
        /\ ShareOf(task[t], x) \in Int /\ task[t].settled[x] \in Int
        /\ task[t].settled[x] <= ShareOf(task[t], x)
    <3>1. SoundTask(t, task[t])
      BY DEF TradingInv, TasksSound
    <3> QED
      BY <3>1, ShareNat, ClaimedInt
  <2>4. ShareOf(task'[t], x) = task[t].settled[x]
    <3>1. PartOf(task'[t].trades, task'[t].cur, x) = 0
      BY PartNone
    <3> QED
      BY <2>3, <3>1 DEF ShareOf, DueOf
  <2>5. Claimed(x)' <= Claimed(x)
    BY <2>2, <2>3, <2>4
  <2>6. Unsubmitted(x)' => Unsubmitted(x)
    BY DEF Unsubmitted, Tasks
  <2>7. NoMoreLeft(x)
    <3>1. CASE x = o
      BY <3>1
    <3>2. CASE x # o
      <4>1. order'[x] = order[x]
        BY <3>2
      <4>2. asked[x].ord.quantity \in Nat /\ EB!Remaining(order[x]) \in Nat
        BY BoundNat DEF BoundInts
      <4>3. Unsubmitted(x) => EB!Remaining(order[x]) = 0
        BY UnsubmittedBlank
      <4> QED
        BY <4>1, <4>2, <4>3 DEF NoMoreLeft
    <3> QED
      BY <3>1, <3>2
  <2> QED
    BY <1>1, <2>5, <2>6, <2>7, BoundStep
<1>3. QuoteFree'
  BY <1>1 DEF QuoteFree
<1>4. RowsWritten'
  <2>1. \A x \in OrderIds :
          /\ rows'[x] # NoRow => Sees(task[t], x)
          /\ task'[t].draft[x] # NoRow => Sees(task[t], x) \/ (x = t /\ ~Unwritten(x)')
    BY DEF Sees
  <2> QED
    BY <1>1, <2>1, RowsStep
<1>5. WritesSound'
  <2>1. \A u \in Tasks : task[u].stage = "insert" => task[u].cur \in OrderIds
    BY DEF TradingInv, TasksSound, SoundTask, StageFacts, Clean
  <2>2. \A u \in Tasks \ {t} :
          task[u].stage = "insert" =>
            order'[task[u].cur].order_type = order[task[u].cur].order_type
    BY <2>1
  <2> QED
    BY <1>1, <2>2, WritesStep DEF TradingInv
<1>6. OneInsert'
  BY <1>1 DEF OneInsert
<1>7. FillBound'
  BY <1>2 DEF FillBound
<1> QED
  BY <1>3, <1>4, <1>5, <1>6, <1>7 DEF FillsInv

LEMMA ReserveFills ==
    ASSUME TradingInv, TradingInv', FillsInv, NEW t \in Tasks, Reserve(t)
    PROVE  FillsInv'
<1> DEFINE ord == asked[t].ord
           k   == [task[t] EXCEPT !.stage = "insert", !.cur = t]
<1>1. task[t].stage = "reserve" /\ t \notin CancelIds /\ task[t] = Ended("reserve")
  BY DEF Reserve, At, TradingInv, TasksSound, SoundTask, StageFacts, Clean
<1>2. t \in OrderIds /\ task[t] \in TaskRecord /\ task[t].trades = <<>>
  BY <1>1 DEF Tasks, TradingInv, TasksSound, Ended, Fresh
<1>3. Engine!Process(t, ord) /\ UNCHANGED <<asked, rows, settled>> /\ TaskSet(t, k)
  BY DEF Reserve, TaskSet, dbVars, tradeVars
<1>4. ord \in EB!EngineOrder /\ EB!WellFormed(ord)
  BY <1>1, <1>2, AskedOrder, SameRequests DEF TradingInv, RequestsSound
<1>5. EB!Remaining(ord) = asked[t].ord.quantity
  BY <1>4 DEF EB!WellFormed, EB!Remaining, EB!EngineOrder
<1>6. /\ result = <<>> /\ result' = <<>>
      /\ \A x \in OrderIds \ {t} : order'[x] = order[x]
      /\ order'[t].quote_quantity = asked[t].ord.quote_quantity
      /\ EB!Remaining(order'[t]) = EB!Remaining(ord)
  BY <1>2, <1>3, <1>4, Processed DEF TradingInv
<1>7. /\ k.stage = "insert" /\ k.cur = t /\ k.trades = <<>>
      /\ k.settled = task[t].settled /\ k.draft = task[t].draft
  BY <1>2 DEF TaskRecord
<1>8. k.draft[t] = NoRow
  BY <1>1, <1>2, <1>7, EndedShare DEF Clean
<1> HIDE DEF k, ord
<1>9. task'[t] = k /\ \A u \in Tasks \ {t} : task'[u] = task[u]
  BY <1>3, OneTask DEF TradingInv
<1>10. \A u \in Tasks : task[u].stage = "insert" => task[u].cur # t
  BY <1>1, <1>2 DEF TradingInv, OrdersKnown, Known
<1>11. Submits(t, t)
  BY <1>3, <1>6, <1>7, <1>9, <1>10 DEF Submits
<1>12. Unsubmitted(t)
  BY <1>1 DEF Unsubmitted
<1>13. NoMoreLeft(t)
  BY <1>2, <1>5, <1>6, <1>12, BoundNat DEF NoMoreLeft, BoundInts
<1>14. WriteFacts(t, task[t])' /\ Unwritten(t)
  BY <1>7, <1>8, <1>9, <1>12 DEF WriteFacts, Unwritten
<1> QED
  BY <1>2, <1>6, <1>11, <1>13, <1>14, SubmitFills

LEMMA FireFills ==
    ASSUME TradingInv, TradingInv', FillsInv, NEW t \in Tasks, Fire(t)
    PROVE  FillsInv'
<1> DEFINE list == task[t].triggered
           s    == Head(list)
           ord  == Engine!Triggered(order[s])
           k    == [task[t] EXCEPT !.stage = "insert", !.cur = s, !.trades = <<>>,
                                   !.triggered = Tail(list)]
<1>1. task[t].stage = "fire" /\ list # <<>> /\ list \in Seq(OrderIds) /\ task[t] \in TaskRecord
  BY TaskFields DEF Fire, At, TradingInv, TasksSound, SoundTask, StageFacts
<1>2. s \in OrderIds
  BY <1>1, EngineAssumptions, EB!HeadOfQueue
<1>3. task[t].draft[s] # NoRow
  BY <1>1 DEF FillsInv, WritesSound, WriteFacts
<1>4. Engine!Process(s, ord) /\ TaskSet(t, k) /\ UNCHANGED <<asked, rows, settled>>
  BY DEF Fire, TaskSet, dbVars, tradeVars
<1>5. list \in Lists
  BY <1>1 DEF Lists
<1>6. EB!StopOrder(order[s])
  BY <1>5, EngineAssumptions, EB!RestOfBatch DEF TradingInv, EngineSound
<1>7. EB!Sound(order[s]) /\ order[s] \in EB!EngineOrder
  BY <1>2 DEF TradingInv, EngineSound, EB!TypeInv, EB!SoundOrders, EB!Sound
<1> HIDE DEF s
<1>8. /\ ord \in EB!EngineOrder /\ ord.order_type \in {"LIMIT", "MARKET"}
      /\ ord.quote_quantity = order[s].quote_quantity
      /\ EB!Remaining(ord) = EB!Remaining(order[s])
  BY <1>7, SameHelpers DEF EB!Triggered, EB!EngineOrder, EB!OrderTypes, EB!Remaining
<1> HIDE DEF ord
<1>9. /\ result = <<>> /\ result' = <<>>
      /\ \A x \in OrderIds \ {s} : order'[x] = order[x]
      /\ order'[s].order_type = ord.order_type
      /\ order'[s].quote_quantity = ord.quote_quantity
      /\ EB!Remaining(order'[s]) = EB!Remaining(ord)
  BY <1>2, <1>4, <1>8, Processed DEF TradingInv
<1>10. /\ k.stage = "insert" /\ k.cur = s /\ k.trades = <<>>
       /\ k.settled = task[t].settled /\ k.draft = task[t].draft
  <2> HIDE DEF list
  <2> QED
    BY <1>1 DEF TaskRecord
<1> HIDE DEF k
<1>11. task'[t] = k /\ \A u \in Tasks \ {t} : task'[u] = task[u]
  BY <1>4, OneTask DEF TradingInv
<1>12. ASSUME NEW u \in Tasks, task[u].stage = "insert", task[u].cur = s PROVE FALSE
  <2>1. \/ u = s /\ task[u].draft[u] = NoRow
        \/ order[s].order_type \in {"LIMIT", "MARKET"}
    BY <1>12 DEF FillsInv, WritesSound, WriteFacts
  <2>2. CASE u = s /\ task[u].draft[u] = NoRow
    <3>1. Unwritten(s)
      BY <1>12, <2>2 DEF Unwritten
    <3> QED
      BY <1>2, <1>3, <3>1 DEF FillsInv, RowsWritten
  <2>3. CASE order[s].order_type \in {"LIMIT", "MARKET"}
    BY <1>6, <2>3 DEF EB!StopOrder
  <2> QED
    BY <2>1, <2>2, <2>3
<1>13. Submits(t, s)
  BY <1>4, <1>9, <1>10, <1>11, <1>12 DEF Submits
<1>14. ~Unsubmitted(s)
  BY <1>2, <1>6, UnsubmittedBlank DEF EB!StopOrder, EB!Fresh, EB!Blank
<1>15. NoMoreLeft(s)
  BY <1>2, <1>8, <1>9, <1>14, BoundNat DEF NoMoreLeft, BoundInts
<1>16. WriteFacts(t, task[t])' /\ ~Unwritten(t)'
  BY <1>3, <1>8, <1>9, <1>10, <1>11 DEF WriteFacts, Unwritten, Unsubmitted
<1>17. asked[s].ord.quote_quantity = 0 => order'[s].quote_quantity = 0
  BY <1>2, <1>8, <1>9 DEF FillsInv, QuoteFree
<1> QED
  BY <1>2, <1>13, <1>15, <1>16, <1>17, SubmitFills

-----------------------------------------------------------------------------
(* The bound: the steps around the requests.                               *)

\* Steps that move no request: only the engine's orders and results change.
LEMMA RestKept ==
    ASSUME TradingInv, FillsInv, UNCHANGED <<asked, rows>>,
           \A o \in OrderIds : OrderKept(o),
           \A t \in Tasks :
             /\ task'[t].stage = task[t].stage /\ task'[t].cur = task[t].cur
             /\ task'[t].draft = task[t].draft /\ task'[t].triggered = task[t].triggered
             /\ task[t].stage # "insert" => task'[t].trades = task[t].trades,
           FillBound'
    PROVE  FillsInv'
<1>1. QuoteFree /\ RowsWritten /\ WritesSound /\ OneInsert
  BY DEF FillsInv
<1>2. QuoteFree'
  BY <1>1 DEF QuoteFree, OrderKept
<1>3. RowsWritten'
  BY <1>1 DEF RowsWritten, Unwritten, Unsubmitted, Tasks
<1>4. OneInsert'
  BY <1>1 DEF OneInsert
<1>5. ASSUME NEW t \in Tasks PROVE WriteFacts(t, task[t])'
  <2>1. WriteFacts(t, task[t]) /\ (task[t].stage = "insert" => task[t].cur \in OrderIds)
    BY <1>1 DEF WritesSound, TradingInv, TasksSound, SoundTask, StageFacts, Clean
  <2>2. task[t].stage = "insert" =>
          order'[task[t].cur].order_type = order[task[t].cur].order_type
    BY <2>1 DEF OrderKept
  <2> QED
    BY <2>1, <2>2 DEF WriteFacts, Sees
<1>6. WritesSound'
  BY <1>5 DEF WritesSound
<1> QED
  BY <1>2, <1>3, <1>4, <1>6 DEF FillsInv

\* Steps that change neither requests nor orders.
LEMMA StillFills ==
    ASSUME TradingInv, TradingInv', FillsInv,
           UNCHANGED <<asked, rows, settled, task, order, taker, result>>
    PROVE  FillsInv'
<1>1. ASSUME NEW o \in OrderIds PROVE Bounded(o)'
  <2>1. Bounded(o)
    BY DEF FillsInv, FillBound
  <2>2. Claimed(o)' = Claimed(o)
    BY DEF Claimed, Shares, ShareOf, DueOf, PartOf, Parts, Part
  <2>3. (Unsubmitted(o)' <=> Unsubmitted(o)) /\ Room(o)' = Room(o)
    BY DEF Room, Unsubmitted, EB!Remaining
  <2> QED
    BY <2>1, <2>2, <2>3 DEF Bounded
<1>2. FillBound'
  BY <1>1 DEF FillBound
<1>3. \A o \in OrderIds : OrderKept(o)
  BY DEF OrderKept
<1> QED
  BY <1>2, <1>3, RestKept

LEMMA BeginFills ==
    ASSUME TradingInv, TradingInv', FillsInv, NEW t \in OrderIds, NEW req \in RequestsOf[t],
           Begin(t, req)
    PROVE  FillsInv'
<1> DEFINE k == [task[t] EXCEPT !.stage = "reserve"]
<1>1. /\ t \in Tasks /\ task[t].stage = "ready" /\ TaskSet(t, k)
      /\ asked' = [asked EXCEPT ![t] = req] /\ UNCHANGED <<rows, settled>>
      /\ UNCHANGED engineVars
  BY DEF Begin, At, Tasks, TaskSet, dbVars, tradeVars
<1>2. task[t] \in TaskRecord /\ task[t] = Ended("ready")
  BY <1>1 DEF TradingInv, TasksSound, SoundTask, StageFacts, Clean
<1>3. k = Ended("reserve") /\ k.stage = "reserve"
  BY <1>2 DEF Ended, Fresh
<1> HIDE DEF k
<1>4. \A o \in OrderIds : ShareOf(k, o) = 0 /\ ShareOf(task[t], o) = 0 /\ k.draft[o] = NoRow
  BY <1>2, <1>3, EndedShare DEF Clean
<1>5. task'[t] = k /\ \A u \in Tasks \ {t} : task'[u] = task[u]
  BY <1>1, OneTask DEF TradingInv
<1>6. UNCHANGED <<taker, result, order>>
  BY <1>1 DEF engineVars
<1>7. FillBound /\ QuoteFree /\ RowsWritten /\ WritesSound /\ OneInsert
  BY DEF FillsInv
<1>8. Unsubmitted(t) /\ Unsubmitted(t)' /\ Unwritten(t)
  BY <1>1, <1>3, <1>5 DEF Unsubmitted, Unwritten
<1>9. \A o \in OrderIds \ {t} : asked'[o] = asked[o]
  BY <1>1 DEF TradingInv, RequestsSound
<1>10. ASSUME NEW o \in OrderIds PROVE Bounded(o)'
  <2>1. PartOf(result, taker, o)' = PartOf(result, taker, o)
    BY <1>6 DEF PartOf, Parts, Part
  <2>2. Claimed(o)' = Claimed(o) - settled[o] - ShareOf(task[t], o)
                        + settled'[o] + ShareOf(task'[t], o)
    BY <1>1, <1>5, <2>1, ClaimedStep
  <2>3. Claimed(o) \in Int /\ settled[o] \in Int
    BY ClaimedInt
  <2>4. Claimed(o)' = Claimed(o)
    BY <1>1, <1>4, <1>5, <2>2, <2>3
  <2>5. Bounded(o)
    BY <1>7 DEF FillBound
  <2>6. CASE o = t
    BY <1>8, <2>4, <2>5, <2>6 DEF Bounded, Room
  <2>7. CASE o # t
    <3>1. /\ Unsubmitted(o)' <=> Unsubmitted(o)
          /\ asked'[o] = asked[o] /\ order'[o] = order[o]
      BY <1>5, <1>6, <1>9, <2>7 DEF Unsubmitted, Tasks
    <3>2. Room(o)' = Room(o)
      BY <3>1 DEF Room, EB!Remaining
    <3> QED
      BY <2>4, <2>5, <3>1, <3>2 DEF Bounded
  <2> QED
    BY <2>6, <2>7
<1>11. QuoteFree'
  <2>1. order[t].quote_quantity = 0
    BY <1>8, UnsubmittedBlank
  <2> QED
    BY <1>6, <1>7, <1>9, <2>1 DEF QuoteFree
<1>12. RowsWritten'
  <2>1. \A o \in OrderIds :
          /\ rows'[o] # NoRow => Sees(task[t], o)
          /\ task'[t].draft[o] # NoRow => Sees(task[t], o) \/ (o = t /\ ~Unwritten(o)')
    BY <1>1, <1>4, <1>5 DEF Sees
  <2> QED
    BY <1>1, <1>5, <1>7, <1>8, <2>1, RowsStep
<1>13. WritesSound'
  <2>1. WriteFacts(t, task[t])'
    BY <1>3, <1>5 DEF WriteFacts
  <2> QED
    BY <1>1, <1>5, <1>6, <1>7, <2>1, WritesStep DEF TradingInv
<1>14. OneInsert'
  BY <1>3, <1>5, <1>7 DEF OneInsert
<1>15. FillBound'
  BY <1>10 DEF FillBound
<1> QED
  BY <1>11, <1>12, <1>13, <1>14, <1>15 DEF FillsInv

-----------------------------------------------------------------------------
(* The bound: the engine's call.                                           *)

\* The engine's call goes on: no request moves.
LEMMA CallFills ==
    ASSUME TradingInv, TradingInv', FillsInv, EB!EngineStep, pc' # "idle",
           UNCHANGED <<asked, rows, settled, task>>
    PROVE  FillsInv'
<1>1. FillBound /\ QuoteFree /\ EngineSound
  BY DEF FillsInv, TradingInv
<1>2. BoundInts
  BY BoundNat
<1>3. ASSUME NEW o \in OrderIds
      PROVE  Shares(o)' = Shares(o) /\ (Unsubmitted(o)' <=> Unsubmitted(o))
  BY DEF Shares, ShareOf, DueOf, PartOf, Parts, Part, Unsubmitted
<1>4. CASE EB!MatchLimit \/ EB!MatchMarket
  <2>1. PICK maker \in OrderIds \ {taker}, p \in Prices, qty \in Nat :
          /\ taker \in OrderIds
          /\ \A o \in OrderIds \ {maker, taker} : order'[o] = order[o]
          /\ \A o \in {maker, taker} : OrderKept(o) /\ order[o].status # "UNUSED"
          /\ EB!Remaining(order'[maker]) = EB!Remaining(order[maker]) - qty
          /\ EB!Remaining(order'[taker]) \in Nat
          /\ order[taker].quote_quantity = 0 =>
               EB!Remaining(order'[taker]) = EB!Remaining(order[taker]) - qty
          /\ taker' = taker /\ pc' = pc /\ pc # "idle"
          /\ result' = Append(result, [maker |-> maker, price |-> p, quantity |-> qty])
    BY <1>1, <1>4, LoopFills
  <2> DEFINE x == [maker |-> maker, price |-> p, quantity |-> qty]
  <2>2. x \in EB!TradeType /\ x.maker = maker /\ x.quantity = qty /\ result' = Append(result, x)
    BY <2>1 DEF EB!TradeType
  <2> HIDE DEF x
  <2>3. \A o \in OrderIds : OrderKept(o)
    BY <2>1 DEF OrderKept
  <2>4. ASSUME NEW o \in OrderIds PROVE Bounded(o)'
    <3>1. PartOf(result, taker, o)' = PartOf(result, taker, o) + Part(x, taker, o)
      <4>1. result \in Seq(EB!TradeType)
        BY <1>1 DEF EngineSound, EB!TypeInv, EB!TypeOK
      <4>2. PartOf(result, taker, o)' = PartOf(result', taker', o)
        BY DEF PartOf, Parts, Part
      <4>3. PartOf(Append(result, x), taker, o) = PartOf(result, taker, o) + Part(x, taker, o)
        BY <2>2, <4>1, PartLast
      <4> QED
        BY <2>1, <2>2, <4>2, <4>3
    <3>2. Claimed(o) \in Int /\ Part(x, taker, o) = IF o \in {taker, maker} THEN qty ELSE 0
      BY <2>2, ClaimedInt DEF Part
    <3>3. Claimed(o)' = Claimed(o) + Part(x, taker, o)
      <4>1. /\ settled[o] \in Int /\ SumFunctionOnSet(Shares(o), Tasks) \in Int
            /\ PartOf(result, taker, o) \in Int /\ Part(x, taker, o) \in Int
        BY <2>1, <3>2, ClaimedInt
      <4>2. SumFunctionOnSet(Shares(o), Tasks)' = SumFunctionOnSet(Shares(o), Tasks)
        BY <1>3
      <4> QED
        BY <3>1, <4>1, <4>2 DEF Claimed
    <3>4. Bounded(o) /\ (Unsubmitted(o)' <=> Unsubmitted(o))
      BY <1>1, <1>3 DEF FillBound
    <3>5. CASE o \notin {maker, taker}
      <4>1. order'[o] = order[o]
        BY <2>1, <3>5
      <4>2. Room(o)' = Room(o)
        BY <3>4, <4>1 DEF Room, EB!Remaining
      <4> QED
        BY <3>2, <3>3, <3>4, <3>5, <4>2 DEF Bounded
    <3>6. CASE o \in {maker, taker}
      <4>1. ~Unsubmitted(o)
        BY <2>1, <3>6, UnsubmittedBlank DEF EB!Blank
      <4>2. ASSUME asked[o].ord.quote_quantity = 0 PROVE Claimed(o)' <= Room(o)'
        <5>1. order[o].quote_quantity = 0
          BY <1>1, <4>2 DEF QuoteFree
        <5>2. EB!Remaining(order'[o]) = EB!Remaining(order[o]) - qty
          BY <2>1, <3>6, <5>1
        <5>3. Claimed(o) <= asked[o].ord.quantity - EB!Remaining(order[o])
          BY <3>4, <4>1, <4>2 DEF Bounded, Room
        <5>4. Room(o)' = asked[o].ord.quantity - EB!Remaining(order'[o])
          BY <3>4, <4>1 DEF Room, EB!Remaining
        <5>5. asked[o].ord.quantity \in Int /\ EB!Remaining(order[o]) \in Int
          BY <1>2 DEF BoundInts
        <5> QED
          BY <3>2, <3>3, <3>6, <5>2, <5>3, <5>4, <5>5
      <4> QED
        BY <3>4, <4>1, <4>2 DEF Bounded
    <3> QED
      BY <3>5, <3>6
  <2>5. FillBound'
    BY <2>4 DEF FillBound
  <2> QED
    BY <2>3, <2>5, RestKept
<1>5. ASSUME UNCHANGED <<taker, result>>,
             \A o \in OrderIds : OrderKept(o) /\ EB!Remaining(order'[o]) <= EB!Remaining(order[o])
      PROVE  FillsInv'
  <2>1. ASSUME NEW o \in OrderIds PROVE Bounded(o)'
    <3>1. Claimed(o)' = Claimed(o) /\ Claimed(o) \in Int
      <4>1. PartOf(result, taker, o)' = PartOf(result, taker, o)
        BY <1>5 DEF PartOf, Parts, Part
      <4>2. SumFunctionOnSet(Shares(o), Tasks)' = SumFunctionOnSet(Shares(o), Tasks)
        BY <1>3
      <4>3. Claimed(o)' = Claimed(o)
        BY <4>1, <4>2 DEF Claimed
      <4> QED
        BY <4>3, ClaimedInt
    <3>2. NoMoreLeft(o)
      <4>1. EB!Remaining(order'[o]) <= EB!Remaining(order[o])
        BY <1>5
      <4>2. asked[o].ord.quantity \in Nat
        BY <1>2 DEF BoundInts
      <4>3. (TradingInv => BoundInts)'
        BY BoundNat, PTL
      <4>4. EB!Remaining(order'[o]) \in Int
        BY <4>3 DEF BoundInts, EB!Remaining
      <4>5. Unsubmitted(o) => EB!Remaining(order[o]) = 0
        BY UnsubmittedBlank
      <4> QED
        BY <4>1, <4>2, <4>4, <4>5 DEF NoMoreLeft
    <3> QED
      BY <1>1, <1>3, <3>1, <3>2, BoundStep
  <2>2. FillBound'
    BY <2>1 DEF FillBound
  <2> QED
    BY <1>5, <2>2, RestKept
<1>6. CASE EB!FinishLimit \/ EB!FinishMarket
  BY <1>1, <1>5, <1>6, FinishFills
<1>7. CASE \E side \in EB!Sides, sp \in Prices : EB!FireStops(side, sp)
  <2>1. UNCHANGED <<taker, result, order>>
    BY <1>7 DEF EB!FireStops, EB!callVars
  <2>2. \A o \in OrderIds : OrderKept(o) /\ EB!Remaining(order'[o]) <= EB!Remaining(order[o])
    BY <1>2, <2>1 DEF OrderKept, BoundInts
  <2> QED
    BY <1>5, <2>1, <2>2
<1>8. CASE EB!EndCall
  BY <1>8 DEF EB!EndCall
<1>9. CASE EB!DropMaker
  <2>1. UNCHANGED <<taker, result, order>>
    BY <1>9 DEF EB!DropMaker, EB!callVars
  <2>2. \A o \in OrderIds : OrderKept(o) /\ EB!Remaining(order'[o]) <= EB!Remaining(order[o])
    BY <1>2, <2>1 DEF OrderKept, BoundInts
  <2> QED
    BY <1>5, <2>1, <2>2
<1> QED
  BY <1>4, <1>6, <1>7, <1>8, <1>9 DEF EB!EngineStep

\* What is matched of order o by the call that ends becomes the share of the
\* one request that waits for its result.
LEMMA ResultClaimed ==
    ASSUME TradingInv, TradingInv', FillsInv, NEW o \in OrderIds,
           UNCHANGED settled, result' = <<>>,
           \A t \in Tasks :
             LET mine == task[t].stage = "insert" /\ task[t].cur = taker IN
             /\ task'[t].stage = task[t].stage /\ task'[t].cur = task[t].cur
             /\ task'[t].settled = task[t].settled
             /\ task'[t].trades = IF mine THEN result ELSE task[t].trades
    PROVE  Claimed(o)' <= Claimed(o)
<1> DEFINE f == Shares(o)
           g == Shares(o)'
           due == PartOf(result, taker, o)
           mine(t) == task[t].stage = "insert" /\ task[t].cur = taker
<1>1. \A t \in Tasks : f[t] = ShareOf(task[t], o) /\ ShareOf(task[t], o) \in Nat
  BY SharesInt DEF TradingInv
<1>2. \A t \in Tasks : g[t] = ShareOf(task'[t], o)
  BY DEF Shares, ShareOf, DueOf, PartOf, Parts, Part
<1>3. due \in Nat /\ settled[o] \in Nat
  BY ClaimedInt
<1>4. PartOf(result, taker, o)' = 0
  <2>1. PartOf(result, taker, o)' = PartOf(result', taker', o)
    BY DEF PartOf, Parts, Part
  <2> QED
    BY <2>1, PartNone
<1>5. /\ Claimed(o) = settled[o] + SumFunctionOnSet(f, Tasks) + due
      /\ Claimed(o)' = settled[o] + SumFunctionOnSet(g, Tasks) + PartOf(result, taker, o)'
  BY DEF Claimed
<1> HIDE DEF f, g
<1>6. \A t \in Tasks : ~mine(t) => g[t] = f[t]
  <2> SUFFICES ASSUME NEW t \in Tasks, ~mine(t) PROVE g[t] = f[t]
    OBVIOUS
  <2>1. DueOf(task'[t]) = DueOf(task[t])
    BY DEF DueOf
  <2>2. ShareOf(task'[t], o) = ShareOf(task[t], o)
    BY <2>1, SameShare
  <2> QED
    BY <1>1, <1>2, <2>2
<1>7. \A t \in Tasks : mine(t) => g[t] \in Nat /\ g[t] <= f[t] + due
  <2> SUFFICES ASSUME NEW t \in Tasks, mine(t) PROVE g[t] \in Nat /\ g[t] <= f[t] + due
    OBVIOUS
  <2>1. SoundTask(t, task[t])
    BY DEF TradingInv, TasksSound
  <2>2. task[t].settled[o] \in Nat /\ task[t].settled[o] <= ShareOf(task[t], o)
    BY <2>1, ShareNat
  <2>3. DueOf(task'[t]) = result /\ task'[t].cur = taker
    BY DEF DueOf
  <2>4. ShareOf(task'[t], o) = task[t].settled[o] + due
    BY <2>3 DEF ShareOf
  <2> QED
    BY <1>1, <1>2, <1>3, <2>2, <2>4
<1>8. Ints(f, Tasks) /\ Ints(g, Tasks)
  BY <1>1, <1>6, <1>7 DEF Ints
<1>9. SumFunctionOnSet(f, Tasks) \in Int /\ SumFunctionOnSet(g, Tasks) \in Int
  BY <1>8, FiniteSets, SumInt
<1>10. SumFunctionOnSet(g, Tasks) <= SumFunctionOnSet(f, Tasks) + due
  <2>1. ASSUME NEW t \in Tasks, mine(t)
        PROVE  SumFunctionOnSet(g, Tasks) <= SumFunctionOnSet(f, Tasks) + due
    <3>1. \A u \in Tasks \ {t} : ~mine(u)
      BY <2>1 DEF FillsInv, OneInsert
    <3>2. \A u \in Tasks \ {t} : f[u] = g[u]
      BY <1>6, <3>1
    <3>3. SumFunctionOnSet(g, Tasks) = SumFunctionOnSet(f, Tasks) - f[t] + g[t]
      BY <1>8, <3>2, FiniteSets, SumChange
    <3>4. f[t] \in Nat /\ g[t] \in Nat /\ g[t] <= f[t] + due
      BY <1>1, <1>7, <2>1
    <3> HIDE DEF due
    <3> QED
      BY <1>3, <1>9, <3>3, <3>4
  <2>2. CASE \A t \in Tasks : ~mine(t)
    <3>1. SumFunctionOnSet(f, Tasks) = SumFunctionOnSet(g, Tasks)
      BY <1>6, <1>8, <2>2, FiniteSets, SumSame
    <3> QED
      BY <1>3, <1>9, <3>1
  <2> QED
    BY <2>1, <2>2
<1> HIDE DEF due
<1> QED
  BY <1>3, <1>4, <1>5, <1>9, <1>10

LEMMA EngineRunsFills ==
    ASSUME TradingInv, TradingInv', FillsInv, EngineRuns
    PROVE  FillsInv'
<1> DEFINE spent == Total(result, LAMBDA x : x.price * x.quantity)
           mine(t) == task[t].stage = "insert" /\ task[t].cur = taker
           new(t) == [task[t] EXCEPT !.trades = result, !.spent = spent]
<1>1. /\ Engine!EngineStep
      /\ task' = IF pc' = "idle"
                 THEN [t \in Tasks |-> IF mine(t) THEN new(t) ELSE task[t]]
                 ELSE task
      /\ UNCHANGED <<asked, rows, settled>>
  BY DEF EngineRuns, dbVars, tradeVars
<1> HIDE DEF spent
<1>2. ASSUME NEW t \in Tasks
      PROVE  /\ new(t).stage = task[t].stage /\ new(t).cur = task[t].cur
             /\ new(t).draft = task[t].draft /\ new(t).triggered = task[t].triggered
             /\ new(t).settled = task[t].settled /\ new(t).trades = result
  BY TaskFields DEF TradingInv, TaskRecord
<1> HIDE DEF new
<1>3. \A t \in Tasks : task'[t] = IF pc' = "idle" /\ mine(t) THEN new(t) ELSE task[t]
  BY <1>1 DEF TradingInv, TasksSound
<1>4. \A t \in Tasks :
        /\ task'[t].stage = task[t].stage /\ task'[t].cur = task[t].cur
        /\ task'[t].draft = task[t].draft /\ task'[t].triggered = task[t].triggered
        /\ task'[t].settled = task[t].settled
        /\ pc' = "idle" => task'[t].trades = IF mine(t) THEN result ELSE task[t].trades
        /\ task[t].stage # "insert" => task'[t].trades = task[t].trades
  BY <1>2, <1>3
<1>5. EB!EngineStep
  <2>1. Lists' = Lists
    BY <1>4, ListsUnchanged DEF TradingInv
  <2> QED
    BY <1>1, <2>1, SameStep
<1>6. CASE pc' # "idle"
  BY <1>1, <1>5, <1>6, CallFills
<1>7. CASE pc' = "idle"
  <2>1. pc # "idle"
    BY <1>5, StepTrades DEF TradingInv
  <2>2. EB!EndCall
    <3>1. ~(EB!MatchLimit \/ EB!MatchMarket)
      BY <1>7, LoopFills DEF TradingInv
    <3>2. ~(EB!FinishLimit \/ EB!FinishMarket)
      BY <1>7, FinishFills DEF TradingInv
    <3>3. ~\E side \in EB!Sides, sp \in Prices : EB!FireStops(side, sp)
      BY <1>7, <2>1 DEF EB!FireStops, EB!callVars
    <3>4. ~EB!DropMaker
      BY <1>7, <2>1 DEF EB!DropMaker, EB!callVars
    <3> QED
      BY <1>5, <3>1, <3>2, <3>3, <3>4 DEF EB!EngineStep
  <2>3. result' = <<>> /\ UNCHANGED order
    BY <2>2 DEF EB!EndCall
  <2>4. ASSUME NEW o \in OrderIds PROVE Bounded(o)'
    <3>1. \A t \in Tasks :
            LET here == task[t].stage = "insert" /\ task[t].cur = taker IN
            /\ task'[t].stage = task[t].stage /\ task'[t].cur = task[t].cur
            /\ task'[t].settled = task[t].settled
            /\ task'[t].trades = IF here THEN result ELSE task[t].trades
      BY <1>4, <1>7
    <3>2. Claimed(o)' <= Claimed(o)
      BY <1>1, <2>3, <3>1, ResultClaimed
    <3>3. Unsubmitted(o)' => Unsubmitted(o)
      BY <1>4 DEF Unsubmitted, Tasks
    <3>4. NoMoreLeft(o)
      <4>1. asked[o].ord.quantity \in Nat /\ EB!Remaining(order[o]) \in Nat
        BY BoundNat DEF BoundInts
      <4>2. Unsubmitted(o) => EB!Remaining(order[o]) = 0
        BY UnsubmittedBlank
      <4> QED
        BY <2>3, <4>1, <4>2 DEF NoMoreLeft
    <3> QED
      BY <1>1, <3>2, <3>3, <3>4, BoundStep DEF FillsInv
  <2>5. FillBound'
    BY <2>4 DEF FillBound
  <2>6. \A o \in OrderIds : OrderKept(o)
    BY <2>3 DEF OrderKept
  <2> QED
    BY <1>1, <1>4, <2>5, <2>6, RestKept
<1> QED
  BY <1>6, <1>7

-----------------------------------------------------------------------------
(* The bound: a start, a restart, and every step.                          *)

\* No order has settled, and no request has a share, more than is matched.
LEMMA IdleShares ==
    ASSUME TradingInv, \A t \in Tasks : task[t] = Ended(task[t].stage) /\ task[t].stage \in Clean,
           result = <<>>, NEW o \in OrderIds
    PROVE  Claimed(o) = settled[o]
<1> DEFINE f == Shares(o)
<1>1. \A t \in Tasks : f[t] = ShareOf(task[t], o)
  BY SharesInt DEF TradingInv
<1>2. \A t \in Tasks : ShareOf(task[t], o) = 0
  <2> SUFFICES ASSUME NEW t \in Tasks PROVE ShareOf(task[t], o) = 0
    OBVIOUS
  <2>1. ShareOf(Ended(task[t].stage), o) = 0
    BY EndedShare
  <2> QED
    BY <2>1
<1>3. Claimed(o) = settled[o] + SumFunctionOnSet(f, Tasks) + 0
  BY PartNone DEF Claimed
<1> HIDE DEF f
<1>4. SumFunctionOnSet(f, Tasks) = 0
  BY <1>1, <1>2, FiniteSets, SumZero
<1> QED
  BY <1>3, <1>4, ClaimedInt

LEMMA FillsInit == Init => FillsInv
<1> SUFFICES ASSUME Init PROVE FillsInv
  OBVIOUS
<1>1. TradingInv
  BY TradingInit
<1>2. /\ task = [t \in Tasks |-> Fresh] /\ rows = [o \in OrderIds |-> NoRow]
      /\ settled = [o \in OrderIds |-> 0] /\ order = [o \in OrderIds |-> EB!Blank]
      /\ result = <<>>
  BY SameHelpers DEF Init, Engine!Init
<1>3. \A t \in Tasks : /\ task[t] = Ended("ready") /\ task[t].stage = "ready"
                       /\ \A o \in OrderIds : task[t].draft[o] = NoRow
  BY <1>2 DEF Ended, Fresh
<1>4. \A t \in Tasks : task[t] = Ended(task[t].stage) /\ task[t].stage \in Clean
  BY <1>3 DEF Clean
<1>5. ASSUME NEW o \in OrderIds PROVE Bounded(o)
  <2>1. Claimed(o) = 0
    BY <1>1, <1>2, <1>4, IdleShares
  <2>2. Unsubmitted(o)
    BY <1>3 DEF Unsubmitted, Tasks
  <2> QED
    BY <2>1, <2>2 DEF Bounded, Room
<1>6. FillBound
  BY <1>5 DEF FillBound
<1>7. QuoteFree
  BY <1>2 DEF QuoteFree, EB!Blank
<1>8. RowsWritten /\ OneInsert
  BY <1>2, <1>3 DEF RowsWritten, OneInsert
<1>9. WritesSound
  BY <1>3 DEF WritesSound, WriteFacts
<1> QED
  BY <1>6, <1>7, <1>8, <1>9 DEF FillsInv

LEMMA RestartFills ==
    ASSUME TradingInv, TradingInv', FillsInv, Restart
    PROVE  FillsInv'
<1>1. /\ task' = [t \in Tasks |-> IF Running(t) THEN Ended("failed") ELSE task[t]]
      /\ order' = [o \in OrderIds |-> EB!Blank] /\ result' = <<>>
      /\ UNCHANGED <<asked, rows, settled>>
  BY SameHelpers DEF Restart, dbVars, tradeVars
<1>2. Ended("failed").stage = "failed"
  BY EndedRecord DEF Stages
<1>3. ASSUME NEW t \in Tasks
      PROVE  /\ task'[t] = Ended(task'[t].stage) /\ task'[t].stage \in {"ready", "done", "failed"}
             /\ task'[t].stage = "ready" => task[t].stage = "ready"
  <2>1. CASE Running(t)
    BY <1>1, <1>2, <2>1
  <2>2. CASE ~Running(t)
    <3>1. task'[t] = task[t] /\ task[t].stage \in {"ready", "done", "failed"}
      BY <1>1, <2>2 DEF Running
    <3> QED
      BY <3>1 DEF TradingInv, TasksSound, SoundTask, StageFacts, Clean
  <2> QED
    BY <2>1, <2>2
<1>4. ASSUME NEW t \in Tasks, NEW o \in OrderIds PROVE task'[t].draft[o] = NoRow
  <2>1. task'[t] = Ended(task'[t].stage) /\ task'[t].stage \in Clean
    BY <1>3 DEF Clean
  <2> QED
    BY <2>1, EndedShare
<1>5. FillBound /\ RowsWritten
  BY DEF FillsInv
<1>6. ASSUME NEW o \in OrderIds PROVE Bounded(o)'
  <2>1. Claimed(o)' = settled'[o]
    <3>1. (/\ TradingInv /\ result = <<>> /\ o \in OrderIds
           /\ \A t \in Tasks : task[t] = Ended(task[t].stage) /\ task[t].stage \in Clean
           => Claimed(o) = settled[o])'
      BY IdleShares, PTL
    <3>2. \A t \in Tasks : task'[t] = Ended(task'[t].stage) /\ task'[t].stage \in Clean
      BY <1>3 DEF Clean
    <3> QED
      BY <1>1, <3>1, <3>2
  <2>2. Claimed(o)' <= Claimed(o)
    BY <1>1, <2>1, ClaimedInt DEF Claimed
  <2>3. Unsubmitted(o)' => Unsubmitted(o)
    BY <1>3 DEF Unsubmitted, Tasks
  <2>4. NoMoreLeft(o)
    <3>1. EB!Remaining(order'[o]) = 0
      BY <1>1 DEF EB!Blank, EB!Remaining
    <3> QED
      BY <3>1, BoundNat DEF NoMoreLeft, BoundInts
  <2> QED
    BY <1>1, <1>5, <2>2, <2>3, <2>4, BoundStep
<1>7. FillBound'
  BY <1>6 DEF FillBound
<1>8. QuoteFree'
  BY <1>1 DEF QuoteFree, EB!Blank
<1>9. RowsWritten'
  <2>1. ASSUME NEW o \in OrderIds, Unwritten(o)' PROVE rows'[o] = NoRow
    <3>1. o \in Tasks /\ task'[o].stage = "ready"
      BY <1>3, <2>1 DEF Tasks, Unwritten, Unsubmitted
    <3>2. Unwritten(o)
      BY <1>3, <3>1 DEF Unwritten, Unsubmitted
    <3> QED
      BY <1>1, <1>5, <3>2 DEF RowsWritten
  <2> QED
    BY <1>4, <2>1 DEF RowsWritten
<1>10. WritesSound' /\ OneInsert'
  BY <1>3 DEF WritesSound, WriteFacts, OneInsert
<1> QED
  BY <1>7, <1>8, <1>9, <1>10 DEF FillsInv

LEMMA TaskStepFills ==
    ASSUME TradingInv, FillsInv, NEW t \in Tasks, TaskStep(t)
    PROVE  FillsInv'
<1>1. TradingInv'
  BY TaskStepKeeps
<1>2. CASE Short(t) \/ NoMaker(t) \/ EmptyTrade(t) \/ EmptyRelease(t)
  BY <1>1, <1>2, AbortFills DEF Short, NoMaker, EmptyTrade, EmptyRelease
<1>3. CASE LockWallet(t)
  <2>1. UNCHANGED <<asked, rows, settled, task, order, taker, result>>
    BY <1>3 DEF LockWallet, engineVars, dbVars, tradeVars
  <2> QED
    BY <1>1, <2>1, StillFills
<1>4. CASE Reserve(t) \/ Fire(t) \/ Insert(t)
  BY <1>1, <1>4, ReserveFills, FireFills, InsertFills
<1>5. CASE Transfer(t) \/ FlushTrade(t) \/ WriteMaker(t)
  BY <1>1, <1>5, TransferFills, FlushTradeFills, WriteMakerFills
<1>6. CASE Release(t) \/ NoRelease(t) \/ TakeStops(t) \/ SkipStop(t) \/ Trigger(t)
  BY <1>1, <1>6, ReleaseFills, StopsFills, TriggerFills
<1>7. CASE Refuse(t) \/ CancelOrder(t) \/ Commit(t)
  BY <1>1, <1>7, AbortFills, CancelOrderFills, CommitFills
<1> QED
  BY <1>2, <1>3, <1>4, <1>5, <1>6, <1>7 DEF TaskStep

LEMMA FillsNext == TradingInv /\ FillsInv /\ [Next]_vars => FillsInv'
<1> SUFFICES ASSUME TradingInv, FillsInv, [Next]_vars PROVE FillsInv'
  OBVIOUS
<1>1. TradingInv'
  BY TradingNext
<1>2. CASE EngineRuns
  BY <1>1, <1>2, EngineRunsFills
<1>3. CASE \E t \in OrderIds : \E req \in RequestsOf[t] : Begin(t, req)
  BY <1>1, <1>3, BeginFills
<1>4. CASE \E t \in CancelIds, o \in OrderIds : CancelSelect(t, o)
  BY <1>1, <1>4, CancelSelectFills
<1>5. CASE \E t \in Tasks : TaskStep(t) \/ Fail(t)
  BY <1>1, <1>5, TaskStepFills, AbortFills DEF Fail
<1>6. CASE Restart
  BY <1>1, <1>6, RestartFills
<1>7. CASE UNCHANGED vars
  <2>1. UNCHANGED <<asked, rows, settled, task, order, taker, result>>
    BY <1>7 DEF vars, engineVars, dbVars, tradeVars
  <2> QED
    BY <1>1, <2>1, StillFills
<1> QED
  BY <1>2, <1>3, <1>4, <1>5, <1>6, <1>7 DEF Next

\* What is matched of an order, whether settled, in the work of a request or in
\* the engine's call, is at most what its client asked for less what the engine
\* has left to match; so no interleaving, trigger or failure settles a fill twice.
THEOREM FillsBounded == Spec => []FillsInv
<1>1. Init => FillsInv
  BY FillsInit
<1>2. TradingInv /\ FillsInv /\ [Next]_vars => FillsInv'
  BY FillsNext
<1> QED
  BY <1>1, <1>2, TradingCorrect, PTL DEF Spec

\* No more of an order is settled than its client asked for, however its fills
\* are spread over requests, triggered stops and failures (persist_result).
THEOREM SettledWithinQuantity == Spec => []NeverOversettled
BY TradingCorrect, FillsBounded, FillsMean, PTL
=============================================================================
