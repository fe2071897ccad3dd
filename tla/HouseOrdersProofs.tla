-------------------------- MODULE HouseOrdersProofs --------------------------
(***************************************************************************)
(* Theorems about HouseOrders for every set of clients, orders, follow     *)
(* requests and ladder levels, checked by TLAPS.                           *)
(***************************************************************************)
EXTENDS HouseOrders, SumTheorems, SequenceTheorems, TLAPS

-----------------------------------------------------------------------------
(* The inductive invariant.                                                *)

TradeType == [maker : Quotes, quantity : Nat \ {0}]
RowType   == [status : Open \cup {"NONE", "FILLED", "CANCELLED"}, filled : Nat, settled : Nat,
              paid : Nat]
Ledger    == [available : Int, locked : Int]
TaskType  ==
    [stage  : {"ready", "topup", "look", "place", "reserve", "insert", "settle", "copy",
               "done", "failed"},
     cur    : Orders \cup {None},
     trades : Seq(TradeType),
     todo   : SUBSET (Levels \cup Relations),
     seen   : {None, "low", "absent"},
     draft  : [Orders -> RowType]]

TypeInv ==
    /\ book \in [buy : Seq(Clients), sell : Seq(Quotes)]
    /\ left \in [Orders -> Nat] /\ fill \in [Clients -> Nat]
    /\ rows \in [Orders -> RowType]
    /\ wallet \in [Holders -> Ledger] /\ committed \in [Holders -> Ledger]
    /\ opened \in BOOLEAN
    /\ holder \in [Holders -> Tasks \cup {None}]
    /\ task \in [Tasks -> TaskType]
    /\ used \subseteq Quotes
    /\ relation \in [Relations -> {"none", "active", "inactive"}]
    /\ asking \in [Relations -> {"idle", "adds", "revives", "done"}]

\* A side holds each of its orders that have something left, once.
Once(side, S) ==
    side \in Seq(S) /\ \A i, j \in 1 .. Len(side) : side[i] = side[j] => i = j

On(side) == {side[i] : i \in 1 .. Len(side)}

BookInv ==
    /\ Once(book.buy, Clients) /\ On(book.buy) = {o \in Clients : left[o] > 0}
    /\ Once(book.sell, Quotes) /\ On(book.sell) = {q \in Quotes : left[q] > 0}

\* The orders of a placement's transaction.
CopiedTo(p) == {r \in Relations : Leader[r] = Owner[p] /\ relation[r] # "none"}
Own(p) == {p} \cup {<<p, r>> : r \in CopiedTo(p)}

\* Every order that placement p could ever make, and those it may still make.
All(p) == {p} \cup {<<p, r>> : r \in Relations}
ToMake(p) ==
    IF task[p].stage \in {"done", "failed"} THEN {}
    ELSE IF task[p].stage = "ready" THEN All(p)
    ELSE (IF task[p].stage = "reserve" THEN {task[p].cur} ELSE {})
         \cup (IF task[p].cur = p /\ task[p].stage # "copy" THEN All(p) \ {p}
               ELSE {<<p, r>> : r \in task[p].todo})

Idle(t) ==
    /\ task[t].cur = None /\ task[t].trades = <<>> /\ task[t].todo = {}
    /\ \A o \in Orders : task[t].draft[o] = NoRow

DeskShape(d) ==
    /\ task[d].stage \in {"ready", "topup", "look", "place", "done", "failed"}
    /\ task[d].trades = <<>> /\ task[d].todo \subseteq Levels
    /\ \A o \in Clients : task[d].draft[o] = NoRow

PlacementShape(p) ==
    /\ task[p].stage \in {"ready", "reserve", "insert", "settle", "copy", "done", "failed"}
    /\ Running(p) => task[p].cur \in Own(p)
    /\ task[p].todo \subseteq CopiedTo(p) /\ \A r \in task[p].todo : task[p].cur # <<p, r>>
    /\ \A o \in Clients : task[p].draft[o] # NoRow => o \in Own(p)
    /\ task[p].stage \in {"reserve", "copy"} => task[p].trades = <<>>
    /\ task[p].stage \in {"reserve", "insert"} => task[p].draft[task[p].cur] = NoRow
    /\ task[p].stage = "settle" => task[p].trades # <<>> /\ task[p].draft[task[p].cur] # NoRow
    /\ \A i, j \in DOMAIN task[p].trades :
         task[p].trades[i].maker = task[p].trades[j].maker => i = j
    /\ task[p].stage # "done" => \A o \in All(p) : rows[o] = NoRow
    /\ \A o \in ToMake(p) :
         left[o] = 0 /\ fill[o] = 0 /\ task[p].draft[o] = NoRow

\* What a task has written or is writing of a user's orders it has written
\* under the lock of his wallet.
Written(t) ==
    {o \in Orders : task[t].draft[o] # NoRow}
    \cup (IF task[t].stage = "insert" THEN {task[t].cur} ELSE {})

TaskInv ==
    /\ \A t \in Tasks : ~Running(t) => Idle(t)
    /\ \A t \in DeskTasks : DeskShape(t)
    /\ \A p \in Placements : PlacementShape(p)
    /\ \A t \in Tasks : \A o \in Written(t) : holder[UserOf(o)] = t
    /\ \A p \in Placements, r \in Relations : rows[<<p, r>>] # NoRow => <<p, r>> \in Own(p)

\* Two rows of a pair, or a row and a request that is to add one, or two such
\* requests, are of requests that overlapped.
FollowInv ==
    \A r \in Relations : \A s \in SamePair(r) \ {r} :
      (relation[r] # "none" \/ asking[r] = "adds")
        /\ (relation[s] # "none" \/ asking[s] = "adds") => {r, s} \subseteq raced

\* The open orders of u, as any transaction sees them, and those being made,
\* that were checked alone.
Coming(t) == IF task[t].stage \in {"reserve", "insert"} THEN {task[t].cur} ELSE {}
Promised(u) ==
    {o \in Clients \ crowded :
       /\ UserOf(o) = u
       /\ \/ rows[o].status \in Open
          \/ \E t \in Placements : o \in Coming(t) \/ task[t].draft[o].status \in Open}

LimitInv == \A u \in Users : Cardinality(Promised(u)) <= MaxOpen

\* A row as the transaction sees it that has locked the wallet.
View(o) ==
    IF holder[UserOf(o)] = None THEN rows[o] ELSE Visible(holder[UserOf(o)], o)

ClientRow(row, o) ==
    /\ row.status = "NONE" => row = NoRow
    /\ row.status = "FILLED" => row.filled = SizeOf(o)
    /\ row.settled <= row.filled /\ row.filled <= SizeOf(o)
    /\ row.paid <= ReserveOf(o, row.settled)

ToSettle(t, o) == IF task[t].cur = o THEN Traded(task[t].trades) ELSE 0

FillInv ==
    /\ \A o \in Clients :
         /\ left[o] + fill[o] <= SizeOf(o)
         /\ ClientRow(rows[o], o)
         /\ o \notin lost => rows[o].filled = rows[o].settled
    /\ \A t \in Placements :
         /\ task[t].stage = "insert" =>
              /\ Traded(task[t].trades) <= fill[task[t].cur]
              /\ task[t].cur \notin lost => Traded(task[t].trades) = fill[task[t].cur]
         /\ \A o \in Clients : task[t].draft[o] # NoRow =>
              /\ ClientRow(task[t].draft[o], o)
              /\ task[t].draft[o].settled + ToSettle(t, o) <= task[t].draft[o].filled
              /\ o \notin lost =>
                   task[t].draft[o].settled + ToSettle(t, o) = task[t].draft[o].filled

\* Trades of a desk order that no transaction has settled yet.
Pending(q) == SumFunction([t \in Tasks |-> TakenFrom(task[t].trades, q)])

QuoteRow(row) ==
    /\ row.status = StatusOf(row.filled, LevelSize)
    /\ row.filled = row.settled /\ row.filled <= LevelSize

Unused(q) ==
    /\ rows[q] = NoRow /\ left[q] = 0
    /\ \A t \in Tasks : task[t].draft[q] = NoRow /\ q \notin Makers(task[t].trades)

UsedInv == \A q \in Quotes \ used : Unused(q)

QuoteInv ==
    \A q \in Quotes :
      /\ rows[q] # NoRow /\ q \notin lost => QuoteRow(rows[q])
      /\ q \in used \ lost =>
           /\ QuoteRow(View(q))
           /\ left[q] + Pending(q) + View(q).filled = LevelSize

\* What is reserved for a row's open rest, what its trades have taken of the
\* reserve for its fills, and what is still locked for it.
OpenPart(row, o) == IF row.status \in Open THEN ReserveOf(o, SizeOf(o) - row.filled) ELSE 0
Took(row, o)     == IF o \in Quotes THEN row.settled ELSE row.paid
Needed(row, o)   == OpenPart(row, o) + (ReserveOf(o, row.filled) - Took(row, o))

\* What is locked for order o, by the committed rows and in place.
RowNeed(o)  == Needed(rows[o], o)
ViewNeed(o) == IF \E t \in Placements : task[t].stage = "insert" /\ task[t].cur = o
               THEN ReserveOf(o, SizeOf(o)) ELSE Needed(View(o), o)

ClientReserve ==
    \A u \in Users :
      /\ committed[u].locked =
           SumFunction([o \in Orders |-> IF UserOf(o) = u THEN RowNeed(o) ELSE 0])
      /\ wallet[u].locked =
           SumFunction([o \in Orders |-> IF UserOf(o) = u THEN ViewNeed(o) ELSE 0])

DeskReserve ==
    lost \cap Quotes = {} =>
      /\ committed[Desk].locked =
           SumFunction([o \in Orders |-> IF UserOf(o) = Desk THEN OpenPart(rows[o], o) ELSE 0])
      /\ wallet[Desk].locked =
           SumFunction([o \in Orders |-> IF UserOf(o) = Desk THEN OpenPart(View(o), o) ELSE 0])

WalletInv ==
    /\ \A u \in Holders : holder[u] = None => wallet[u] = committed[u]
    /\ \A u \in Holders : wallet[u].available >= 0 /\ committed[u].available >= 0
    /\ wallet[Desk].available <= DeskTarget /\ committed[Desk].available <= DeskTarget
    /\ wallet[Desk].locked >= 0 /\ committed[Desk].locked >= 0

HouseInv ==
    /\ TypeInv /\ BookInv /\ TaskInv /\ UsedInv /\ FollowInv /\ LimitInv
    /\ FillInv /\ QuoteInv /\ ClientReserve /\ DeskReserve /\ WalletInv

-----------------------------------------------------------------------------
(* Names.                                                                  *)

LEMMA OrderKinds ==
    /\ \A p \in Placements : p \in Clients /\ p \notin Copies /\ UserOf(p) = Owner[p]
                             /\ SizeOf(p) = Size[p]
    /\ \A p \in Placements, r \in Relations :
         /\ <<p, r>> \in Copies /\ <<p, r>> \notin Placements
         /\ UserOf(<<p, r>>) = Follower[r] /\ SizeOf(<<p, r>>) = CopySize(p)
    /\ \A o \in Clients : o \in Orders /\ o \notin Quotes /\ UserOf(o) \in Users
    /\ \A q \in Quotes : q \in Orders /\ q \notin Clients /\ UserOf(q) = Desk /\ SizeOf(q) = LevelSize
<1>1. \A p \in Placements : p \in Clients /\ p \notin Copies
  BY NameAssumption DEF Clients
<1>2. \A p \in Placements, r \in Relations : <<p, r>> \in Copies
  BY DEF Copies
<1>3. \A o \in Copies : o \in Clients /\ o \notin Placements /\ o[2] \in Relations
  BY NameAssumption DEF Clients, Copies
<1>4. \A q \in Quotes : q \in Orders /\ q \notin Clients
  BY NameAssumption DEF Clients, Orders
<1>5. \A p \in Placements : UserOf(p) = Owner[p] /\ SizeOf(p) = Size[p] /\ UserOf(p) \in Users
  BY ClientAssumption DEF UserOf, SizeOf
<1>6. \A o \in Copies : UserOf(o) = Follower[o[2]] /\ SizeOf(o) = CopySize(o[1])
                        /\ UserOf(o) \in Users
  BY <1>3, FollowAssumption DEF UserOf, SizeOf
<1>7. \A q \in Quotes : UserOf(q) = Desk /\ SizeOf(q) = LevelSize
  BY <1>4 DEF UserOf, SizeOf, Clients
<1>8. \A o \in Clients : o \in Orders /\ o \notin Quotes /\ UserOf(o) \in Users
  BY <1>4, <1>5, <1>6 DEF Clients, Orders
<1>9. \A p \in Placements, r \in Relations :
        <<p, r>> \notin Placements /\ UserOf(<<p, r>>) = Follower[r]
        /\ SizeOf(<<p, r>>) = CopySize(p)
  BY <1>2, <1>3, <1>6
<1> QED
  BY <1>1, <1>2, <1>4, <1>5, <1>7, <1>8, <1>9

LEMMA Finite ==
    IsFiniteSet(Quotes) /\ IsFiniteSet(Clients) /\ IsFiniteSet(Orders) /\ IsFiniteSet(Tasks)
<1>1. IsFiniteSet(Copies)
  BY ClientAssumption, FollowAssumption, FS_Product DEF Copies
<1>2. IsFiniteSet(1 .. DeskOrders)
  BY DeskAssumption, FS_Interval
<1>3. IsFiniteSet(Quotes)
  BY <1>2, DeskAssumption, FS_Product DEF Quotes
<1>4. IsFiniteSet(Clients)
  BY <1>1, ClientAssumption, FS_Union DEF Clients
<1>5. IsFiniteSet(Orders)
  BY <1>3, <1>4, FS_Union DEF Orders
<1>6. IsFiniteSet({Tick, Boot})
  <2>1. IsFiniteSet({Tick}) /\ {Tick, Boot} = {Tick} \cup {Boot}
    BY FS_Singleton
  <2> QED
    BY <2>1, FS_AddElement
<1> QED
  BY <1>3, <1>4, <1>5, <1>6, ClientAssumption, FS_Union DEF Tasks

LEMMA CopySizeNat == \A p \in Placements : CopySize(p) \in Nat
<1> SUFFICES ASSUME NEW p \in Placements PROVE CopySize(p) \in Nat
  OBVIOUS
<1>1. (Size[p] * Allocation) \in Nat
  BY ClientAssumption, FollowAssumption
<1>2. ((Size[p] * Allocation) \div 100) \in Nat
  BY <1>1
<1> QED
  BY <1>2, FollowAssumption DEF CopySize

LEMMA SizeNat == \A o \in Orders : SizeOf(o) \in Nat
<1>1. \A o \in Copies : SizeOf(o) \in Nat
  BY CopySizeNat, OrderKinds DEF Copies
<1> QED
  BY <1>1, OrderKinds, ClientAssumption, DeskAssumption DEF Orders, Clients

\* What is reserved is proportional to the quantity.
LEMMA ReserveFacts ==
    /\ \A o : ReserveOf(o, 0) = 0
    /\ \A o, n : n \in Int => ReserveOf(o, n) \in Int
    /\ \A o, n : n \in Nat => ReserveOf(o, n) \in Nat
    /\ \A o, m, n : m \in Int /\ n \in Int =>
         /\ ReserveOf(o, m - n) = ReserveOf(o, m) - ReserveOf(o, n)
         /\ ReserveOf(o, m + n) = ReserveOf(o, m) + ReserveOf(o, n)
    /\ \A q \in Quotes : \A n : ReserveOf(q, n) = n
    /\ \A o \in Clients : \A n : ReserveOf(o, n) = BidCost * n
<1>1. BidCost \in Nat
  BY PriceAssumption
<1>2. \A n \in Int : BidCost * n \in Int
  BY <1>1
<1>3. \A n \in Nat : BidCost * n \in Nat
  BY <1>1
<1>4. BidCost * 0 = 0
  BY <1>1
<1>5. \A m, n \in Int : /\ BidCost * (m - n) = BidCost * m - BidCost * n
                        /\ BidCost * (m + n) = BidCost * m + BidCost * n
  BY <1>1
<1>6. \A o \in Clients : o \notin Quotes
  BY OrderKinds
<1> QED
  BY <1>2, <1>3, <1>4, <1>5, <1>6 DEF ReserveOf

\* No trade costs the buyer more than he reserved for it.
LEMMA CostBound ==
    ASSUME NEW x \in TradeType, NEW o \in Clients
    PROVE  CostOf(x) \in Nat /\ CostOf(x) <= ReserveOf(o, x.quantity)
<1>1. x.quantity \in Nat /\ AskCost[x.maker[1]] \in Nat /\ AskCost[x.maker[1]] <= BidCost
      /\ BidCost \in Nat
  BY PriceAssumption DEF TradeType, Quotes
<1>2. ReserveOf(o, x.quantity) = BidCost * x.quantity
  BY ReserveFacts
<1>3. \A q, a, b \in Nat : a <= b => q * a \in Nat /\ q * a <= b * q
  <2> SUFFICES ASSUME NEW q \in Nat, NEW a \in Nat, NEW b \in Nat, a <= b
               PROVE  q * a \in Nat /\ q * a <= b * q
    OBVIOUS
  <2>1. b - a \in Nat
    OBVIOUS
  <2>2. q * (b - a) \in Nat /\ q * a \in Nat /\ b * q \in Nat
    BY <2>1
  <2>3. q * (b - a) = b * q - q * a
    OBVIOUS
  <2> QED
    BY <2>2, <2>3
<1> QED
  BY <1>1, <1>2, <1>3 DEF CostOf

\* A row of which a trade of quantity n was settled, at a cost of c to its owner.
Bought(row, n, c) == [row EXCEPT !.settled = row.settled + n, !.paid = row.paid + c]

LEMMA BoughtFields ==
    ASSUME NEW row \in RowType, NEW n \in Nat, NEW c \in Nat
    PROVE  /\ Bought(row, n, c) \in RowType
           /\ Bought(row, n, c).status = row.status /\ Bought(row, n, c).filled = row.filled
           /\ Bought(row, n, c).settled = row.settled + n
           /\ Bought(row, n, c).paid = row.paid + c
<1>1. row.settled + n \in Nat /\ row.paid + c \in Nat
  BY DEF RowType
<1> QED
  BY <1>1 DEF Bought, RowType

LEMMA SettledFields ==
    ASSUME NEW row \in RowType, NEW n \in Nat, NEW s \in Nat
    PROVE  /\ SettledRow(row, n, s) \in RowType
           /\ SettledRow(row, n, s).status = StatusOf(row.filled + n, s)
           /\ SettledRow(row, n, s).filled = row.filled + n
           /\ SettledRow(row, n, s).settled = row.settled + n
<1>1. row.filled + n \in Nat /\ row.settled + n \in Nat
  BY DEF RowType
<1>2. StatusOf(row.filled + n, s) \in Open \cup {"FILLED"}
  BY DEF StatusOf, Open
<1> QED
  BY <1>1, <1>2 DEF SettledRow, RowType

\* Each order of a client is of one placement's transaction.
LEMMA AllApart ==
    ASSUME NEW p \in Placements, NEW t \in Placements, t # p
    PROVE  All(p) \cap All(t) = {}
<1>1. \A r, s \in Relations : <<p, r>> # <<t, s>> /\ <<p, r>> # t /\ p # <<t, s>>
  BY OrderKinds
<1> QED
  BY <1>1 DEF All

LEMMA AllClients == \A p \in Placements : Own(p) \subseteq All(p) /\ All(p) \subseteq Clients
BY OrderKinds DEF All, Own, CopiedTo, Clients

LEMMA EveryClient == \A o \in Clients : \E p \in Placements : o \in All(p)
BY DEF All, Clients, Copies

-----------------------------------------------------------------------------
(* What the engine does.                                                   *)

\* A side of the book that holds orders of S, with something left of each.
Side(side, S) ==
    /\ Once(side, S) /\ S \subseteq Orders /\ left \in [Orders -> Nat]
    /\ \A i \in 1 .. Len(side) : left[side[i]] > 0

Offers(side) == [i \in DOMAIN side |-> left[side[i]]]

LEMMA OffersNat ==
    ASSUME NEW S, NEW side, Side(side, S)
    PROVE  /\ Len(side) \in Nat /\ DOMAIN side = 1 .. Len(side)
           /\ \A i \in 1 .. Len(side) :
                side[i] \in S /\ Offers(side)[i] = left[side[i]] /\ Offers(side)[i] \in Nat \ {0}
<1>1. Len(side) \in Nat /\ DOMAIN side = 1 .. Len(side)
  BY LenProperties DEF Side, Once
<1>2. \A i \in 1 .. Len(side) : side[i] \in S
  BY ElementOfSeq DEF Side, Once
<1>3. \A i \in 1 .. Len(side) : left[side[i]] \in Nat \ {0}
  BY <1>2 DEF Side
<1> QED
  BY <1>1, <1>2, <1>3 DEF Offers

LEMMA DepthSteps ==
    ASSUME NEW S, NEW side, Side(side, S)
    PROVE  /\ Depth(side, 0) = 0
           /\ \A n \in 0 .. Len(side) : Depth(side, n) \in Nat
           /\ \A n \in 1 .. Len(side) : Depth(side, n) = Depth(side, n - 1) + left[side[n]]
<1> DEFINE f == Offers(side)
<1>1. /\ Len(side) \in Nat
      /\ \A i \in 1 .. Len(side) : f[i] = left[side[i]] /\ f[i] \in Nat \ {0}
  BY OffersNat
<1>2. \A n : Depth(side, n) = SumFunctionOnSet(f, 1 .. n)
  BY DEF Depth, Offers
<1> HIDE DEF f
<1>3. Depth(side, 0) = 0
  <2>1. 1 .. 0 = {}
    OBVIOUS
  <2> QED
    BY <1>2, <2>1, SumEmpty
<1>4. ASSUME NEW n \in 0 .. Len(side) PROVE Depth(side, n) \in Nat
  <2>1. \A i \in 1 .. n : f[i] \in Nat
    BY <1>1
  <2>0. IsFiniteSet(1 .. n)
    BY FS_Interval
  <2>2. SumFunctionOnSet(f, 1 .. n) \in Nat
    BY <2>0, <2>1, SumNat
  <2> QED
    BY <1>2, <2>2
<1>5. ASSUME NEW n \in 1 .. Len(side) PROVE Depth(side, n) = Depth(side, n - 1) + left[side[n]]
  <2>1. n \in Nat \ {0} /\ Ints(f, 1 .. n) /\ f[n] = left[side[n]]
    BY <1>1 DEF Ints
  <2>2. SumFunctionOnSet(f, 1 .. n) = SumFunctionOnSet(f, 1 .. n - 1) + f[n]
    BY <2>1, SumLast
  <2> QED
    BY <1>2, <2>1, <2>2
<1> QED
  BY <1>3, <1>4, <1>5

LEMMA DepthGrows ==
    ASSUME NEW S, NEW side, Side(side, S), NEW n \in 0 .. Len(side)
    PROVE  \A m \in 0 .. n : Depth(side, m) <= Depth(side, n)
<1> DEFINE G == {d \in Nat : d <= n => Depth(side, n - d) <= Depth(side, n)}
<1>1. /\ Len(side) \in Nat
      /\ \A k \in 0 .. Len(side) : Depth(side, k) \in Nat
      /\ \A k \in 1 .. Len(side) : Depth(side, k) = Depth(side, k - 1) + left[side[k]]
                                   /\ left[side[k]] \in Nat
  <2>1. Len(side) \in Nat /\ \A k \in 1 .. Len(side) : left[side[k]] \in Nat
    BY OffersNat
  <2> QED
    BY <2>1, DepthSteps
<1>2. 0 \in G
  BY <1>1
<1>3. ASSUME NEW d \in G PROVE d + 1 \in G
  <2> SUFFICES ASSUME d + 1 <= n PROVE Depth(side, n - (d + 1)) <= Depth(side, n)
    OBVIOUS
  <2>1. n - d \in 1 .. Len(side) /\ n - (d + 1) \in 0 .. Len(side) /\ (n - d) - 1 = n - (d + 1)
    BY <1>1
  <2>2. Depth(side, n - d) <= Depth(side, n)
    BY <1>3
  <2>3. Depth(side, n - d) = Depth(side, n - (d + 1)) + left[side[n - d]]
    BY <1>1, <2>1
  <2> HIDE DEF G
  <2> QED
    BY <1>1, <2>1, <2>2, <2>3
<1>4. G = Nat
  <2>1. G \in SUBSET Nat
    OBVIOUS
  <2> HIDE DEF G
  <2> QED
    BY <1>2, <1>3, <2>1, NatClosed
<1> SUFFICES ASSUME NEW m \in 0 .. n PROVE Depth(side, m) <= Depth(side, n)
  OBVIOUS
<1>5. n - m \in Nat /\ n - m <= n /\ n - (n - m) = m
  BY <1>1
<1>6. n - m \in G
  BY <1>4, <1>5
<1> QED
  BY <1>5, <1>6

\* All but the last of the orders that are met are taken whole.
LEMMA TradeQuantities ==
    ASSUME NEW S, NEW side, Side(side, S), NEW q \in Nat, NEW n, Meets(side, q, n)
    PROVE  LET trades == TradesOf(side, q, n) IN
           /\ n \in Nat /\ n <= Len(side) /\ Len(trades) = n /\ DOMAIN trades = 1 .. n
           /\ trades \in Seq([maker : S, quantity : Nat \ {0}])
           /\ \A i \in 1 .. n :
                /\ trades[i].maker = side[i] /\ trades[i].quantity \in Nat \ {0}
                /\ trades[i].quantity <= left[side[i]]
                /\ i < n => trades[i].quantity = left[side[i]]
           /\ n > 0 => /\ trades[n].quantity = Least(left[side[n]], q - Depth(side, n - 1))
                       /\ Depth(side, n - 1) < q
<1> DEFINE trades == TradesOf(side, q, n)
           T == [maker : S, quantity : Nat \ {0}]
<1>1. /\ Len(side) \in Nat
      /\ \A i \in 1 .. Len(side) : side[i] \in S /\ left[side[i]] \in Nat \ {0}
  BY OffersNat
<1>2. n \in 0 .. Len(side) /\ (n > 0 => Depth(side, n - 1) < q)
  BY DEF Meets
<1>3. /\ \A k \in 0 .. Len(side) : Depth(side, k) \in Nat
      /\ \A k \in 1 .. Len(side) : Depth(side, k) = Depth(side, k - 1) + left[side[k]]
  BY DepthSteps
<1>11. \A i \in 1 .. n : /\ trades[i].maker = side[i]
                          /\ trades[i].quantity = Least(left[side[i]], q - Depth(side, i - 1))
  BY DEF TradesOf
<1>12. \A i \in 1 .. n : trades[i] = [maker |-> trades[i].maker, quantity |-> trades[i].quantity]
  BY DEF TradesOf
<1>5. DOMAIN trades = 1 .. n /\ trades = [i \in 1 .. n |-> trades[i]]
  BY DEF TradesOf
<1> HIDE DEF trades, T
<1>6. ASSUME NEW i \in 1 .. n, i < n PROVE left[side[i]] <= q - Depth(side, i - 1)
  <2>1. n - 1 \in 0 .. Len(side) /\ i \in 0 .. n - 1 /\ i \in 1 .. Len(side)
        /\ i - 1 \in 0 .. Len(side)
    BY <1>1, <1>2, <1>6
  <2>2. Depth(side, i) <= Depth(side, n - 1)
    BY <2>1, DepthGrows
  <2>3. Depth(side, i) = Depth(side, i - 1) + left[side[i]]
    BY <1>3, <2>1
  <2>4. Depth(side, n - 1) < q /\ Depth(side, n - 1) \in Nat /\ Depth(side, i) \in Nat
        /\ Depth(side, i - 1) \in Nat /\ left[side[i]] \in Nat
    BY <1>1, <1>2, <1>3, <2>1
  <2> QED
    BY <2>2, <2>3, <2>4
<1>7. ASSUME NEW i \in 1 .. n
      PROVE  /\ trades[i].maker = side[i] /\ trades[i].quantity \in Nat \ {0}
             /\ trades[i].quantity <= left[side[i]]
             /\ i < n => trades[i].quantity = left[side[i]]
             /\ trades[i] \in T
  <2>0. i \in 1 .. Len(side) /\ i - 1 \in 0 .. Len(side) /\ n \in Nat /\ i \in Nat
    BY <1>1, <1>2
  <2>1. trades[i].maker = side[i]
        /\ trades[i].quantity = Least(left[side[i]], q - Depth(side, i - 1))
    BY <1>11
  <2>2. left[side[i]] \in Nat \ {0} /\ side[i] \in S
    BY <1>1, <2>0
  <2>5. Depth(side, i - 1) \in Nat /\ Depth(side, i - 1) < q
    <3>0. Depth(side, i - 1) \in Nat
      BY <1>3, <2>0
    <3>1. CASE i < n
      <4>1. left[side[i]] <= q - Depth(side, i - 1)
        BY <1>6, <3>1
      <4> QED
        BY <2>2, <3>0, <4>1
    <3>2. CASE i = n
      BY <1>2, <2>0, <3>0, <3>2
    <3> QED
      BY <2>0, <3>1, <3>2
  <2>3. /\ trades[i].quantity \in Nat \ {0} /\ trades[i].quantity <= left[side[i]]
        /\ left[side[i]] <= q - Depth(side, i - 1) => trades[i].quantity = left[side[i]]
    BY <2>1, <2>2, <2>5 DEF Least
  <2>4. trades[i] \in T
    <3>1. [maker |-> side[i], quantity |-> trades[i].quantity] \in T
      BY <2>2, <2>3 DEF T
    <3>2. trades[i] = [maker |-> trades[i].maker, quantity |-> trades[i].quantity]
      BY <1>12
    <3> QED
      BY <2>1, <3>1, <3>2, Zenon
  <2> QED
    BY <1>6, <2>1, <2>3, <2>4
<1>8. trades \in Seq(T)
  <2>2. trades \in [1 .. n -> T]
    BY <1>5, <1>7
  <2>3. n \in Nat
    BY <1>1, <1>2
  <2> QED
    BY <2>2, <2>3, SeqDef
<1>9. Len(trades) = n
  BY <1>1, <1>2, <1>5, <1>8, LenProperties
<1>10. n > 0 => trades[n].quantity = Least(left[side[n]], q - Depth(side, n - 1))
  BY <1>1, <1>2, <1>11
<1> QED
  BY <1>1, <1>2, <1>5, <1>7, <1>8, <1>9, <1>10 DEF trades, T

\* The quantities of a list of trades, all or those of one maker.
AnyTrades(S) == Seq([maker : S, quantity : Nat \ {0}])

Quantities(trades) == [i \in DOMAIN trades |-> trades[i].quantity]
QuantitiesOf(trades, o) ==
    [i \in DOMAIN trades |-> IF trades[i].maker = o THEN trades[i].quantity ELSE 0]

LEMMA TradeSums ==
    ASSUME NEW S, NEW trades \in AnyTrades(S)
    PROVE  /\ Len(trades) \in Nat /\ DOMAIN trades = 1 .. Len(trades)
           /\ IsFiniteSet(1 .. Len(trades))
           /\ \A i \in 1 .. Len(trades) :
                /\ trades[i].maker \in S /\ trades[i].quantity \in Nat \ {0}
                /\ Quantities(trades)[i] = trades[i].quantity
           /\ \A o : \A i \in 1 .. Len(trades) :
                QuantitiesOf(trades, o)[i] =
                  IF trades[i].maker = o THEN trades[i].quantity ELSE 0
           /\ Traded(trades) = SumFunctionOnSet(Quantities(trades), 1 .. Len(trades))
           /\ \A o : TakenFrom(trades, o) =
                       SumFunctionOnSet(QuantitiesOf(trades, o), 1 .. Len(trades))
<1> DEFINE T == [maker : S, quantity : Nat \ {0}]
<1>1. /\ Len(trades) \in Nat /\ DOMAIN trades = 1 .. Len(trades)
      /\ \A i \in 1 .. Len(trades) : trades[i] \in T
  <2>1. trades \in Seq(T)
    BY DEF AnyTrades
  <2> HIDE DEF T
  <2> QED
    BY <2>1, LenProperties, ElementOfSeq
<1>2. \A i \in 1 .. Len(trades) : trades[i].maker \in S /\ trades[i].quantity \in Nat \ {0}
  BY <1>1
<1>3. \A i \in 1 .. Len(trades) : Quantities(trades)[i] = trades[i].quantity
  BY <1>1 DEF Quantities
<1>4. \A o : \A i \in 1 .. Len(trades) :
        QuantitiesOf(trades, o)[i] = IF trades[i].maker = o THEN trades[i].quantity ELSE 0
  BY <1>1 DEF QuantitiesOf
<1>5. /\ Traded(trades) = SumFunctionOnSet(Quantities(trades), DOMAIN trades)
      /\ \A o : TakenFrom(trades, o) = SumFunctionOnSet(QuantitiesOf(trades, o), DOMAIN trades)
  BY SumWhole DEF Traded, TakenFrom, Quantities, QuantitiesOf
<1>6. IsFiniteSet(1 .. Len(trades))
  BY FS_Interval, <1>1
<1> HIDE DEF T
<1> QED
  BY <1>1, <1>2, <1>3, <1>4, <1>5, <1>6, Zenon

LEMMA TradesNat ==
    ASSUME NEW S, NEW trades \in AnyTrades(S)
    PROVE  /\ Traded(trades) \in Nat
           /\ \A o : /\ TakenFrom(trades, o) \in Nat
                     /\ o \notin Makers(trades) => TakenFrom(trades, o) = 0
           /\ Makers(trades) \subseteq S
<1> DEFINE A == 1 .. Len(trades)
<1>1. /\ Traded(trades) = SumFunctionOnSet(Quantities(trades), A)
      /\ IsFiniteSet(A) /\ DOMAIN trades = A
      /\ \A i \in A : /\ trades[i].maker \in S /\ trades[i].quantity \in Nat
                      /\ Quantities(trades)[i] = trades[i].quantity
  BY TradeSums
<1>2. \A o : /\ TakenFrom(trades, o) = SumFunctionOnSet(QuantitiesOf(trades, o), A)
             /\ \A i \in A : QuantitiesOf(trades, o)[i] =
                               IF trades[i].maker = o THEN trades[i].quantity ELSE 0
  BY TradeSums
<1> HIDE DEF A
<1>3. Traded(trades) \in Nat
  <2>1. \A i \in A : Quantities(trades)[i] \in Nat
    BY <1>1
  <2>2. SumFunctionOnSet(Quantities(trades), A) \in Nat
    BY <1>1, <2>1, SumNat
  <2> QED
    BY <1>1, <2>2
<1>4. ASSUME NEW o
      PROVE  TakenFrom(trades, o) \in Nat /\ (o \notin Makers(trades) => TakenFrom(trades, o) = 0)
  <2> DEFINE f == QuantitiesOf(trades, o)
  <2>1. \A i \in A : f[i] = IF trades[i].maker = o THEN trades[i].quantity ELSE 0
    BY <1>2
  <2>2. TakenFrom(trades, o) = SumFunctionOnSet(f, A)
    BY <1>2
  <2> HIDE DEF f
  <2>3. \A i \in A : f[i] \in Nat
    BY <1>1, <2>1
  <2>4. SumFunctionOnSet(f, A) \in Nat
    BY <1>1, <2>3, SumNat
  <2>5. ASSUME o \notin Makers(trades) PROVE SumFunctionOnSet(f, A) = 0
    <3>1. \A i \in A : f[i] = 0
      BY <1>1, <2>1, <2>5 DEF Makers
    <3> QED
      BY <1>1, <3>1, SumZero
  <2> QED
    BY <2>2, <2>4, <2>5
<1>5. Makers(trades) \subseteq S
  BY <1>1 DEF Makers
<1> QED
  BY <1>3, <1>4, <1>5

\* What is taken from the maker of one trade, if no two trades have one maker.
LEMMA TakenOnce ==
    ASSUME NEW S, NEW trades \in AnyTrades(S),
           \A i, j \in 1 .. Len(trades) : trades[i].maker = trades[j].maker => i = j,
           NEW i \in 1 .. Len(trades)
    PROVE  TakenFrom(trades, trades[i].maker) = trades[i].quantity
<1> DEFINE A == 1 .. Len(trades)
           o == trades[i].maker
           f == QuantitiesOf(trades, o)
<1>1. /\ TakenFrom(trades, o) = SumFunctionOnSet(f, A) /\ IsFiniteSet(A)
      /\ \A k \in A : f[k] = IF trades[k].maker = o THEN trades[k].quantity ELSE 0
      /\ \A k \in A : trades[k].quantity \in Nat
  BY TradeSums
<1>2. \A k \in A \ {i} : f[k] = 0
  BY <1>1
<1>3. i \in A /\ f[i] = trades[i].quantity /\ f[i] \in Int
  BY <1>1
<1>4. TakenFrom(trades, o) = SumFunctionOnSet(f, A) /\ IsFiniteSet(A)
  BY <1>1
<1> HIDE DEF A, f
<1>6. \A k \in A : f[k] \in Int /\ (\A y \in A \ {k} : f[y] = 0)
                    => SumFunctionOnSet(f, A) = f[k]
  BY <1>4, SumOnly
<1>5. SumFunctionOnSet(f, A) = f[i]
  BY <1>2, <1>3, <1>6
<1> QED
  BY <1>3, <1>4, <1>5

\* The first trade and the others.
LEMMA FirstTrade ==
    ASSUME NEW S, NEW trades \in AnyTrades(S), trades # <<>>
    PROVE  /\ Head(trades) = trades[1] /\ Tail(trades) \in AnyTrades(S)
           /\ Head(trades).maker \in S /\ Head(trades).quantity \in Nat \ {0}
           /\ Head(trades).maker \in Makers(trades)
           /\ Makers(Tail(trades)) \subseteq Makers(trades)
           /\ Traded(trades) = Head(trades).quantity + Traded(Tail(trades))
           /\ \A o : TakenFrom(trades, o) =
                (IF Head(trades).maker = o THEN Head(trades).quantity ELSE 0)
                  + TakenFrom(Tail(trades), o)
           /\ Len(Tail(trades)) = Len(trades) - 1 /\ Len(trades) \in Nat \ {0}
           /\ \A i \in 1 .. Len(trades) - 1 : Tail(trades)[i] = trades[i + 1]
<1> DEFINE T == [maker : S, quantity : Nat \ {0}]
           s == Tail(trades)
           n == Len(trades)
<1>1. /\ trades \in Seq(T)
      /\ n \in Nat \ {0} /\ s \in Seq(T) /\ Len(s) = n - 1 /\ Head(trades) = trades[1]
      /\ \A i \in 1 .. n - 1 : s[i] = trades[i + 1]
  <2>1. trades \in Seq(T)
    BY DEF AnyTrades
  <2> HIDE DEF T
  <2>2. n \in Nat \ {0}
    BY <2>1, EmptySeq
  <2>3. /\ s \in Seq(T) /\ Len(s) = n - 1 /\ Head(trades) = trades[1]
        /\ \A i \in 1 .. Len(s) : s[i] = trades[i + 1]
    BY <2>1, HeadTailProperties
  <2> QED
    BY <2>1, <2>2, <2>3
<1>2. s \in AnyTrades(S)
  BY <1>1 DEF AnyTrades
<1> HIDE DEF s, T
<1>3. /\ Traded(trades) = SumFunctionOnSet(Quantities(trades), 1 .. n) /\ DOMAIN trades = 1 .. n
      /\ \A i \in 1 .. n : /\ trades[i].maker \in S /\ trades[i].quantity \in Nat \ {0}
                           /\ Quantities(trades)[i] = trades[i].quantity
  BY TradeSums
<1>4. \A o : /\ TakenFrom(trades, o) = SumFunctionOnSet(QuantitiesOf(trades, o), 1 .. n)
             /\ \A i \in 1 .. n : QuantitiesOf(trades, o)[i] =
                                    IF trades[i].maker = o THEN trades[i].quantity ELSE 0
  BY TradeSums
<1>5. /\ Traded(s) = SumFunctionOnSet(Quantities(s), 1 .. Len(s)) /\ DOMAIN s = 1 .. Len(s)
      /\ \A i \in 1 .. Len(s) : Quantities(s)[i] = s[i].quantity
  BY <1>2, TradeSums
<1>6. \A o : /\ TakenFrom(s, o) = SumFunctionOnSet(QuantitiesOf(s, o), 1 .. Len(s))
             /\ \A i \in 1 .. Len(s) : QuantitiesOf(s, o)[i] =
                                         IF s[i].maker = o THEN s[i].quantity ELSE 0
  BY <1>2, TradeSums
<1> HIDE DEF n
<1>7. 1 \in 1 .. n
  BY <1>1
<1>8. Traded(trades) = trades[1].quantity + Traded(s)
  <2> DEFINE f == Quantities(trades)
             g == Quantities(s)
  <2>1. Ints(f, 1 .. n) /\ f[1] = trades[1].quantity
    BY <1>3, <1>7 DEF Ints
  <2>2. \A i \in 1 .. n - 1 : g[i] = f[i + 1]
    <3>1. \A i \in 1 .. n - 1 : g[i] = s[i].quantity /\ s[i] = trades[i + 1]
      BY <1>1, <1>5
    <3>2. \A i \in 1 .. n - 1 : f[i + 1] = trades[i + 1].quantity
      BY <1>1, <1>3
    <3> QED
      BY <3>1, <3>2
  <2>3. Traded(trades) = SumFunctionOnSet(f, 1 .. n) /\ Traded(s) = SumFunctionOnSet(g, 1 .. n - 1)
    BY <1>1, <1>3, <1>5
  <2> HIDE DEF f, g
  <2>4. SumFunctionOnSet(f, 1 .. n) = f[1] + SumFunctionOnSet(g, 1 .. n - 1)
    BY <1>1, <2>1, <2>2, SumFirst
  <2> QED
    BY <2>1, <2>3, <2>4
<1>9. ASSUME NEW o
      PROVE  TakenFrom(trades, o) =
               (IF trades[1].maker = o THEN trades[1].quantity ELSE 0) + TakenFrom(s, o)
  <2> DEFINE f == QuantitiesOf(trades, o)
             g == QuantitiesOf(s, o)
             first == IF trades[1].maker = o THEN trades[1].quantity ELSE 0
  <2>0. \A i \in 1 .. n : f[i] = IF trades[i].maker = o THEN trades[i].quantity ELSE 0
    BY <1>4
  <2>1. Ints(f, 1 .. n) /\ f[1] = first
    BY <1>3, <1>7, <2>0 DEF Ints
  <2>2. \A i \in 1 .. n - 1 : g[i] = f[i + 1]
    <3>1. \A i \in 1 .. n - 1 : /\ g[i] = IF s[i].maker = o THEN s[i].quantity ELSE 0
                                /\ s[i] = trades[i + 1]
      BY <1>1, <1>6
    <3>2. \A i \in 1 .. n - 1 : f[i + 1] = IF trades[i + 1].maker = o
                                           THEN trades[i + 1].quantity ELSE 0
      BY <1>1, <2>0
    <3> QED
      BY <3>1, <3>2
  <2>3. TakenFrom(trades, o) = SumFunctionOnSet(f, 1 .. n)
        /\ TakenFrom(s, o) = SumFunctionOnSet(g, 1 .. n - 1)
    BY <1>1, <1>4, <1>6
  <2> HIDE DEF f, g, first
  <2>4. SumFunctionOnSet(f, 1 .. n) = f[1] + SumFunctionOnSet(g, 1 .. n - 1)
    BY <1>1, <2>1, <2>2, SumFirst
  <2>5. TakenFrom(trades, o) = first + TakenFrom(s, o)
    BY <2>1, <2>3, <2>4
  <2> QED
    BY <2>5 DEF first
<1>10. trades[1].maker \in Makers(trades)
  BY <1>3, <1>7 DEF Makers
<1>11. Makers(s) \subseteq Makers(trades)
  <2> SUFFICES ASSUME NEW i \in DOMAIN s PROVE s[i].maker \in Makers(trades)
    BY DEF Makers
  <2>1. i + 1 \in 1 .. n /\ s[i] = trades[i + 1]
    BY <1>1, <1>5
  <2> QED
    BY <1>3, <2>1 DEF Makers
<1>12. trades[1].maker \in S /\ trades[1].quantity \in Nat \ {0}
  BY <1>3, <1>7
<1> QED
  BY <1>1, <1>2, <1>8, <1>9, <1>10, <1>11, <1>12 DEF s, n

\* What trades of an order with a side take, and what they leave there.
LEMMA Matched ==
    ASSUME NEW S, NEW side, Side(side, S), NEW q \in Nat, NEW n, Meets(side, q, n)
    PROVE  LET trades == TradesOf(side, q, n)
               after  == Untraded(side, q, n)
           IN
           /\ trades \in AnyTrades(S) /\ n \in Nat /\ DOMAIN trades = 1 .. n
           /\ \A i, j \in DOMAIN trades : trades[i].maker = trades[j].maker => i = j
           /\ Traded(trades) \in Nat /\ Traded(trades) <= q
           /\ \A o \in Orders : TakenFrom(trades, o) \in Nat /\ TakenFrom(trades, o) <= left[o]
           /\ \A o \in Makers(trades) : o \in S /\ left[o] > 0
           /\ Once(after, S)
           /\ On(after) = {o \in On(side) : left[o] - TakenFrom(trades, o) > 0}
<1> DEFINE trades == TradesOf(side, q, n)
           after  == Untraded(side, q, n)
           m == IF Depth(side, n) > q THEN n ELSE n + 1
<1>1. /\ Len(side) \in Nat /\ S \subseteq Orders /\ left \in [Orders -> Nat]
      /\ \A i \in 1 .. Len(side) : side[i] \in S /\ left[side[i]] \in Nat \ {0}
      /\ \A i, j \in 1 .. Len(side) : side[i] = side[j] => i = j
  BY OffersNat DEF Side, Once
<1>2. /\ Depth(side, 0) = 0
      /\ \A k \in 0 .. Len(side) : Depth(side, k) \in Nat
      /\ \A k \in 1 .. Len(side) : Depth(side, k) = Depth(side, k - 1) + left[side[k]]
  BY DepthSteps
<1>3. /\ n \in Nat /\ n <= Len(side) /\ Len(trades) = n /\ DOMAIN trades = 1 .. n
      /\ trades \in AnyTrades(S)
      /\ \A i \in 1 .. n : /\ trades[i].maker = side[i] /\ trades[i].quantity \in Nat \ {0}
                           /\ trades[i].quantity <= left[side[i]]
                           /\ i < n => trades[i].quantity = left[side[i]]
      /\ n > 0 => /\ trades[n].quantity = Least(left[side[n]], q - Depth(side, n - 1))
                  /\ Depth(side, n - 1) < q
  BY TradeQuantities DEF AnyTrades
<1>4. after = SubSeq(side, m, Len(side))
  BY DEF Untraded
<1> HIDE DEF trades, after
<1>5. \A i, j \in 1 .. n : trades[i].maker = trades[j].maker => i = j
  <2>1. \A i \in 1 .. n : i \in 1 .. Len(side) /\ trades[i].maker = side[i]
    BY <1>1, <1>3
  <2> QED
    BY <1>1, <2>1
<1>6. \A o : TakenFrom(trades, o) \in Nat /\ (o \notin Makers(trades) => TakenFrom(trades, o) = 0)
  BY <1>3, TradesNat
<1>7. \A i \in 1 .. n : TakenFrom(trades, side[i]) = trades[i].quantity
  <2>1. \A i, j \in 1 .. Len(trades) : trades[i].maker = trades[j].maker => i = j
    BY <1>3, <1>5
  <2>3. trades \in AnyTrades(S)
    BY <1>3
  <2>2. \A i \in 1 .. Len(trades) : TakenFrom(trades, trades[i].maker) = trades[i].quantity
    BY <2>1, <2>3, TakenOnce
  <2> QED
    BY <1>3, <2>2
<1>8. Makers(trades) = {side[i] : i \in 1 .. n}
  BY <1>3 DEF Makers
<1>9. \A o \in Makers(trades) : o \in S /\ left[o] > 0 /\ TakenFrom(trades, o) <= left[o]
  <2> SUFFICES ASSUME NEW i \in 1 .. n
               PROVE  /\ side[i] \in S /\ left[side[i]] > 0
                      /\ TakenFrom(trades, side[i]) <= left[side[i]]
    BY <1>8
  <2>1. i \in 1 .. Len(side)
    BY <1>1, <1>3
  <2> QED
    BY <1>1, <1>3, <1>7, <2>1
<1>10. \A o \in Orders : TakenFrom(trades, o) \in Nat /\ TakenFrom(trades, o) <= left[o]
  <2>1. \A o \in Orders : left[o] \in Nat
    BY <1>1
  <2> QED
    BY <1>6, <1>9, <2>1
<1>11. Traded(trades) \in Nat /\ Traded(trades) <= q
  <2> DEFINE f == Quantities(trades)
  <2>1. /\ Traded(trades) = SumFunctionOnSet(f, 1 .. n)
        /\ \A i \in 1 .. n : f[i] = trades[i].quantity
    BY <1>3, TradeSums
  <2>5. \A i \in 1 .. n : f[i] \in Int /\ (i < n => f[i] = left[side[i]])
    BY <1>3, <2>1
  <2>2. Ints(f, 1 .. n) /\ \A i \in 1 .. n : i < n => f[i] = left[side[i]]
    BY <2>5 DEF Ints
  <2> HIDE DEF f
  <2>3. CASE n = 0
    <3>1. 1 .. n = {}
      BY <2>3
    <3>2. Traded(trades) = 0
      BY <2>1, <3>1, SumEmpty, Zenon
    <3> QED
      BY <3>2
  <2>4. CASE n > 0
    <3> DEFINE g == Offers(side)
    <3>1. SumFunctionOnSet(f, 1 .. n) = SumFunctionOnSet(f, 1 .. n - 1) + f[n]
      BY <1>3, <2>2, <2>4, SumLast
    <3>2. \A i \in 1 .. n - 1 : g[i] = left[side[i]] /\ f[i] = left[side[i]]
      <4>1. \A i \in 1 .. n - 1 : i \in 1 .. Len(side) /\ i \in 1 .. n /\ i < n
        BY <1>1, <1>3
      <4> QED
        BY <2>2, <4>1, OffersNat
    <3>3. Depth(side, n - 1) = SumFunctionOnSet(g, 1 .. n - 1)
      BY DEF Depth, Offers
    <3> HIDE DEF g
    <3>4. SumFunctionOnSet(f, 1 .. n - 1) = SumFunctionOnSet(g, 1 .. n - 1)
      <4>3. IsFiniteSet(1 .. n - 1)
        BY FS_Interval, <1>3
      <4>4. \A i \in 1 .. n - 1 : i \in 1 .. n
        BY <1>3
      <4>1. IsFiniteSet(1 .. n - 1) /\ Ints(f, 1 .. n - 1)
        BY <2>5, <4>3, <4>4 DEF Ints
      <4>2. \A i \in 1 .. n - 1 : f[i] = g[i]
        BY <3>2
      <4> QED
        BY <4>1, <4>2, SumSame
    <3>5. n \in 1 .. n /\ n \in 1 .. Len(side) /\ n - 1 \in 0 .. Len(side)
      BY <1>1, <1>3, <2>4
    <3>6. f[n] = Least(left[side[n]], q - Depth(side, n - 1)) /\ Depth(side, n - 1) \in Nat
          /\ left[side[n]] \in Nat /\ Depth(side, n - 1) < q
      BY <1>1, <1>2, <1>3, <2>1, <2>4, <3>5
    <3>7. Traded(trades) = Depth(side, n - 1) + f[n]
      BY <2>1, <3>1, <3>3, <3>4
    <3> QED
      BY <3>6, <3>7 DEF Least
  <2> QED
    BY <1>3, <2>3, <2>4
<1>12. m \in 1 .. Len(side) + 1 /\ (m = n \/ m = n + 1)
       /\ (m = n => n > 0 /\ TakenFrom(trades, side[n]) < left[side[n]])
       /\ (m = n + 1 /\ n > 0 => TakenFrom(trades, side[n]) = left[side[n]])
  <2>1. CASE n = 0
    <3>1. m = 1
      BY <1>2, <2>1
    <3> QED
      BY <1>1, <2>1, <3>1
  <2>2. CASE n > 0
    <3>1. n \in 1 .. n /\ n \in 1 .. Len(side) /\ n - 1 \in 0 .. Len(side) /\ n \in 0 .. Len(side)
      BY <1>1, <1>3, <2>2
    <3>2. Depth(side, n) = Depth(side, n - 1) + left[side[n]] /\ Depth(side, n - 1) \in Nat
          /\ left[side[n]] \in Nat
          /\ TakenFrom(trades, side[n]) = Least(left[side[n]], q - Depth(side, n - 1))
      BY <1>1, <1>2, <1>3, <1>7, <2>2, <3>1
    <3> QED
      BY <1>1, <1>3, <2>2, <3>1, <3>2 DEF Least
  <2> QED
    BY <1>3, <2>1, <2>2
<1> HIDE DEF m
<1>13. /\ after \in Seq(S) /\ Len(after) = Len(side) - m + 1
       /\ \A i \in 1 .. Len(after) : after[i] = side[m + i - 1]
  <2>1. \A i \in m .. Len(side) : side[i] \in S
    BY <1>1, <1>12
  <2>2. m \in Int /\ Len(side) \in Int
    BY <1>1, <1>12
  <2>3. /\ after \in Seq(S) /\ Len(after) = IF m <= Len(side) THEN Len(side) - m + 1 ELSE 0
        /\ \A i \in 1 .. Len(side) - m + 1 : after[i] = side[m + i - 1]
    BY <1>4, <2>1, <2>2, SubSeqProperties
  <2>4. Len(after) = Len(side) - m + 1
    BY <1>1, <1>12, <2>3
  <2> QED
    BY <2>3, <2>4
<1>14. \A i \in 1 .. Len(after) : m + i - 1 \in m .. Len(side) /\ m + i - 1 \in 1 .. Len(side)
  BY <1>1, <1>12, <1>13
<1>15. ASSUME NEW i \in 1 .. Len(after), NEW j \in 1 .. Len(after), after[i] = after[j]
       PROVE  i = j
  <2>2. /\ m + i - 1 \in 1 .. Len(side) /\ m + j - 1 \in 1 .. Len(side)
        /\ side[m + i - 1] = side[m + j - 1]
    BY <1>13, <1>14, <1>15
  <2>1. m + i - 1 = m + j - 1
    BY <1>1, <2>2
  <2> QED
    BY <1>12, <1>13, <2>1
<1>16. ASSUME NEW k \in 1 .. Len(side)
       PROVE  left[side[k]] - TakenFrom(trades, side[k]) > 0 <=> k >= m
  <2>1. left[side[k]] \in Nat \ {0}
    BY <1>1
  <2>2. CASE k < n
    <3>1. k \in 1 .. n
      BY <1>3, <2>2
    <3>2. TakenFrom(trades, side[k]) = left[side[k]]
      BY <1>3, <1>7, <2>2, <3>1
    <3> QED
      BY <1>3, <1>12, <2>1, <2>2, <3>2
  <2>3. CASE k = n
    BY <1>3, <1>6, <1>12, <2>1, <2>3
  <2>4. CASE k > n
    <3>1. side[k] \notin Makers(trades)
      <4> SUFFICES ASSUME NEW i \in 1 .. n, side[i] = side[k] PROVE FALSE
        BY <1>8
      <4>1. i \in 1 .. Len(side)
        BY <1>1, <1>3
      <4>2. i = k
        BY <1>1, <4>1
      <4> QED
        BY <1>3, <2>4, <4>2
    <3>2. TakenFrom(trades, side[k]) = 0
      BY <1>6, <3>1
    <3> QED
      BY <1>3, <1>12, <2>1, <2>4, <3>2
  <2> QED
    BY <1>1, <1>3, <2>2, <2>3, <2>4
<1>17. ASSUME NEW o
       PROVE  (\E i \in 1 .. Len(after) : after[i] = o) <=>
                /\ \E i \in 1 .. Len(side) : side[i] = o
                /\ left[o] - TakenFrom(trades, o) > 0
  <2>1. ASSUME NEW i \in 1 .. Len(after), after[i] = o
        PROVE  /\ \E k \in 1 .. Len(side) : side[k] = o
               /\ left[o] - TakenFrom(trades, o) > 0
    <3> DEFINE k == m + i - 1
    <3>1. k \in 1 .. Len(side) /\ k >= m /\ side[k] = o
      BY <1>12, <1>13, <1>14, <2>1
    <3> HIDE DEF k
    <3> QED
      BY <1>16, <3>1
  <2>2. ASSUME NEW k \in 1 .. Len(side), side[k] = o, left[o] - TakenFrom(trades, o) > 0
        PROVE  \E i \in 1 .. Len(after) : after[i] = o
    <3>1. k >= m
      BY <1>16, <2>2
    <3>2. k - m + 1 \in 1 .. Len(after) /\ m + (k - m + 1) - 1 = k
      BY <1>1, <1>12, <1>13, <3>1
    <3>3. after[k - m + 1] = side[k]
      BY <1>13, <3>2
    <3> QED
      BY <2>2, <3>2, <3>3
  <2> QED
    BY <2>1, <2>2
<1>18. On(after) = {o \in On(side) : left[o] - TakenFrom(trades, o) > 0}
  BY <1>17 DEF On
<1>19. Once(after, S)
  BY <1>13, <1>15 DEF Once
<1> QED
  BY <1>3, <1>5, <1>9, <1>10, <1>11, <1>18, <1>19 DEF trades, after

\* One order more on a side, and one less.
LEMMA Inserted ==
    ASSUME NEW S, NEW side, Once(side, S), NEW o \in S, o \notin On(side),
           NEW k \in 0 .. Len(side)
    PROVE  LET after == InsertAt(side, 1 + k, o) IN
           Once(after, S) /\ On(after) = On(side) \cup {o}
<1> DEFINE after == InsertAt(side, 1 + k, o)
           n == Len(side)
           a == SubSeq(side, 1, k)
           b == SubSeq(side, k + 1, n)
<1>1. n \in Nat /\ side \in Seq(S) /\ \A i \in 1 .. n : side[i] \in S
  BY LenProperties, ElementOfSeq DEF Once
<1> HIDE DEF n
<1>0. k \in 0 .. n
  BY DEF n
<1>2. /\ a \in Seq(S) /\ Len(a) = k /\ \A i \in 1 .. k : a[i] = side[i]
  <2>1. \A i \in 1 .. k : side[i] \in S
    BY <1>0, <1>1
  <2>2. /\ a \in Seq(S) /\ Len(a) = IF 1 <= k THEN k - 1 + 1 ELSE 0
        /\ \A i \in 1 .. k - 1 + 1 : a[i] = side[1 + i - 1]
    BY <1>0, <1>1, <2>1, SubSeqProperties
  <2> HIDE DEF a
  <2> QED
    BY <1>0, <1>1, <2>2
<1>3. /\ b \in Seq(S) /\ Len(b) = n - k /\ \A i \in 1 .. n - k : b[i] = side[k + i]
  <2>1. (\A i \in k + 1 .. n : side[i] \in S) /\ k + 1 \in Int /\ n \in Int
    BY <1>0, <1>1
  <2>2. /\ b \in Seq(S) /\ Len(b) = IF k + 1 <= n THEN n - (k + 1) + 1 ELSE 0
        /\ \A i \in 1 .. n - (k + 1) + 1 : b[i] = side[k + 1 + i - 1]
    BY <2>1, SubSeqProperties
  <2> HIDE DEF b
  <2>3. Len(b) = n - k
    BY <1>0, <1>1, <2>2
  <2>4. ASSUME NEW i \in 1 .. n - k PROVE b[i] = side[k + i]
    <3>1. i \in 1 .. n - (k + 1) + 1 /\ k + 1 + i - 1 = k + i
      BY <1>0, <1>1
    <3> QED
      BY <2>2, <3>1
  <2> QED
    BY <2>2, <2>3, <2>4
<1>4. after = a \o <<o>> \o b
  <2>1. 1 + k - 1 = k /\ 1 + k = k + 1
    BY <1>0
  <2>2. after = SubSeq(side, 1, (1 + k) - 1) \o <<o>> \o SubSeq(side, 1 + k, Len(side))
    BY DEF InsertAt
  <2>3. /\ SubSeq(side, 1, (1 + k) - 1) = a
        /\ SubSeq(side, 1 + k, Len(side)) = b
    BY <2>1 DEF n
  <2> HIDE DEF after, a, b
  <2> QED
    BY <2>2, <2>3
<1> HIDE DEF a, b, after
<1>5. /\ <<o>> \in Seq(S) /\ Len(<<o>>) = 1 /\ <<o>>[1] = o
  OBVIOUS
<1>6. /\ a \o <<o>> \in Seq(S) /\ Len(a \o <<o>>) = k + 1
      /\ \A i \in 1 .. k + 1 : (a \o <<o>>)[i] = IF i <= k THEN side[i] ELSE o
  <2> DEFINE one == <<o>>
  <2>3. one \in Seq(S) /\ Len(one) = 1 /\ a \in Seq(S) /\ Len(a) = k
    BY <1>2, <1>5
  <2> HIDE DEF one
  <2>4. /\ a \o one \in Seq(S) /\ Len(a \o one) = Len(a) + Len(one)
        /\ \A i \in 1 .. Len(a) + Len(one) :
             (a \o one)[i] = IF i <= Len(a) THEN a[i] ELSE one[i - Len(a)]
    BY <2>3, ConcatProperties
  <2>1. /\ a \o <<o>> \in Seq(S) /\ Len(a \o <<o>>) = k + 1
        /\ \A i \in 1 .. k + 1 : (a \o <<o>>)[i] = IF i <= k THEN a[i] ELSE <<o>>[i - k]
    BY <2>3, <2>4, Zenon DEF one
  <2>2. ASSUME NEW i \in 1 .. k + 1 PROVE (a \o <<o>>)[i] = IF i <= k THEN side[i] ELSE o
    <3>1. (a \o <<o>>)[i] = IF i <= k THEN a[i] ELSE <<o>>[i - k]
      BY <2>1
    <3>2. i <= k => a[i] = side[i]
      BY <1>0, <1>2
    <3>3. ~(i <= k) => i - k = 1
      BY <1>0
    <3> QED
      BY <1>5, <3>1, <3>2, <3>3
  <2> QED
    BY <2>1, <2>2
<1>7. /\ after \in Seq(S) /\ Len(after) = n + 1
      /\ \A i \in 1 .. n + 1 :
           after[i] = IF i <= k THEN side[i] ELSE IF i = k + 1 THEN o ELSE side[i - 1]
  <2> DEFINE c == a \o <<o>>
  <2>0. c \in Seq(S) /\ Len(c) = k + 1
        /\ \A i \in 1 .. k + 1 : c[i] = IF i <= k THEN side[i] ELSE o
    BY <1>6
  <2>1. after = c \o b
    BY <1>4
  <2> HIDE DEF c
  <2>5. /\ c \o b \in Seq(S) /\ Len(c \o b) = Len(c) + Len(b)
        /\ \A i \in 1 .. Len(c) + Len(b) :
             (c \o b)[i] = IF i <= Len(c) THEN c[i] ELSE b[i - Len(c)]
    BY <1>3, <2>0, ConcatProperties
  <2>2. /\ after \in Seq(S) /\ Len(after) = (k + 1) + (n - k)
        /\ \A i \in 1 .. (k + 1) + (n - k) :
             after[i] = IF i <= k + 1 THEN c[i] ELSE b[i - (k + 1)]
    BY <1>3, <2>0, <2>1, <2>5, Zenon
  <2>3. (k + 1) + (n - k) = n + 1
    BY <1>0, <1>1
  <2>4. ASSUME NEW i \in 1 .. n + 1
        PROVE  after[i] = IF i <= k THEN side[i] ELSE IF i = k + 1 THEN o ELSE side[i - 1]
    <3>1. after[i] = IF i <= k + 1 THEN c[i] ELSE b[i - (k + 1)]
      BY <2>2, <2>3
    <3>2. CASE i <= k + 1
      <4>1. i \in 1 .. k + 1
        BY <1>0, <3>2
      <4>2. after[i] = IF i <= k THEN side[i] ELSE o
        BY <2>0, <3>1, <3>2, <4>1
      <4> QED
        BY <1>0, <3>2, <4>2
    <3>3. CASE ~(i <= k + 1)
      <4>1. i - (k + 1) \in 1 .. n - k /\ k + (i - (k + 1)) = i - 1 /\ ~(i <= k) /\ i # k + 1
        BY <1>0, <1>1, <3>3
      <4>2. b[i - (k + 1)] = side[i - 1]
        BY <1>3, <4>1
      <4> QED
        BY <3>1, <3>3, <4>1, <4>2
    <3> QED
      BY <3>2, <3>3
  <2> QED
    BY <2>2, <2>3, <2>4
<1>8. \A i \in 1 .. n : side[i] # o
  BY DEF On, n
<1>9. \A i, j \in 1 .. n : side[i] = side[j] => i = j
  BY DEF Once, n
<1>10. ASSUME NEW i \in 1 .. n + 1, NEW j \in 1 .. n + 1, after[i] = after[j] PROVE i = j
  <2> DEFINE at(x) == IF x <= k THEN x ELSE x - 1
  <2>1. \A x \in 1 .. n + 1 : x # k + 1 => at(x) \in 1 .. n /\ after[x] = side[at(x)]
    <3> SUFFICES ASSUME NEW x \in 1 .. n + 1, x # k + 1
                 PROVE  at(x) \in 1 .. n /\ after[x] = side[at(x)]
      OBVIOUS
    <3>1. at(x) \in 1 .. n
      BY <1>0, <1>1
    <3>2. after[x] = IF x <= k THEN side[x] ELSE side[x - 1]
      BY <1>7
    <3> QED
      BY <3>1, <3>2
  <2>2. after[k + 1] = o
    <3>1. k + 1 \in 1 .. n + 1 /\ ~(k + 1 <= k)
      BY <1>0, <1>1
    <3> QED
      BY <1>7, <3>1
  <2>5. \A x \in 1 .. n + 1 : x # k + 1 => after[x] # o
    BY <1>8, <2>1
  <2>3. CASE i = k + 1 \/ j = k + 1
    BY <1>10, <2>2, <2>3, <2>5
  <2>4. CASE i # k + 1 /\ j # k + 1
    <3>1. at(i) = at(j)
      BY <1>9, <1>10, <2>1, <2>4
    <3> QED
      BY <1>0, <1>1, <2>4, <3>1
  <2> QED
    BY <2>3, <2>4
<1>11. On(after) = On(side) \cup {o}
  <2>1. ASSUME NEW i \in 1 .. n + 1 PROVE after[i] \in On(side) \cup {o}
    <3>1. i <= k => i \in 1 .. n
      BY <1>0, <1>1
    <3>2. ~(i <= k) /\ i # k + 1 => i - 1 \in 1 .. n
      BY <1>0, <1>1
    <3>3. \A x \in 1 .. n : side[x] \in On(side)
      BY DEF On, n
    <3>4. after[i] = IF i <= k THEN side[i] ELSE IF i = k + 1 THEN o ELSE side[i - 1]
      BY <1>7
    <3>5. CASE i <= k
      BY <3>1, <3>3, <3>4, <3>5
    <3>6. CASE ~(i <= k) /\ i # k + 1
      BY <3>2, <3>3, <3>4, <3>6
    <3>7. CASE ~(i <= k) /\ i = k + 1
      BY <3>4, <3>7
    <3> QED
      BY <3>5, <3>6, <3>7
  <2>2. ASSUME NEW x \in 1 .. n PROVE side[x] \in On(after)
    <3>1. \A y \in 1 .. n + 1 : after[y] \in On(after)
      BY <1>7 DEF On
    <3>2. CASE x <= k
      <4>1. x \in 1 .. n + 1 /\ after[x] = side[x]
        BY <1>1, <1>7, <3>2
      <4> QED
        BY <3>1, <4>1
    <3>3. CASE ~(x <= k)
      <4>1. x + 1 \in 1 .. n + 1 /\ ~(x + 1 <= k) /\ x + 1 # k + 1 /\ (x + 1) - 1 = x
        BY <1>0, <1>1, <3>3
      <4>2. after[x + 1] = side[x]
        BY <1>7, <4>1
      <4> QED
        BY <3>1, <4>1, <4>2
    <3> QED
      BY <3>2, <3>3
  <2>3. o \in On(after)
    <3>1. k + 1 \in 1 .. n + 1 /\ ~(k + 1 <= k)
      BY <1>0, <1>1
    <3>2. after[k + 1] = o
      BY <1>7, <3>1
    <3> QED
      BY <1>7, <3>1, <3>2 DEF On
  <2>4. On(after) \subseteq On(side) \cup {o}
    BY <1>7, <2>1 DEF On
  <2>5. On(side) \subseteq On(after)
    BY <2>2 DEF On, n
  <2> QED
    BY <2>3, <2>4, <2>5
<1>12. Once(after, S)
  BY <1>7, <1>10 DEF Once
<1> QED
  BY <1>11, <1>12 DEF after

LEMMA Removed ==
    ASSUME NEW S, NEW side, Once(side, S), NEW k \in 1 .. Len(side)
    PROVE  LET after == RemoveAt(side, k) IN
           Once(after, S) /\ On(after) = On(side) \ {side[k]}
<1> DEFINE after == RemoveAt(side, k)
           n == Len(side)
           a == SubSeq(side, 1, k - 1)
           b == SubSeq(side, k + 1, n)
<1>1. n \in Nat /\ side \in Seq(S) /\ \A i \in 1 .. n : side[i] \in S
  BY LenProperties, ElementOfSeq DEF Once
<1> HIDE DEF n
<1>0. k \in 1 .. n
  BY DEF n
<1>2. /\ a \in Seq(S) /\ Len(a) = k - 1 /\ \A i \in 1 .. k - 1 : a[i] = side[i]
  <2>1. (\A i \in 1 .. k - 1 : side[i] \in S) /\ k - 1 \in Int
    BY <1>0, <1>1
  <2>2. /\ a \in Seq(S) /\ Len(a) = IF 1 <= k - 1 THEN (k - 1) - 1 + 1 ELSE 0
        /\ \A i \in 1 .. (k - 1) - 1 + 1 : a[i] = side[1 + i - 1]
    BY <2>1, SubSeqProperties
  <2> HIDE DEF a
  <2> QED
    BY <1>0, <1>1, <2>2
<1>3. /\ b \in Seq(S) /\ Len(b) = n - k /\ \A i \in 1 .. n - k : b[i] = side[k + i]
  <2>1. (\A i \in k + 1 .. n : side[i] \in S) /\ k + 1 \in Int /\ n \in Int
    BY <1>0, <1>1
  <2>2. /\ b \in Seq(S) /\ Len(b) = IF k + 1 <= n THEN n - (k + 1) + 1 ELSE 0
        /\ \A i \in 1 .. n - (k + 1) + 1 : b[i] = side[k + 1 + i - 1]
    BY <2>1, SubSeqProperties
  <2> HIDE DEF b
  <2>3. Len(b) = n - k
    BY <1>0, <1>1, <2>2
  <2>4. ASSUME NEW i \in 1 .. n - k PROVE b[i] = side[k + i]
    <3>1. i \in 1 .. n - (k + 1) + 1 /\ k + 1 + i - 1 = k + i
      BY <1>0, <1>1
    <3> QED
      BY <2>2, <3>1
  <2> QED
    BY <2>2, <2>3, <2>4
<1>4. after = a \o b
  BY DEF RemoveAt, n
<1> HIDE DEF a, b, after
<1>5. /\ after \in Seq(S) /\ Len(after) = n - 1
      /\ \A i \in 1 .. n - 1 : after[i] = IF i < k THEN side[i] ELSE side[i + 1]
  <2>1. /\ after \in Seq(S) /\ Len(after) = Len(a) + Len(b)
        /\ \A i \in 1 .. Len(a) + Len(b) :
             after[i] = IF i <= Len(a) THEN a[i] ELSE b[i - Len(a)]
    BY <1>2, <1>3, <1>4, ConcatProperties
  <2>2. Len(a) + Len(b) = n - 1
    BY <1>0, <1>1, <1>2, <1>3
  <2>3. ASSUME NEW i \in 1 .. n - 1 PROVE after[i] = IF i < k THEN side[i] ELSE side[i + 1]
    <3>1. after[i] = IF i <= k - 1 THEN a[i] ELSE b[i - (k - 1)]
      BY <1>2, <2>1, <2>2
    <3>2. CASE i < k
      <4>1. i \in 1 .. k - 1 /\ i <= k - 1
        BY <1>0, <3>2
      <4> QED
        BY <1>2, <3>1, <3>2, <4>1
    <3>3. CASE ~(i < k)
      <4>1. ~(i <= k - 1) /\ i - (k - 1) \in 1 .. n - k /\ k + (i - (k - 1)) = i + 1
        BY <1>0, <1>1, <3>3
      <4>2. b[i - (k - 1)] = side[i + 1]
        BY <1>3, <4>1
      <4> QED
        BY <3>1, <3>3, <4>1, <4>2
    <3> QED
      BY <3>2, <3>3
  <2> QED
    BY <2>1, <2>2, <2>3
<1>6. \A i, j \in 1 .. n : side[i] = side[j] => i = j
  BY DEF Once, n
<1> DEFINE at(x) == IF x < k THEN x ELSE x + 1
<1>7. ASSUME NEW x \in 1 .. n - 1
      PROVE  at(x) \in 1 .. n /\ at(x) # k /\ after[x] = side[at(x)]
  <2>1. at(x) \in 1 .. n /\ at(x) # k
    BY <1>0, <1>1
  <2> QED
    BY <1>5, <2>1
<1>8. ASSUME NEW i \in 1 .. n - 1, NEW j \in 1 .. n - 1, after[i] = after[j] PROVE i = j
  <2>1. at(i) = at(j)
    <3>1. side[at(i)] = side[at(j)] /\ at(i) \in 1 .. n /\ at(j) \in 1 .. n
      BY <1>7, <1>8
    <3> HIDE DEF at
    <3> QED
      BY <1>6, <3>1
  <2> QED
    BY <1>0, <1>1, <2>1
<1>9. On(after) = On(side) \ {side[k]}
  <2>1. ASSUME NEW x \in 1 .. n - 1 PROVE after[x] \in On(side) \ {side[k]}
    <3>1. at(x) \in 1 .. n /\ at(x) # k /\ after[x] = side[at(x)]
      BY <1>7
    <3> HIDE DEF at
    <3>2. side[at(x)] # side[k]
      BY <1>0, <1>6, <3>1
    <3> QED
      BY <3>1, <3>2 DEF On, n
  <2>2. ASSUME NEW x \in 1 .. n, side[x] # side[k] PROVE side[x] \in On(after)
    <3>1. \A y \in 1 .. n - 1 : after[y] \in On(after)
      BY <1>5 DEF On
    <3>2. CASE x < k
      <4>1. x \in 1 .. n - 1
        BY <1>0, <1>1, <3>2
      <4>2. after[x] = side[x]
        BY <1>5, <3>2, <4>1
      <4> QED
        BY <3>1, <4>1, <4>2
    <3>3. CASE x > k
      <4>1. x - 1 \in 1 .. n - 1 /\ ~(x - 1 < k) /\ (x - 1) + 1 = x
        BY <1>0, <1>1, <3>3
      <4>2. after[x - 1] = side[x]
        BY <1>5, <4>1
      <4> QED
        BY <3>1, <4>1, <4>2
    <3>4. x # k
      BY <2>2
    <3> QED
      BY <1>0, <1>1, <3>2, <3>3, <3>4
  <2>3. On(after) \subseteq On(side) \ {side[k]}
    BY <1>5, <2>1 DEF On
  <2>4. On(side) \ {side[k]} \subseteq On(after)
    BY <2>2 DEF On, n
  <2> QED
    BY <2>3, <2>4
<1>10. Once(after, S)
  BY <1>5, <1>8 DEF Once
<1> QED
  BY <1>9, <1>10 DEF after

LEMMA Rested ==
    ASSUME NEW S, S = Clients \/ S = Quotes, NEW side, Once(side, S),
           NEW o \in S, o \notin On(side), NEW rest \in Nat
    PROVE  LET after == Rest(side, o, rest) IN
           Once(after, S) /\ On(after) = On(side) \cup (IF rest = 0 THEN {} ELSE {o})
<1> DEFINE before == {i \in DOMAIN side : side[i][1] <= o[1]}
<1>1. CASE rest = 0
  BY <1>1 DEF Rest
<1>2. CASE rest # 0 /\ o \in Clients
  <2> DEFINE after == Append(side, o)
             n == Len(side)
  <2>1. side \in Seq(S) /\ n \in Nat
    BY LenProperties DEF Once
  <2>2. /\ after \in Seq(S) /\ Len(after) = n + 1 /\ after[n + 1] = o
        /\ \A i \in 1 .. n : after[i] = side[i]
    BY <2>1, AppendProperties
  <2>3. Rest(side, o, rest) = after
    BY <1>2 DEF Rest
  <2> HIDE DEF after, n
  <2>4. \A i \in 1 .. n + 1 : i \in 1 .. n \/ i = n + 1
    BY <2>1
  <2>5. /\ \A i \in 1 .. n : side[i] # o
        /\ \A i, j \in 1 .. n : side[i] = side[j] => i = j
    BY DEF On, Once, n
  <2>6. Once(after, S)
    BY <2>2, <2>4, <2>5 DEF Once
  <2>7. On(after) = On(side) \cup {o}
    <3>1. n + 1 \in 1 .. n + 1 /\ \A i \in 1 .. n : i \in 1 .. n + 1
      BY <2>1
    <3>2. On(after) \subseteq On(side) \cup {o}
      BY <2>2, <2>4 DEF On, n
    <3>3. On(side) \subseteq On(after)
      BY <2>2, <3>1 DEF On, n
    <3>4. o \in On(after)
      BY <2>2, <3>1 DEF On
    <3> QED
      BY <3>2, <3>3, <3>4
  <2> QED
    BY <1>2, <2>3, <2>6, <2>7
<1>3. CASE rest # 0 /\ o \notin Clients
  <2>1. Rest(side, o, rest) = InsertAt(side, 1 + Cardinality(before), o)
    BY <1>3 DEF Rest
  <2>2. Cardinality(before) \in 0 .. Len(side)
    <3>1. Len(side) \in Nat /\ DOMAIN side = 1 .. Len(side)
      BY LenProperties DEF Once
    <3> DEFINE m == Len(side)
               all == 1 .. m
    <3>3. before \subseteq all
      BY <3>1
    <3>7. m \in Nat
      BY <3>1
    <3> HIDE DEF before, m
    <3>2. IsFiniteSet(1 .. m) /\ Cardinality(1 .. m) = (IF 1 > m THEN 0 ELSE m - 1 + 1)
      BY <3>7, FS_Interval
    <3>8. Cardinality(1 .. m) = m
      BY <3>2, <3>7
    <3> HIDE DEF all
    <3>5. IsFiniteSet(all) /\ Cardinality(all) = m
      BY <3>2, <3>8 DEF all
    <3>4. IsFiniteSet(before) /\ Cardinality(before) <= Cardinality(all)
      BY <3>3, <3>5, FS_Subset
    <3>6. Cardinality(before) \in Nat
      BY <3>4, FS_CardinalityType
    <3>9. Cardinality(before) \in 0 .. m
      BY <3>4, <3>5, <3>6, <3>7
    <3> QED
      BY <3>9 DEF m
  <2> HIDE DEF before
  <2> QED
    BY <1>3, <2>1, <2>2, Inserted
<1> QED
  BY <1>1, <1>2, <1>3

LEMMA Sides ==
    ASSUME TypeInv, BookInv
    PROVE  Side(book.sell, Quotes) /\ Side(book.buy, Clients)
<1>1. ASSUME NEW side, NEW S \in SUBSET Orders, Once(side, S), On(side) = {o \in S : left[o] > 0}
      PROVE  Side(side, S)
  <2>1. \A i \in 1 .. Len(side) : side[i] \in On(side)
    BY DEF On
  <2> QED
    BY <1>1, <2>1 DEF Side, TypeInv
<1>2. Quotes \subseteq Orders /\ Clients \subseteq Orders
  BY DEF Orders
<1> QED
  BY <1>1, <1>2 DEF BookInv

\* What a client's order does to the book.
LEMMA BuyEffect ==
    ASSUME TypeInv, BookInv, NEW o \in Clients, left[o] = 0, NEW q \in Nat, NEW n, Buy(o, q, n)
    PROVE  LET trades == TradesOf(book.sell, q, n) IN
           /\ trades \in AnyTrades(Quotes)
           /\ \A i, j \in DOMAIN trades : trades[i].maker = trades[j].maker => i = j
           /\ \A x \in Makers(trades) : x \in Quotes /\ left[x] > 0
           /\ Traded(trades) \in Nat /\ Traded(trades) <= q
           /\ book' \in [buy : Seq(Clients), sell : Seq(Quotes)] /\ BookInv'
           /\ left' \in [Orders -> Nat] /\ fill' \in [Clients -> Nat]
           /\ left'[o] = q - Traded(trades) /\ fill'[o] = Traded(trades)
           /\ \A c \in Clients \ {o} : left'[c] = left[c] /\ fill'[c] = fill[c]
           /\ \A x \in Quotes : left'[x] = left[x] - TakenFrom(trades, x)
                                /\ TakenFrom(trades, x) \in Nat /\ TakenFrom(trades, x) <= left[x]
<1> DEFINE trades == TradesOf(book.sell, q, n)
           rest == q - Traded(trades)
           sell == Untraded(book.sell, q, n)
           buy  == Rest(book.buy, o, rest)
<1>1. /\ Meets(book.sell, q, n) /\ book' = [buy |-> buy, sell |-> sell]
      /\ left' = LeftAfter(o, q, trades) /\ fill' = [fill EXCEPT ![o] = Traded(trades)]
  BY DEF Buy
<1>2. Side(book.sell, Quotes)
  BY Sides
<1>3. /\ trades \in AnyTrades(Quotes)
      /\ \A i, j \in DOMAIN trades : trades[i].maker = trades[j].maker => i = j
      /\ Traded(trades) \in Nat /\ Traded(trades) <= q
      /\ \A x \in Orders : TakenFrom(trades, x) \in Nat /\ TakenFrom(trades, x) <= left[x]
      /\ \A x \in Makers(trades) : x \in Quotes /\ left[x] > 0
      /\ Once(sell, Quotes)
      /\ On(sell) = {x \in On(book.sell) : left[x] - TakenFrom(trades, x) > 0}
  BY <1>1, <1>2, Matched
<1>4. \A c \in Clients : TakenFrom(trades, c) = 0
  <2>1. \A c \in Clients : c \notin Makers(trades)
    BY <1>3, OrderKinds
  <2> HIDE DEF trades
  <2> QED
    BY <1>3, <2>1, TradesNat
<1>5. rest \in Nat
  BY <1>3
<1> HIDE DEF trades
<1>6. Once(buy, Clients) /\ On(buy) = On(book.buy) \cup (IF rest = 0 THEN {} ELSE {o})
  <2>1. Once(book.buy, Clients) /\ o \notin On(book.buy)
    BY DEF BookInv
  <2> HIDE DEF rest
  <2> QED
    BY <1>5, <2>1, Rested
<1> HIDE DEF sell, buy
<1>7. \A x \in Orders : left'[x] = IF x = o THEN rest ELSE left[x] - TakenFrom(trades, x)
  BY <1>1 DEF LeftAfter
<1>8. left' \in [Orders -> Nat]
  <2>1. ASSUME NEW x \in Orders PROVE left'[x] \in Nat
    <3>1. TakenFrom(trades, x) \in Nat /\ TakenFrom(trades, x) <= left[x] /\ left[x] \in Nat
      BY <1>3 DEF TypeInv
    <3> HIDE DEF rest
    <3> QED
      BY <1>5, <1>7, <3>1
  <2>2. left' = [x \in Orders |-> left'[x]]
    BY <1>1 DEF LeftAfter
  <2> QED
    BY <2>1, <2>2
<1>9. fill' \in [Clients -> Nat] /\ fill'[o] = Traded(trades)
      /\ \A c \in Clients \ {o} : fill'[c] = fill[c]
  BY <1>1, <1>3 DEF TypeInv
<1>10. left'[o] = rest /\ \A c \in Clients \ {o} : left'[c] = left[c]
  <2>1. \A c \in Clients : c \in Orders /\ left[c] \in Nat
    BY OrderKinds DEF TypeInv
  <2> QED
    BY <1>4, <1>7, <2>1
<1>11. \A x \in Quotes : /\ x \in Orders /\ left'[x] = left[x] - TakenFrom(trades, x)
                         /\ TakenFrom(trades, x) \in Nat /\ TakenFrom(trades, x) <= left[x]
  BY <1>3, <1>7, OrderKinds
<1>12. book'.buy = buy /\ book'.sell = sell /\ book' \in [buy : Seq(Clients), sell : Seq(Quotes)]
  <2>1. buy \in Seq(Clients) /\ sell \in Seq(Quotes)
    BY <1>3, <1>6 DEF Once
  <2> QED
    BY <1>1, <2>1
<1>13. BookInv'
  <2>1. On(buy) = {c \in Clients : left'[c] > 0}
    <3>1. rest = 0 \/ rest > 0
      BY <1>5
    <3> HIDE DEF rest
    <3> QED
      BY <1>6, <1>10, <3>1 DEF BookInv
  <2>2. On(sell) = {x \in Quotes : left'[x] > 0}
    <3>1. On(book.sell) = {x \in Quotes : left[x] > 0}
      BY DEF BookInv
    <3>2. \A x \in Quotes : left[x] \in Nat
      BY <1>11 DEF TypeInv
    <3> QED
      BY <1>3, <1>11, <3>1, <3>2
  <2> QED
    BY <1>3, <1>6, <1>12, <2>1, <2>2 DEF BookInv, On, Once
<1> QED
  BY <1>3, <1>8, <1>9, <1>10, <1>11, <1>12, <1>13 DEF trades

\* ... and what an order of the desk does.
LEMMA SellEffect ==
    ASSUME TypeInv, BookInv, NEW o \in Quotes, left[o] = 0, NEW n, Sell(o, LevelSize, n)
    PROVE  LET trades == TradesOf(book.buy, LevelSize, n) IN
           /\ Traded(trades) \in Nat /\ Traded(trades) <= LevelSize
           /\ n = 0 => Traded(trades) = 0
           /\ book' \in [buy : Seq(Clients), sell : Seq(Quotes)] /\ BookInv'
           /\ left' \in [Orders -> Nat] /\ fill' \in [Clients -> Nat]
           /\ left'[o] = LevelSize - Traded(trades)
           /\ \A c \in Clients :
                /\ left'[c] + fill'[c] = left[c] + fill[c] /\ fill'[c] >= fill[c]
                /\ left[c] = 0 => left'[c] = 0 /\ fill'[c] = fill[c]
                /\ c \notin Discarded(o, n) => left'[c] = left[c] /\ fill'[c] = fill[c]
           /\ \A x \in Quotes \ {o} : left'[x] = left[x]
<1> DEFINE trades == TradesOf(book.buy, LevelSize, n)
           rest == LevelSize - Traded(trades)
           buy  == Untraded(book.buy, LevelSize, n)
           sell == Rest(book.sell, o, rest)
<1>1. /\ Meets(book.buy, LevelSize, n) /\ book' = [sell |-> sell, buy |-> buy]
      /\ left' = LeftAfter(o, LevelSize, trades)
      /\ fill' = [c \in Clients |-> fill[c] + TakenFrom(trades, c)]
  BY DEF Sell
<1>2. Side(book.buy, Clients)
  BY Sides
<1>3. /\ trades \in AnyTrades(Clients) /\ DOMAIN trades = 1 .. n /\ n \in Nat
      /\ \A i, j \in DOMAIN trades : trades[i].maker = trades[j].maker => i = j
      /\ Traded(trades) \in Nat /\ Traded(trades) <= LevelSize
      /\ \A x \in Orders : TakenFrom(trades, x) \in Nat /\ TakenFrom(trades, x) <= left[x]
      /\ Once(buy, Clients)
      /\ On(buy) = {x \in On(book.buy) : left[x] - TakenFrom(trades, x) > 0}
  BY <1>1, <1>2, DeskAssumption, Matched
<1>4. /\ \A x \in Quotes : TakenFrom(trades, x) = 0
      /\ \A c \in Clients : c \notin Discarded(o, n) => TakenFrom(trades, c) = 0
  <2>1. \A x : x \notin Makers(trades) => TakenFrom(trades, x) = 0
    BY <1>3, TradesNat
  <2>2. Makers(trades) \subseteq Clients
    BY <1>3, TradesNat
  <2>3. \A c : c \notin Discarded(o, n) => c \notin Makers(trades)
    <3>1. n = 0 => Makers(trades) = {}
      <4>1. n = 0 => DOMAIN trades = {}
        BY <1>3
      <4> HIDE DEF trades
      <4> QED
        BY <4>1 DEF Makers
    <3> QED
      BY <3>1 DEF Discarded
  <2> HIDE DEF trades
  <2> QED
    BY <2>1, <2>2, <2>3, OrderKinds
<1>5. rest \in Nat
  BY <1>3, DeskAssumption
<1>6. n = 0 => Traded(trades) = 0
  <2> SUFFICES ASSUME n = 0 PROVE Traded(trades) = 0
    OBVIOUS
  <2>1. DOMAIN trades = {}
    BY <1>3
  <2> HIDE DEF trades
  <2>2. Traded(trades) = SumFunctionOnSet(Quantities(trades), DOMAIN trades)
    BY SumWhole DEF Traded, Quantities
  <2> QED
    BY <2>1, <2>2, SumEmpty
<1> HIDE DEF trades
<1>7. Once(sell, Quotes) /\ On(sell) = On(book.sell) \cup (IF rest = 0 THEN {} ELSE {o})
  <2>1. Once(book.sell, Quotes) /\ o \notin On(book.sell)
    BY DEF BookInv
  <2> HIDE DEF rest
  <2> QED
    BY <1>5, <2>1, Rested
<1> HIDE DEF sell, buy
<1>8. \A x \in Orders : left'[x] = IF x = o THEN rest ELSE left[x] - TakenFrom(trades, x)
  BY <1>1 DEF LeftAfter
<1>9. left' \in [Orders -> Nat]
  <2>1. ASSUME NEW x \in Orders PROVE left'[x] \in Nat
    <3>1. TakenFrom(trades, x) \in Nat /\ TakenFrom(trades, x) <= left[x] /\ left[x] \in Nat
      BY <1>3 DEF TypeInv
    <3> HIDE DEF rest
    <3> QED
      BY <1>5, <1>8, <3>1
  <2>2. left' = [x \in Orders |-> left'[x]]
    BY <1>1 DEF LeftAfter
  <2> QED
    BY <2>1, <2>2
<1>10. left'[o] = rest /\ \A x \in Quotes \ {o} : left'[x] = left[x]
  <2>1. \A x \in Quotes : x \in Orders /\ left[x] \in Nat
    BY OrderKinds DEF TypeInv
  <2> QED
    BY <1>4, <1>8, <2>1
<1>11. ASSUME NEW c \in Clients
       PROVE  /\ left'[c] = left[c] - TakenFrom(trades, c) /\ left[c] \in Nat
              /\ fill'[c] = fill[c] + TakenFrom(trades, c) /\ fill[c] \in Nat
              /\ TakenFrom(trades, c) \in Nat /\ TakenFrom(trades, c) <= left[c]
  <2>1. c \in Orders /\ c # o
    BY OrderKinds
  <2>2. fill'[c] = fill[c] + TakenFrom(trades, c)
    BY <1>1
  <2>3. TakenFrom(trades, c) \in Nat /\ TakenFrom(trades, c) <= left[c]
    BY <1>3, <2>1
  <2>4. left'[c] = left[c] - TakenFrom(trades, c)
    BY <1>8, <2>1
  <2> QED
    BY <2>1, <2>2, <2>3, <2>4 DEF TypeInv
<1>12. fill' \in [Clients -> Nat]
  <2>1. \A c \in Clients : fill'[c] \in Nat
    BY <1>11
  <2>2. fill' = [c \in Clients |-> fill'[c]]
    BY <1>1
  <2> QED
    BY <2>1, <2>2
<1>13. ASSUME NEW c \in Clients
       PROVE  /\ left'[c] + fill'[c] = left[c] + fill[c] /\ fill'[c] >= fill[c]
              /\ left[c] = 0 => left'[c] = 0 /\ fill'[c] = fill[c]
              /\ c \notin Discarded(o, n) => left'[c] = left[c] /\ fill'[c] = fill[c]
  <2>1. /\ left'[c] = left[c] - TakenFrom(trades, c) /\ left[c] \in Nat
        /\ fill'[c] = fill[c] + TakenFrom(trades, c) /\ fill[c] \in Nat
        /\ TakenFrom(trades, c) \in Nat /\ TakenFrom(trades, c) <= left[c]
        /\ c \notin Discarded(o, n) => TakenFrom(trades, c) = 0
    BY <1>4, <1>11
  <2> QED
    BY <2>1
<1>14. book'.buy = buy /\ book'.sell = sell /\ book' \in [buy : Seq(Clients), sell : Seq(Quotes)]
  <2>1. buy \in Seq(Clients) /\ sell \in Seq(Quotes)
    BY <1>3, <1>7 DEF Once
  <2> QED
    BY <1>1, <2>1
<1>15. BookInv'
  <2>1. On(sell) = {x \in Quotes : left'[x] > 0}
    <3>1. rest = 0 \/ rest > 0
      BY <1>5
    <3> HIDE DEF rest
    <3> QED
      BY <1>7, <1>10, <3>1 DEF BookInv
  <2>2. On(buy) = {x \in Clients : left'[x] > 0}
    <3>1. On(book.buy) = {x \in Clients : left[x] > 0}
      BY DEF BookInv
    <3>2. \A x \in Clients : /\ left[x] \in Nat /\ left'[x] = left[x] - TakenFrom(trades, x)
                             /\ TakenFrom(trades, x) \in Nat
      BY <1>11
    <3> QED
      BY <1>3, <3>1, <3>2
  <2> QED
    BY <1>3, <1>7, <1>14, <2>1, <2>2 DEF BookInv, On, Once
<1> QED
  BY <1>3, <1>6, <1>9, <1>10, <1>12, <1>13, <1>14, <1>15 DEF trades

-----------------------------------------------------------------------------
(* What each step does to the tasks.                                       *)

\* Task t is the only one that moves.
Alone(t) ==
    /\ t \in Tasks /\ task' \in [Tasks -> TaskType]
    /\ \A s \in Tasks \ {t} : task'[s] = task[s]

NowAt(t, stage, cur, trades, todo) ==
    /\ task'[t].stage = stage /\ task'[t].cur = cur
    /\ task'[t].trades = trades /\ task'[t].todo = todo

LEMMA FreshFields ==
    /\ Fresh \in TaskType
    /\ \A s \in {"ready", "done", "failed"} :
         /\ Ended(s) \in TaskType /\ Ended(s).stage = s
         /\ Ended(s).cur = None /\ Ended(s).trades = <<>> /\ Ended(s).todo = {}
         /\ \A o \in Orders : Ended(s).draft[o] = NoRow
    /\ Ended("ready") = Fresh
<1>1. NoRow \in RowType
  BY DEF NoRow, RowType, Open
<1>2. <<>> \in Seq(TradeType)
  BY EmptySeq
<1>3. Fresh \in TaskType
  BY <1>1, <1>2 DEF Fresh, TaskType
<1>4. /\ Fresh.stage = "ready" /\ Fresh.cur = None /\ Fresh.trades = <<>> /\ Fresh.todo = {}
      /\ \A o \in Orders : Fresh.draft[o] = NoRow
  BY DEF Fresh
<1>5. ASSUME NEW s \in {"ready", "done", "failed"}
      PROVE  /\ Ended(s) \in TaskType /\ Ended(s).stage = s
             /\ Ended(s).cur = None /\ Ended(s).trades = <<>> /\ Ended(s).todo = {}
             /\ \A o \in Orders : Ended(s).draft[o] = NoRow
  BY <1>3, <1>4 DEF Ended, TaskType
<1>6. Ended("ready") = Fresh
  BY <1>3, <1>4 DEF Ended, TaskType
<1> QED
  BY <1>3, <1>5, <1>6

LEMMA BeginTask ==
    ASSUME TypeInv, NEW p \in Placements, Begin(p)
    PROVE  /\ task[p].stage = "ready" /\ Alone(p)
           /\ NowAt(p, "reserve", p, task[p].trades, task[p].todo)
           /\ task'[p].draft = task[p].draft
<1>1. p \in Tasks /\ p \in Orders
  BY OrderKinds DEF Tasks, Orders
<1>2. task \in [Tasks -> TaskType] /\ task[p] \in TaskType
  BY <1>1 DEF TypeInv
<1>3. task' = [task EXCEPT ![p].stage = "reserve", ![p].cur = p] /\ task[p].stage = "ready"
  BY DEF Begin, In
<1>4. task'[p] = [task[p] EXCEPT !.stage = "reserve", !.cur = p]
  BY <1>1, <1>2, <1>3
<1>5. task'[p] \in TaskType
  BY <1>1, <1>2, <1>4 DEF TaskType
<1> QED
  BY <1>1, <1>2, <1>3, <1>4, <1>5 DEF Alone, NowAt, TaskType

LEMMA StartRunTask ==
    ASSUME TypeInv, NEW d \in DeskTasks, StartRun(d)
    PROVE  /\ task[d].stage = "ready" /\ Alone(d)
           /\ \/ NowAt(d, "look", task[d].cur, task[d].trades, Levels)
              \/ NowAt(d, "topup", task[d].cur, task[d].trades, task[d].todo)
           /\ task'[d].draft = task[d].draft
<1>1. d \in Tasks /\ task \in [Tasks -> TaskType] /\ task[d] \in TaskType
  BY DEF TypeInv, DeskTasks, Tasks
<1>2. task[d].stage = "ready"
  BY DEF StartRun, At
<1>3. task' = [task EXCEPT ![d] =
         IF opened /\ committed[Desk].available >= DeskTarget
         THEN [task[d] EXCEPT !.stage = "look", !.todo = Levels]
         ELSE [task[d] EXCEPT !.stage = "topup", !.seen = IF opened THEN "low" ELSE "absent"]]
  BY DEF StartRun
<1>4. CASE opened /\ committed[Desk].available >= DeskTarget
  <2>1. task'[d] = [task[d] EXCEPT !.stage = "look", !.todo = Levels]
        /\ task' = [task EXCEPT ![d] = [task[d] EXCEPT !.stage = "look", !.todo = Levels]]
    BY <1>1, <1>3, <1>4
  <2>2. task'[d] \in TaskType
    BY <1>1, <2>1 DEF TaskType
  <2>3. /\ NowAt(d, "look", task[d].cur, task[d].trades, Levels)
        /\ task'[d].draft = task[d].draft
    BY <1>1, <2>1 DEF NowAt, TaskType
  <2>4. Alone(d)
    BY <1>1, <2>1, <2>2 DEF Alone
  <2> QED
    BY <1>2, <2>3, <2>4
<1>5. CASE ~(opened /\ committed[Desk].available >= DeskTarget)
  <2> DEFINE seen == IF opened THEN "low" ELSE "absent"
  <2>1. task'[d] = [task[d] EXCEPT !.stage = "topup", !.seen = seen]
        /\ task' = [task EXCEPT ![d] = [task[d] EXCEPT !.stage = "topup", !.seen = seen]]
    BY <1>1, <1>3, <1>5
  <2>3. seen \in {"low", "absent"}
    OBVIOUS
  <2> HIDE DEF seen
  <2>2. task'[d] \in TaskType
    BY <1>1, <2>1, <2>3 DEF TaskType
  <2>5. /\ NowAt(d, "topup", task[d].cur, task[d].trades, task[d].todo)
        /\ task'[d].draft = task[d].draft
    BY <1>1, <2>1 DEF NowAt, TaskType
  <2>4. Alone(d)
    BY <1>1, <2>1, <2>2 DEF Alone
  <2> QED
    BY <1>2, <2>4, <2>5
<1> QED
  BY <1>4, <1>5

LEMMA TopUpTask ==
    ASSUME TypeInv, NEW d \in DeskTasks, TopUp(d)
    PROVE  /\ task[d].stage = "topup" /\ Alone(d)
           /\ NowAt(d, "look", task[d].cur, task[d].trades, Levels)
           /\ task'[d].draft = task[d].draft
<1>1. d \in Tasks /\ task \in [Tasks -> TaskType] /\ task[d] \in TaskType
  BY DEF TypeInv, DeskTasks, Tasks
<1>2. task' = [task EXCEPT ![d].stage = "look", ![d].todo = Levels, ![d].seen = None]
      /\ task[d].stage = "topup"
  BY DEF TopUp, At
<1>3. task'[d] = [task[d] EXCEPT !.stage = "look", !.todo = Levels, !.seen = None]
  BY <1>1, <1>2
<1>4. task'[d] \in TaskType
  BY <1>1, <1>3 DEF TaskType
<1> QED
  BY <1>1, <1>2, <1>3, <1>4 DEF Alone, NowAt, TaskType

\* The steps of a run at a level.
LEMMA LevelTask ==
    ASSUME TypeInv, NEW d \in DeskTasks, NEW l \in Levels,
           NEW q \in Quotes, NEW n, Satisfied(d, l) \/ AddAgain(d, l, q, n)
    PROVE  /\ task[d].stage = "look" /\ Alone(d)
           /\ NowAt(d, "look", task[d].cur, task[d].trades, task[d].todo \ {l})
           /\ task'[d].draft = task[d].draft
<1>1. d \in Tasks /\ task \in [Tasks -> TaskType] /\ task[d] \in TaskType
  BY DEF TypeInv, DeskTasks, Tasks
<1>2. task' = [task EXCEPT ![d].todo = task[d].todo \ {l}] /\ task[d].stage = "look"
  BY <1>1 DEF Satisfied, AddAgain, At, Step
<1>3. task'[d] = [task[d] EXCEPT !.todo = task[d].todo \ {l}]
  BY <1>1, <1>2
<1>5. task[d].todo \ {l} \in SUBSET (Levels \cup Relations)
  BY <1>1 DEF TaskType
<1>4. task'[d] \in TaskType
  <2> DEFINE rest == task[d].todo \ {l}
  <2> HIDE DEF rest
  <2>1. task'[d] = [task[d] EXCEPT !.todo = rest] /\ rest \in SUBSET (Levels \cup Relations)
    BY <1>3, <1>5 DEF rest
  <2> QED
    BY <1>1, <2>1 DEF TaskType
<1> QED
  BY <1>1, <1>2, <1>3, <1>4 DEF Alone, NowAt, TaskType

LEMMA MissTask ==
    ASSUME TypeInv, NEW d \in DeskTasks, NEW l \in Levels, Miss(d, l)
    PROVE  /\ task[d].stage = "look" /\ Alone(d)
           /\ NowAt(d, "place", task[d].cur, task[d].trades, task[d].todo)
           /\ task'[d].draft = task[d].draft
<1>1. d \in Tasks /\ task \in [Tasks -> TaskType] /\ task[d] \in TaskType
  BY DEF TypeInv, DeskTasks, Tasks
<1>2. task' = [task EXCEPT ![d].stage = "place"] /\ task[d].stage = "look"
  BY DEF Miss, At
<1>3. task'[d] = [task[d] EXCEPT !.stage = "place"]
  BY <1>1, <1>2
<1>4. task'[d] \in TaskType
  BY <1>1, <1>3 DEF TaskType
<1> QED
  BY <1>1, <1>2, <1>3, <1>4 DEF Alone, NowAt, TaskType

NewRow == [status |-> "OPEN", filled |-> 0, settled |-> 0, paid |-> 0]

LEMMA PlaceTask ==
    ASSUME TypeInv, NEW d \in DeskTasks, NEW l \in Levels, NEW q \in Quotes, NEW n, Place(d, l, q, n)
    PROVE  /\ task[d].stage = "place" /\ Alone(d)
           /\ NowAt(d, "look", task[d].cur, task[d].trades, task[d].todo \ {l})
           /\ task'[d].draft = [task[d].draft EXCEPT ![q] = NewRow]
<1>1. d \in Tasks /\ task \in [Tasks -> TaskType] /\ task[d] \in TaskType /\ q \in Orders
  BY OrderKinds DEF TypeInv, DeskTasks, Tasks
<1>0. [NoRow EXCEPT !.status = "OPEN"] = NewRow /\ NewRow \in RowType
  BY DEF NoRow, NewRow, RowType, Open
<1>2. task' = [task EXCEPT ![d].todo = task[d].todo \ {l}, ![d].stage = "look",
                           ![d].draft[q] = NewRow]
      /\ task[d].stage = "place"
  BY <1>0, <1>1 DEF Place, At
<1>3. task'[d] = [task[d] EXCEPT !.todo = task[d].todo \ {l}, !.stage = "look",
                                 !.draft = [task[d].draft EXCEPT ![q] = NewRow]]
  BY <1>1, <1>2 DEF TaskType
<1>4. task'[d] \in TaskType
  <2> DEFINE rest == task[d].todo \ {l}
             draft == [task[d].draft EXCEPT ![q] = NewRow]
  <2>1. rest \in SUBSET (Levels \cup Relations) /\ draft \in [Orders -> RowType]
    BY <1>0, <1>1 DEF TaskType
  <2>2. task'[d] = [task[d] EXCEPT !.todo = rest, !.stage = "look", !.draft = draft]
    BY <1>3
  <2> HIDE DEF rest, draft
  <2> QED
    BY <1>1, <2>1, <2>2 DEF TaskType
<1>5. task'[d].draft = [task[d].draft EXCEPT ![q] = NewRow]
  BY <1>1, <1>3 DEF TaskType
<1> QED
  BY <1>1, <1>2, <1>3, <1>4, <1>5 DEF Alone, NowAt, TaskType

LEMMA PlacementCur ==
    ASSUME TypeInv, TaskInv, NEW p \in Placements, Running(p)
    PROVE  /\ p \in Tasks /\ task[p] \in TaskType /\ task[p].cur \in Own(p) /\ task[p].cur \in Clients
           /\ task[p].cur \in Orders /\ task[p].cur # None /\ UserOf(task[p].cur) \in Users
           /\ UserOf(task[p].cur) # Desk /\ UserOf(task[p].cur) \in Holders
<1>1. p \in Tasks /\ task[p] \in TaskType
  BY DEF Tasks, TypeInv
<1>2. task[p].cur \in Own(p)
  BY DEF TaskInv, PlacementShape
<1>3. task[p].cur \in Clients
  BY <1>2, AllClients
<1> QED
  BY <1>1, <1>2, <1>3, OrderKinds, NameAssumption DEF Holders

LEMMA ReserveTask ==
    ASSUME TypeInv, BookInv, TaskInv, NEW p \in Placements, NEW n,
           In(p, "reserve"), ReserveAndMatch(p, task[p].cur, n)
    PROVE  /\ task[p].stage = "reserve" /\ Running(p) /\ Alone(p)
           /\ left[task[p].cur] = 0 /\ fill[task[p].cur] = 0
           /\ NowAt(p, "insert", task[p].cur, TradesOf(book.sell, SizeOf(task[p].cur), n), task[p].todo)
           /\ task'[p].draft = task[p].draft
<1> DEFINE o == task[p].cur
           trades == TradesOf(book.sell, SizeOf(o), n)
<1>1. task[p].stage = "reserve" /\ Running(p)
  BY DEF In, Running
<1>2. p \in Tasks /\ task[p] \in TaskType /\ o \in Clients /\ task \in [Tasks -> TaskType]
  BY <1>1, PlacementCur DEF TypeInv
<1>3. o \in ToMake(p)
  BY <1>1 DEF ToMake
<1>4. left[o] = 0 /\ fill[o] = 0
  BY <1>3 DEF TaskInv, PlacementShape
<1>5. SizeOf(o) \in Nat
  BY <1>2, SizeNat, OrderKinds
<1>6. Buy(o, SizeOf(o), n)
  BY DEF ReserveAndMatch
<1>7. trades \in AnyTrades(Quotes)
  BY <1>2, <1>4, <1>5, <1>6, BuyEffect
<1>8. trades \in Seq(TradeType)
  BY <1>7 DEF AnyTrades, TradeType
<1>9. task' = [task EXCEPT ![p].stage = "insert", ![p].trades = trades]
  BY DEF ReserveAndMatch
<1> HIDE DEF trades, o
<1>10. task'[p] = [task[p] EXCEPT !.stage = "insert", !.trades = trades]
  BY <1>2, <1>9
<1>11. task'[p] \in TaskType
  BY <1>2, <1>8, <1>10 DEF TaskType
<1>12. NowAt(p, "insert", task[p].cur, trades, task[p].todo) /\ task'[p].draft = task[p].draft
  BY <1>2, <1>10 DEF TaskType, NowAt
<1>13. Alone(p)
  BY <1>2, <1>9, <1>11 DEF Alone
<1> QED
  BY <1>1, <1>4, <1>12, <1>13 DEF o, trades

LEMMA SkipPoorTask ==
    ASSUME TypeInv, NEW p \in Placements, SkipPoor(p)
    PROVE  /\ task[p].stage = "reserve" /\ Running(p) /\ Alone(p) /\ task[p].cur \in Copies
           /\ NowAt(p, "copy", task[p].cur, task[p].trades, task[p].todo)
           /\ task'[p].draft = task[p].draft
<1>1. p \in Tasks /\ task \in [Tasks -> TaskType] /\ task[p] \in TaskType
  BY DEF TypeInv, Tasks
<1>2. task' = [task EXCEPT ![p].stage = "copy"] /\ task[p].stage = "reserve" /\ task[p].cur \in Copies
  BY DEF SkipPoor, In
<1>3. task'[p] = [task[p] EXCEPT !.stage = "copy"]
  BY <1>1, <1>2
<1>4. task'[p] \in TaskType
  BY <1>1, <1>3 DEF TaskType
<1> QED
  BY <1>1, <1>2, <1>3, <1>4 DEF Alone, NowAt, TaskType, Running

LEMMA SkipViolatedTask ==
    ASSUME TypeInv, NEW p \in Placements, SkipViolated(p)
    PROVE  /\ task[p].stage = "settle" /\ Running(p) /\ Alone(p) /\ task[p].cur \in Copies
           /\ NowAt(p, "copy", task[p].cur, <<>>, task[p].todo)
           /\ task'[p].draft = task[p].draft
<1>1. p \in Tasks /\ task \in [Tasks -> TaskType] /\ task[p] \in TaskType
  BY DEF TypeInv, Tasks
<1>2. task' = [task EXCEPT ![p].stage = "copy", ![p].trades = <<>>] /\ task[p].stage = "settle"
      /\ task[p].cur \in Copies
  BY DEF SkipViolated, ReserveShort, In
<1>3. task'[p] = [task[p] EXCEPT !.stage = "copy", !.trades = <<>>]
  BY <1>1, <1>2
<1>5. <<>> \in Seq(TradeType)
  BY EmptySeq
<1>4. task'[p] \in TaskType
  BY <1>1, <1>3, <1>5 DEF TaskType
<1> QED
  BY <1>1, <1>2, <1>3, <1>4 DEF Alone, NowAt, TaskType, Running

LEMMA SkipCopyTask ==
    ASSUME TypeInv, NEW p \in Placements, NEW r \in Relations, SkipCopy(p, r)
    PROVE  /\ task[p].stage = "copy" /\ Running(p) /\ Alone(p) /\ r \in task[p].todo
           /\ NowAt(p, "copy", task[p].cur, task[p].trades, task[p].todo \ {r})
           /\ task'[p].draft = task[p].draft
<1>1. p \in Tasks /\ task \in [Tasks -> TaskType] /\ task[p] \in TaskType
  BY DEF TypeInv, Tasks
<1> DEFINE rest == task[p].todo \ {r}
<1>2. task' = [task EXCEPT ![p].todo = rest] /\ task[p].stage = "copy" /\ r \in task[p].todo
  BY <1>1 DEF SkipCopy, NextCopy, In
<1>5. rest \in SUBSET (Levels \cup Relations)
  BY <1>1 DEF TaskType
<1> HIDE DEF rest
<1>3. task'[p] = [task[p] EXCEPT !.todo = rest]
  BY <1>1, <1>2
<1>4. task'[p] \in TaskType
  BY <1>1, <1>3, <1>5 DEF TaskType
<1>6. NowAt(p, "copy", task[p].cur, task[p].trades, rest) /\ task'[p].draft = task[p].draft
  BY <1>1, <1>2, <1>3 DEF NowAt, TaskType
<1> QED
  BY <1>1, <1>2, <1>4, <1>6 DEF Alone, Running, rest

LEMMA CopyTask ==
    ASSUME TypeInv, NEW p \in Placements, NEW r \in Relations, Copy(p, r)
    PROVE  /\ task[p].stage = "copy" /\ Running(p) /\ Alone(p) /\ r \in task[p].todo
           /\ NowAt(p, "reserve", <<p, r>>, task[p].trades, task[p].todo \ {r})
           /\ task'[p].draft = task[p].draft
<1>1. p \in Tasks /\ task \in [Tasks -> TaskType] /\ task[p] \in TaskType
  BY DEF TypeInv, Tasks
<1> DEFINE rest == task[p].todo \ {r}
           c == <<p, r>>
<1>2. task' = [task EXCEPT ![p].todo = rest, ![p].stage = "reserve", ![p].cur = c]
      /\ task[p].stage = "copy" /\ r \in task[p].todo
  BY <1>1 DEF Copy, NextCopy, In
<1>5. rest \in SUBSET (Levels \cup Relations) /\ c \in Orders
  BY <1>1, OrderKinds DEF TaskType, Orders, Clients
<1> HIDE DEF rest, c
<1>3. task'[p] = [task[p] EXCEPT !.todo = rest, !.stage = "reserve", !.cur = c]
  BY <1>1, <1>2
<1>4. task'[p] \in TaskType
  BY <1>1, <1>3, <1>5 DEF TaskType
<1>6. NowAt(p, "reserve", c, task[p].trades, rest) /\ task'[p].draft = task[p].draft
  BY <1>1, <1>2, <1>3 DEF NowAt, TaskType
<1> QED
  BY <1>1, <1>2, <1>4, <1>6 DEF Alone, Running, rest, c

LEMMA AfterTradesFields ==
    ASSUME NEW tk \in TaskType
    PROVE  LET tk2 == AfterTrades(tk) IN
           /\ tk2 \in TaskType /\ tk2.cur = tk.cur /\ tk2.trades = tk.trades /\ tk2.draft = tk.draft
           /\ tk2.stage = (IF tk.trades # <<>> THEN "settle" ELSE "copy")
           /\ tk2.todo = (IF tk.trades # <<>> THEN tk.todo ELSE tk.todo \cup Copied(tk.cur))
<1> DEFINE tk2 == AfterTrades(tk)
           todo == tk.todo \cup Copied(tk.cur)
<1>1. todo \in SUBSET (Levels \cup Relations)
  BY DEF TaskType, Copied, Active
<1>2. CASE tk.trades # <<>>
  <2>1. tk2 = [tk EXCEPT !.stage = "settle"]
    BY <1>2 DEF AfterTrades
  <2> HIDE DEF tk2
  <2>2. tk2 \in TaskType
    BY <2>1 DEF TaskType
  <2> QED
    BY <1>2, <2>1, <2>2 DEF TaskType, tk2
<1>3. CASE tk.trades = <<>>
  <2>1. tk2 = [tk EXCEPT !.stage = "copy", !.todo = todo]
    BY <1>3 DEF AfterTrades
  <2> HIDE DEF tk2, todo
  <2>2. tk2 \in TaskType
    BY <1>1, <2>1 DEF TaskType
  <2>3. /\ tk2.cur = tk.cur /\ tk2.trades = tk.trades /\ tk2.draft = tk.draft
        /\ tk2.stage = "copy" /\ tk2.todo = todo
    BY <2>1 DEF TaskType
  <2> QED
    BY <1>3, <2>2, <2>3 DEF tk2, todo
<1> QED
  BY <1>2, <1>3

\* The row of an order that has just been matched.
EngineRow(o) ==
    [status |-> StatusOf(fill[o], SizeOf(o)), filled |-> fill[o], settled |-> 0, paid |-> 0]

LEMMA RowTypes ==
    /\ \A o \in Clients : TypeInv => EngineRow(o) \in RowType
    /\ \A row \in RowType, n \in Nat, s \in Nat : SettledRow(row, n, s) \in RowType
    /\ \A f \in Nat, s \in Nat : StatusOf(f, s) \in Open \cup {"FILLED"}
    /\ NoRow \in RowType
<1>1. \A f, s : StatusOf(f, s) \in Open \cup {"FILLED"}
  BY DEF StatusOf, Open
<1>2. \A row \in RowType, n \in Nat, s \in Nat : SettledRow(row, n, s) \in RowType
  BY SettledFields
<1> QED
  BY <1>1, <1>2 DEF EngineRow, RowType, NoRow, TypeInv, Open

\* Where a task stands when it has written a row of its order.
After(p, trades) ==
    NowAt(p, IF trades # <<>> THEN "settle" ELSE "copy", task[p].cur, trades,
          IF trades # <<>> THEN task[p].todo ELSE task[p].todo \cup Copied(task[p].cur))

LEMMA MatchedRow ==
    ASSUME NEW s, NEW f
    PROVE  [NoRow EXCEPT !.status = s, !.filled = f] =
             [status |-> s, filled |-> f, settled |-> 0, paid |-> 0]
<1>1. [NoRow EXCEPT !.status = s] = [status |-> s, filled |-> 0, settled |-> 0, paid |-> 0]
  BY DEF NoRow
<1>2. [[status |-> s, filled |-> 0, settled |-> 0, paid |-> 0] EXCEPT !.filled = f] =
        [status |-> s, filled |-> f, settled |-> 0, paid |-> 0]
  OBVIOUS
<1> QED
  BY <1>1, <1>2

LEMMA InsertTask ==
    ASSUME TypeInv, TaskInv, NEW p \in Placements, Insert(p)
    PROVE  /\ task[p].stage = "insert" /\ Running(p) /\ Alone(p)
           /\ After(p, task[p].trades)
           /\ task'[p].draft = [task[p].draft EXCEPT ![task[p].cur] = EngineRow(task[p].cur)]
<1> DEFINE o == task[p].cur
           draft == [task[p].draft EXCEPT ![o] = EngineRow(o)]
           tk == [task[p] EXCEPT !.draft = draft]
<1>1. task[p].stage = "insert" /\ Running(p)
  BY DEF Insert, In, Running
<1>2. p \in Tasks /\ task[p] \in TaskType /\ o \in Clients /\ o \in Orders
      /\ task \in [Tasks -> TaskType]
  BY <1>1, PlacementCur DEF TypeInv
<1>3. draft \in [Orders -> RowType]
  BY <1>2, RowTypes DEF TaskType
<1>4. task' = [task EXCEPT ![p] = AfterTrades([task[p] EXCEPT !.draft[o] = EngineRow(o)])]
  <2> DEFINE row == [NoRow EXCEPT !.status = StatusOf(fill[o], SizeOf(o)), !.filled = fill[o]]
  <2>1. row = EngineRow(o)
    BY MatchedRow DEF EngineRow
  <2>2. task' = [task EXCEPT ![p] = AfterTrades([task[p] EXCEPT !.draft[o] = row])]
    BY DEF Insert
  <2> HIDE DEF row, o
  <2> QED
    BY <2>1, <2>2
<1>5. [task[p] EXCEPT !.draft[o] = EngineRow(o)] = tk
  BY <1>2 DEF TaskType
<1>6. task' = [task EXCEPT ![p] = AfterTrades(tk)]
  BY <1>4, <1>5
<1> HIDE DEF draft
<1>7. tk \in TaskType
  BY <1>2, <1>3 DEF TaskType
<1>8. /\ tk.cur = o /\ tk.trades = task[p].trades /\ tk.draft = draft /\ tk.todo = task[p].todo
  BY <1>2 DEF TaskType
<1> HIDE DEF tk
<1>9. task'[p] = AfterTrades(tk)
  BY <1>2, <1>6
<1>10. AfterTrades(tk) \in TaskType
  BY <1>7, AfterTradesFields
<1>11. Alone(p)
  BY <1>2, <1>6, <1>10 DEF Alone
<1>12. After(p, task[p].trades) /\ task'[p].draft = draft
  BY <1>7, <1>8, <1>9, AfterTradesFields DEF After, NowAt
<1> QED
  BY <1>1, <1>11, <1>12 DEF draft

LEMMA OverwrittenDraft ==
    ASSUME NEW t, NEW a, NEW b
    PROVE  [[t EXCEPT !.draft = a] EXCEPT !.draft = b] = [t EXCEPT !.draft = b]
  OBVIOUS

LEMMA SettleTask ==
    ASSUME TypeInv, TaskInv, NEW p \in Placements, Settle(p)
    PROVE  LET o == task[p].cur
               x == Head(task[p].trades)
               m == Visible(p, x.maker)
               d == task[p].draft
           IN
           /\ task[p].stage = "settle" /\ Running(p) /\ Alone(p)
           /\ task[p].trades # <<>> /\ x \in TradeType /\ Tail(task[p].trades) \in Seq(TradeType)
           /\ o \in Clients /\ d[o] # NoRow /\ m # NoRow /\ m \in RowType
           /\ After(p, Tail(task[p].trades))
           /\ task'[p].draft =
                [d EXCEPT ![o] = Bought(d[o], x.quantity, CostOf(x)),
                          ![x.maker] = SettledRow(m, x.quantity, LevelSize)]
           /\ wallet[Desk].locked >= x.quantity
<1> DEFINE o == task[p].cur
           x == Head(task[p].trades)
           m == Visible(p, x.maker)
           d == task[p].draft
           row == Bought(d[o], x.quantity, CostOf(x))
           draft == [d EXCEPT ![o] = row, ![x.maker] = SettledRow(m, x.quantity, LevelSize)]
           rest == Tail(task[p].trades)
           tk == [task[p] EXCEPT !.trades = rest, !.draft = draft]
<1>1. task[p].stage = "settle" /\ Running(p)
  BY DEF Settle, In, Running
<1>2. p \in Tasks /\ task[p] \in TaskType /\ o \in Clients /\ o \in Orders
      /\ task \in [Tasks -> TaskType]
  BY <1>1, PlacementCur DEF TypeInv
<1>3. task[p].trades # <<>> /\ d[o] # NoRow
  BY <1>1 DEF TaskInv, PlacementShape
<1>4. d \in [Orders -> RowType] /\ task[p].trades \in AnyTrades(Quotes)
  BY <1>2 DEF TaskType, AnyTrades, TradeType
<1>5. rest \in AnyTrades(Quotes) /\ x.maker \in Quotes /\ x.quantity \in Nat \ {0} /\ x \in TradeType
  <2>1. rest \in AnyTrades(Quotes) /\ x.maker \in Quotes /\ x.quantity \in Nat \ {0}
    BY <1>3, <1>4, FirstTrade
  <2>2. x \in TradeType
    BY <1>3, <1>4, HeadTailProperties DEF AnyTrades, TradeType
  <2> QED
    BY <2>1, <2>2
<1>6. x.maker \in Orders /\ x.maker # o /\ SizeOf(x.maker) = LevelSize /\ LevelSize \in Nat
  BY <1>2, <1>5, OrderKinds, DeskAssumption
<1>7. m # NoRow /\ m \in RowType
  BY <1>4, <1>6 DEF Settle, Deal, Visible, TypeInv
<1>8. row \in RowType /\ SettledRow(m, x.quantity, LevelSize) \in RowType
  <2>1. d[o] \in RowType
    BY <1>2, <1>4
  <2>2. x.quantity \in Nat /\ CostOf(x) \in Nat
    BY <1>2, <1>5, CostBound
  <2>3. row \in RowType
    BY <2>1, <2>2, BoughtFields
  <2> QED
    BY <2>3, <1>5, <1>6, <1>7, RowTypes
<1>9. draft \in [Orders -> RowType]
  BY <1>2, <1>4, <1>6, <1>8
<1>10. task' = [task EXCEPT ![p] = AfterTrades(
                 [task[p] EXCEPT !.trades = rest, !.draft[o].settled = @ + x.quantity,
                                 !.draft[o].paid = @ + CostOf(x),
                                 !.draft[x.maker] = SettledRow(m, x.quantity, SizeOf(x.maker))])]
  BY DEF Settle, Deal
<1>11. [task[p] EXCEPT !.trades = rest, !.draft[o].settled = @ + x.quantity,
                       !.draft[o].paid = @ + CostOf(x),
                       !.draft[x.maker] = SettledRow(m, x.quantity, SizeOf(x.maker))] = tk
  <2> DEFINE c == CostOf(x)
             new == SettledRow(m, x.quantity, SizeOf(x.maker))
  <2>1. d[o] \in RowType /\ new = SettledRow(m, x.quantity, LevelSize)
    BY <1>2, <1>4, <1>6
  <2>2. row = [[d[o] EXCEPT !.settled = d[o].settled + x.quantity] EXCEPT !.paid = d[o].paid + c]
    BY <2>1 DEF Bought, RowType
  <2>3. draft = [[[d EXCEPT ![o].settled = d[o].settled + x.quantity] EXCEPT ![o].paid = d[o].paid + c]
                   EXCEPT ![x.maker] = new]
    <3> HIDE DEF new, c
    <3> QED
      BY <1>2, <1>4, <1>6, <2>1, <2>2
  <2> DEFINE n == x.quantity
             k == x.maker
             t0 == [task[p] EXCEPT !.trades = rest]
             d1 == [d EXCEPT ![o].settled = d[o].settled + n]
             d2 == [d1 EXCEPT ![o].paid = d[o].paid + c]
             d3 == [d2 EXCEPT ![k] = new]
             t1 == [t0 EXCEPT !.draft[o].settled = d[o].settled + n]
             t2 == [t1 EXCEPT !.draft[o].paid = d[o].paid + c]
             t3 == [t2 EXCEPT !.draft[k] = new]
  <2>4. t0.draft = d /\ "draft" \in DOMAIN t0
    <3> HIDE DEF rest, x, o
    <3> QED
      BY <1>2 DEF TaskType
  <2>5. draft = d3
    BY <2>3
  <2>6. tk = [t0 EXCEPT !.draft = d3]
    <3> HIDE DEF d3, draft, rest
    <3> QED
      BY <2>5
  <2> HIDE DEF new, c, n, k, o, x, rest, draft, t0, d, tk
  <2>7. t1 = [t0 EXCEPT !.draft = d1]
    BY <2>4
  <2>8. t1.draft = d1 /\ "draft" \in DOMAIN t1
    <3> HIDE DEF d1, t1
    <3> QED
      BY <2>4, <2>7
  <2>9. t2 = [t1 EXCEPT !.draft = d2]
    <3> HIDE DEF d1, t1
    <3> QED
      BY <2>8
  <2>10. t2.draft = d2 /\ "draft" \in DOMAIN t2
    <3> HIDE DEF d2, t1, t2
    <3> QED
      BY <2>8, <2>9
  <2>11. t3 = [t2 EXCEPT !.draft = d3]
    <3> HIDE DEF d2, t2
    <3> QED
      BY <2>10
  <2> HIDE DEF d1, d2, d3, t1, t2, t3
  <2>12. t3 = [t0 EXCEPT !.draft = d3]
    <3>1. t2 = [t0 EXCEPT !.draft = d2]
      BY <2>7, <2>9, OverwrittenDraft
    <3> QED
      BY <3>1, <2>11, OverwrittenDraft
  <2>13. t3 = tk
    BY <2>6, <2>12
  <2> QED
    BY <2>13 DEF t0, t1, t2, t3, new, c, n, k, o, x, d, rest
<1>12. task' = [task EXCEPT ![p] = AfterTrades(tk)]
  BY <1>10, <1>11
<1> HIDE DEF draft, rest, x, m
<1>13. tk \in TaskType
  BY <1>2, <1>5, <1>9 DEF TaskType, AnyTrades, TradeType
<1>14. tk.cur = o /\ tk.trades = rest /\ tk.draft = draft /\ tk.todo = task[p].todo
  BY <1>2 DEF TaskType
<1> HIDE DEF tk
<1>15. task'[p] = AfterTrades(tk)
  BY <1>2, <1>12
<1>16. AfterTrades(tk) \in TaskType
  BY <1>13, AfterTradesFields
<1>17. Alone(p)
  BY <1>2, <1>12, <1>16 DEF Alone
<1>18. After(p, rest) /\ task'[p].draft = draft
  BY <1>13, <1>14, <1>15, AfterTradesFields DEF After, NowAt
<1>19. rest \in Seq(TradeType)
  BY <1>5 DEF AnyTrades, TradeType
<1>20. wallet[Desk].locked >= x.quantity
  BY DEF Settle, Deal, x
<1> QED
  BY <1>1, <1>2, <1>3, <1>5, <1>7, <1>17, <1>18, <1>19, <1>20 DEF draft, rest, x, m

\* A task that has just ended.
EndedTask(t) ==
    /\ task'[t].stage \in {"ready", "done", "failed"} /\ ~Running(t)' /\ Idle(t)'
    /\ task'[t].stage = "ready" => t = Tick

LEMMA AfterEndFields ==
    \A t : /\ AfterEnd(t) \in TaskType
           /\ AfterEnd(t).stage \in {"ready", "failed"}
           /\ AfterEnd(t).stage = "ready" <=> t = Tick
           /\ AfterEnd(t).cur = None /\ AfterEnd(t).trades = <<>> /\ AfterEnd(t).todo = {}
           /\ \A o \in Orders : AfterEnd(t).draft[o] = NoRow
BY FreshFields DEF AfterEnd

LEMMA AbortTask ==
    ASSUME TypeInv, NEW t \in Tasks, Abort(t)
    PROVE  /\ Alone(t) /\ EndedTask(t) /\ task'[t].stage \in {"ready", "failed"}
           /\ \A u \in Holders : wallet'[u] = IF holder[u] = t THEN committed[u] ELSE wallet[u]
           /\ \A u \in Holders : holder'[u] = IF holder[u] = t THEN None ELSE holder[u]
<1>1. task' = [task EXCEPT ![t] = AfterEnd(t)] /\ task \in [Tasks -> TaskType]
  BY DEF Abort, TypeInv
<1>2. task'[t] = AfterEnd(t) /\ Alone(t)
  BY <1>1, AfterEndFields DEF Alone
<1>3. /\ task'[t].stage \in {"ready", "failed"} /\ (task'[t].stage = "ready" => t = Tick)
      /\ task'[t].cur = None /\ task'[t].trades = <<>> /\ task'[t].todo = {}
      /\ \A o \in Orders : task'[t].draft[o] = NoRow
  BY <1>2, AfterEndFields
<1>4. EndedTask(t)
  BY <1>3 DEF EndedTask, Running, Idle
<1> QED
  BY <1>2, <1>3, <1>4 DEF Abort, Unlock

LEMMA CommitTask ==
    ASSUME TypeInv, NEW t \in Tasks, NEW stage \in {"ready", "done"}, stage = "ready" => t = Tick,
           Commit(t, stage)
    PROVE  /\ Alone(t) /\ EndedTask(t) /\ task'[t].stage = stage
           /\ \A o \in Orders : rows'[o] = Visible(t, o)
           /\ \A u \in Holders : committed'[u] = IF holder[u] = t THEN wallet[u] ELSE committed[u]
           /\ \A u \in Holders : holder'[u] = IF holder[u] = t THEN None ELSE holder[u]
<1>1. task' = [task EXCEPT ![t] = Ended(stage)] /\ task \in [Tasks -> TaskType]
  BY DEF Commit, TypeInv
<1>2. task'[t] = Ended(stage) /\ Alone(t)
  BY <1>1, FreshFields DEF Alone
<1>3. /\ task'[t].stage = stage
      /\ task'[t].cur = None /\ task'[t].trades = <<>> /\ task'[t].todo = {}
      /\ \A o \in Orders : task'[t].draft[o] = NoRow
  BY <1>2, FreshFields
<1>4. EndedTask(t)
  BY <1>3 DEF EndedTask, Running, Idle
<1> QED
  BY <1>2, <1>3, <1>4 DEF Commit, Unlock

\* The steps that end with a rollback.
LEMMA Aborts ==
    ASSUME TypeInv, TaskInv
    PROVE  /\ \A p \in Placements :
                Refused(p) \/ NoMaker(p) \/ Violated(p) \/ Victim(p) => Running(p) /\ Abort(p)
           /\ \A d \in DeskTasks : WalletTaken(d) \/ DeskShort(d) => Running(d) /\ Abort(d)
           /\ \A t \in Tasks : Fail(t) => Running(t) /\ Abort(t)
<1>1. ASSUME NEW p \in Placements, Victim(p) PROVE Running(p)
  <2>1. PICK S \in SUBSET Placements : p \in S /\ \A x \in S : WaitsFor(x) \cap S # {}
    BY <1>1 DEF Victim, Deadlocked
  <2>2. WaitsFor(p) # {}
    BY <2>1
  <2> QED
    BY <2>2 DEF WaitsFor, Running, In
<1> QED
  BY <1>1 DEF Refused, NoMaker, Violated, ReserveShort, Victim, WalletTaken, DeskShort, Fail, In, At,
              Running

LEMMA RestartTask ==
    ASSUME TypeInv, Restart
    PROVE  /\ task' \in [Tasks -> TaskType]
           /\ \A t \in Tasks : IF Running(t) THEN EndedTask(t) /\ task'[t].stage \in {"ready", "failed"}
                               ELSE task'[t] = task[t]
           /\ \A u \in Holders : wallet'[u] = committed[u] /\ holder'[u] = None
<1>1. task' = [t \in Tasks |-> IF Running(t) THEN AfterEnd(t) ELSE task[t]]
      /\ task \in [Tasks -> TaskType]
  BY DEF Restart, TypeInv
<1>2. task' \in [Tasks -> TaskType]
  BY <1>1, AfterEndFields
<1>3. ASSUME NEW t \in Tasks, Running(t) PROVE EndedTask(t) /\ task'[t].stage \in {"ready", "failed"}
  <2>1. task'[t] = AfterEnd(t)
    BY <1>1, <1>3
  <2>3. /\ task'[t].stage \in {"ready", "failed"} /\ (task'[t].stage = "ready" => t = Tick)
        /\ task'[t].cur = None /\ task'[t].trades = <<>> /\ task'[t].todo = {}
        /\ \A o \in Orders : task'[t].draft[o] = NoRow
    BY <2>1, AfterEndFields
  <2> QED
    BY <2>3 DEF EndedTask, Running, Idle
<1> QED
  BY <1>1, <1>2, <1>3 DEF Restart

\* What a cancelled order leaves on the book.
LEMMA CancelEffect ==
    ASSUME TypeInv, BookInv, NEW o \in Clients, CancelOrder(o)
    PROVE  /\ book' \in [buy : Seq(Clients), sell : Seq(Quotes)] /\ BookInv'
           /\ left' \in [Orders -> Nat] /\ left'[o] = 0
           /\ \A x \in Orders \ {o} : left'[x] = left[x]
<1>1. o \in Orders /\ left \in [Orders -> Nat] /\ book \in [buy : Seq(Clients), sell : Seq(Quotes)]
  BY OrderKinds DEF TypeInv
<1>2. left' = [left EXCEPT ![o] = 0] /\ book' = [book EXCEPT !.buy = Without(book.buy, o)]
  BY <1>1 DEF CancelOrder
<1>3. /\ left' \in [Orders -> Nat] /\ left'[o] = 0
      /\ \A x \in Orders \ {o} : left'[x] = left[x]
  BY <1>1, <1>2
<1> DEFINE buy == Without(book.buy, o)
<1>4. Once(buy, Clients) /\ On(buy) = On(book.buy) \ {o}
  <2>1. Once(book.buy, Clients) /\ On(book.buy) = {x \in Clients : left[x] > 0}
    BY DEF BookInv
  <2>2. CASE OnBook(o)
    <3>1. o \in On(book.buy)
      BY <2>1, <2>2 DEF OnBook
    <3>2. \E i \in 1 .. Len(book.buy) : book.buy[i] = o
      BY <3>1 DEF On
    <3>3. DOMAIN book.buy = 1 .. Len(book.buy)
      BY <2>1, LenProperties DEF Once
    <3> DEFINE k == CHOOSE i \in DOMAIN book.buy : book.buy[i] = o
    <3>4. k \in 1 .. Len(book.buy) /\ book.buy[k] = o
      BY <3>2, <3>3
    <3>5. buy = RemoveAt(book.buy, k)
      BY <2>2 DEF Without
    <3> HIDE DEF k, buy
    <3> QED
      BY <2>1, <3>4, <3>5, Removed
  <2>3. CASE ~OnBook(o)
    <3>1. o \notin On(book.buy) /\ buy = book.buy
      BY <2>1, <2>3 DEF OnBook, Without
    <3> QED
      BY <2>1, <3>1
  <2> QED
    BY <2>2, <2>3
<1> HIDE DEF buy
<1>5. book'.buy = buy /\ book'.sell = book.sell /\ book' \in [buy : Seq(Clients), sell : Seq(Quotes)]
  BY <1>1, <1>2, <1>4 DEF Once, buy
<1>6. On(book'.buy) = {x \in Clients : left'[x] > 0}
  <2>1. On(book'.buy) = {x \in Clients : left[x] > 0} \ {o}
    BY <1>4, <1>5 DEF BookInv
  <2>2. \A x \in Clients : left'[x] > 0 <=> left[x] > 0 /\ x # o
    BY <1>3, OrderKinds
  <2> QED
    BY <2>1, <2>2
<1>7. On(book'.sell) = {q \in Quotes : left'[q] > 0}
  BY <1>3, <1>5, OrderKinds DEF BookInv
<1>8. Once(book'.buy, Clients) /\ Once(book'.sell, Quotes)
  BY <1>4, <1>5 DEF BookInv
<1>9. BookInv'
  BY <1>6, <1>7, <1>8 DEF BookInv, Once, On
<1> QED
  BY <1>3, <1>5, <1>9

\* The end of a task that commits.
Finish(t) ==
    /\ Running(t)
    /\ task[t].stage \in {"look", "copy"} /\ task[t].todo = {}
    /\ \E stage \in {"ready", "done"} : (stage = "ready" <=> t = Tick) /\ Commit(t, stage)

\* The steps, one for each way to change the state.
LEMMA Steps ==
    ASSUME TypeInv, TaskInv, Next
    PROVE  \/ \E d \in DeskTasks : StartRun(d) \/ TopUp(d)
           \/ \E d \in DeskTasks, l \in Levels : Satisfied(d, l) \/ Miss(d, l)
           \/ \E d \in DeskTasks, q \in Quotes, n \in Nat : q[1] \in Levels /\ AddAgain(d, q[1], q, n)
           \/ \E d \in DeskTasks, q \in Quotes, n \in Nat : q[1] \in Levels /\ Place(d, q[1], q, n)
           \/ \E p \in Placements : \/ Begin(p) \/ SkipPoor(p) \/ Insert(p) \/ Settle(p)
                                    \/ SkipViolated(p) \/ Reserve(p)
           \/ \E p \in Placements, r \in Relations : SkipCopy(p, r) \/ Copy(p, r)
           \/ \E t \in Tasks : Running(t) /\ Abort(t)
           \/ \E t \in Tasks : Finish(t)
           \/ \E o \in Clients : CancelOrder(o)
           \/ \E r \in Relations : FollowLook(r) \/ FollowCommit(r) \/ Unfollow(r)
           \/ Restart
<1>1. /\ \A d \in DeskTasks : d \in Tasks
      /\ \A p \in Placements : p \in Tasks /\ p \notin DeskTasks /\ p # Tick
  BY NameAssumption DEF DeskTasks, Tasks
<1>2. \A q \in Quotes : q[1] \in Levels
  BY DEF Quotes
<1>3. Len(book.buy) \in Nat /\ \A n \in 0 .. Len(book.buy) : n \in Nat
  BY LenProperties DEF TypeInv
<1>4. ASSUME NEW d \in DeskTasks, EndRun(d) PROVE Finish(d)
  BY <1>4, NameAssumption DEF EndRun, Finish, At, Running, DeskTasks
<1>5. ASSUME NEW p \in Placements, EndPlacement(p) PROVE Finish(p)
  BY <1>1, <1>5 DEF EndPlacement, Finish, In, Running
<1>6. ASSUME NEW d \in DeskTasks, DeskStep(d)
      PROVE  \/ TopUp(d) \/ (Running(d) /\ Abort(d))
             \/ \E l \in Levels : Satisfied(d, l) \/ Miss(d, l)
             \/ \E q \in Quotes, n \in Nat : q[1] \in Levels /\ AddAgain(d, q[1], q, n)
             \/ \E q \in Quotes, n \in Nat : q[1] \in Levels /\ Place(d, q[1], q, n)
             \/ Finish(d)
  <2>1. \/ TopUp(d) \/ WalletTaken(d) \/ DeskShort(d) \/ EndRun(d)
        \/ \E l \in Levels : Satisfied(d, l) \/ Miss(d, l)
        \/ \E q \in Quotes, n \in 0 .. Len(book.buy) : AddAgain(d, q[1], q, n) \/ Place(d, q[1], q, n)
    BY <1>6 DEF DeskStep
  <2> QED
    BY <2>1, <1>2, <1>3, <1>4, Aborts
<1>7. ASSUME NEW p \in Placements, PlacementStep(p)
      PROVE  \/ SkipPoor(p) \/ Insert(p) \/ Settle(p) \/ SkipViolated(p) \/ Reserve(p)
             \/ \E r \in Relations : SkipCopy(p, r) \/ Copy(p, r)
             \/ (Running(p) /\ Abort(p)) \/ Finish(p)
  <2>1. \/ Reserve(p) \/ Refused(p) \/ SkipPoor(p)
        \/ Insert(p) \/ Settle(p) \/ NoMaker(p) \/ Violated(p) \/ SkipViolated(p)
        \/ \E r \in Relations : SkipCopy(p, r) \/ Copy(p, r)
        \/ EndPlacement(p) \/ Victim(p)
    BY <1>7 DEF PlacementStep
  <2> QED
    BY <2>1, <1>5, Aborts
<1>8. Usual \subseteq Placements
  BY BoundsAssumption
<1>9. Tick \in DeskTasks /\ Boot \in DeskTasks
  BY DEF DeskTasks
<1>10. CASE TickSteps
  <2>1. StartRun(Tick) \/ DeskStep(Tick)
    BY <1>10 DEF TickSteps
  <2> QED
    BY <2>1, <1>1, <1>6, <1>9
<1>11. CASE TaskSteps
  <2>1. DeskStep(Boot) \/ \E p \in Placements : PlacementStep(p)
    BY <1>11 DEF TaskSteps
  <2>2. CASE DeskStep(Boot)
    BY <2>2, <1>1, <1>6, <1>9
  <2>3. CASE \E p \in Placements : PlacementStep(p)
    <3>1. PICK p \in Placements : PlacementStep(p)
      BY <2>3
    <3> QED
      BY <3>1, <1>1, <1>7
  <2> QED
    BY <2>1, <2>2, <2>3
<1>12. CASE \E p \in Usual : Begin(p)
  BY <1>12, <1>8
<1>13. CASE \E r \in Relations : FollowCommit(r)
  BY <1>13
<1>14. CASE Complicate
  <2>1. \/ StartRun(Boot)
        \/ \E p \in Placements \ Usual : Begin(p)
        \/ \E o \in Clients : CancelOrder(o)
        \/ \E r \in Relations : FollowLook(r) \/ Unfollow(r)
        \/ \E t \in Tasks : Fail(t)
        \/ Restart
    BY <1>14 DEF Complicate
  <2> QED
    BY <2>1, <1>9, Aborts
<1> QED
  BY <1>10, <1>11, <1>12, <1>13, <1>14 DEF Next

LEMMA LedgerTypes ==
    /\ \A w \in Ledger, n \in Int : Reserved(w, n) \in Ledger /\ Released(w, n) \in Ledger
    /\ \A w \in Ledger : RaisedBalance(w) \in Ledger
<1>1. \A w \in Ledger, n \in Int : Reserved(w, n) \in Ledger
  BY DEF Reserved, Ledger
<1>2. ASSUME NEW w \in Ledger, NEW n \in Int PROVE Released(w, n) \in Ledger
  <2> DEFINE part == IF n < w.locked THEN n ELSE w.locked
  <2>1. part \in Int /\ w.available \in Int /\ w.locked \in Int
    BY DEF Ledger
  <2>2. Released(w, n) = [available |-> w.available + part, locked |-> w.locked - part]
    BY DEF Released
  <2> HIDE DEF part
  <2> QED
    BY <2>1, <2>2 DEF Ledger
<1>3. \A w \in Ledger : RaisedBalance(w) \in Ledger
  BY DeskAssumption DEF RaisedBalance, Ledger
<1> QED
  BY <1>1, <1>2, <1>3

Kept == UNCHANGED <<memoryVars, dbVars, walletVars, used, followVars>>

LEMMA LockType ==
    ASSUME TypeInv, NEW t \in Tasks, NEW u \in Holders, Lock(t, u)
    PROVE  /\ holder' \in [Holders -> Tasks \cup {None}] /\ holder'[u] = t
           /\ \A v \in Holders \ {u} : holder'[v] = holder[v]
BY DEF TypeInv, Lock

LEMMA UnlockType ==
    ASSUME TypeInv, NEW t \in Tasks, Unlock(t)
    PROVE  /\ holder' \in [Holders -> Tasks \cup {None}]
           /\ \A u \in Holders : holder'[u] = IF holder[u] = t THEN None ELSE holder[u]
BY DEF TypeInv, Unlock

\* What the steps that touch a wallet do to it.
LEMMA WalletSteps ==
    ASSUME TypeInv, TaskInv
    PROVE  /\ \A d \in DeskTasks : TopUp(d) =>
                wallet' = [wallet EXCEPT ![Desk] = RaisedBalance(wallet[Desk])]
           /\ \A d \in DeskTasks : \A l, q, n : Place(d, l, q, n) =>
                wallet' = [wallet EXCEPT ![Desk] = Reserved(wallet[Desk], LevelSize)]
           /\ \A p \in Placements : \A n : ReserveAndMatch(p, task[p].cur, n) /\ Running(p) =>
                LET o == task[p].cur IN
                wallet' = [wallet EXCEPT ![UserOf(o)] = Reserved(wallet[UserOf(o)], ReserveOf(o, SizeOf(o)))]
<1>1. wallet \in [Holders -> Ledger] /\ Desk \in Holders
  BY DEF TypeInv, Holders
<1>2. \A p \in Placements : Running(p) => UserOf(task[p].cur) \in Holders
  BY PlacementCur
<1>3. \A d \in DeskTasks : TopUp(d) =>
        wallet' = [wallet EXCEPT ![Desk] = RaisedBalance(wallet[Desk])]
  BY <1>1 DEF TopUp
<1>4. \A d \in DeskTasks : \A l, q, n : Place(d, l, q, n) =>
        wallet' = [wallet EXCEPT ![Desk] = Reserved(wallet[Desk], LevelSize)]
  BY <1>1 DEF Place
<1>5. ASSUME NEW p \in Placements, NEW n, ReserveAndMatch(p, task[p].cur, n), Running(p)
      PROVE  wallet' = [wallet EXCEPT ![UserOf(task[p].cur)] =
                          Reserved(wallet[UserOf(task[p].cur)],
                                   ReserveOf(task[p].cur, SizeOf(task[p].cur)))]
  BY <1>1, <1>2, <1>5 DEF ReserveAndMatch
<1> QED
  BY <1>3, <1>4, <1>5

LEMMA SettleWallet ==
    ASSUME TypeInv, TaskInv, NEW p \in Placements, Settle(p)
    PROVE  LET u == UserOf(task[p].cur)
               n == Head(task[p].trades).quantity
           IN  /\ wallet' \in [Holders -> Ledger]
               /\ \A v \in Holders \ {u, Desk} : wallet'[v] = wallet[v]
               /\ \A v \in Holders : wallet'[v].available = wallet[v].available
               /\ wallet'[u].locked = wallet[u].locked - CostOf(Head(task[p].trades))
               /\ wallet'[Desk].locked = wallet[Desk].locked - n
<1> DEFINE u == UserOf(task[p].cur)
           n == Head(task[p].trades).quantity
           c == CostOf(Head(task[p].trades))
<1>1. Running(p)
  BY SettleTask
<1>2. u \in Holders /\ u # Desk /\ Desk \in Holders
  BY <1>1, PlacementCur DEF Holders
<1>3. wallet \in [Holders -> Ledger] /\ n \in Nat /\ c \in Nat
  BY SettleTask, CostBound DEF TypeInv, TradeType
<1>4. wallet' = [wallet EXCEPT ![u].locked = @ - c, ![Desk].locked = @ - n]
  BY DEF Settle, Deal
<1> HIDE DEF u, n, c
<1>5. wallet' = [wallet EXCEPT ![u] = [wallet[u] EXCEPT !.locked = wallet[u].locked - c],
                               ![Desk] = [wallet[Desk] EXCEPT !.locked = wallet[Desk].locked - n]]
  BY <1>2, <1>3, <1>4
<1>6. /\ [wallet[u] EXCEPT !.locked = wallet[u].locked - c] \in Ledger
      /\ [wallet[Desk] EXCEPT !.locked = wallet[Desk].locked - n] \in Ledger
  BY <1>2, <1>3 DEF Ledger
<1>7. /\ wallet'[u] = [wallet[u] EXCEPT !.locked = wallet[u].locked - c]
      /\ wallet'[Desk] = [wallet[Desk] EXCEPT !.locked = wallet[Desk].locked - n]
      /\ \A v \in Holders \ {u, Desk} : wallet'[v] = wallet[v]
      /\ wallet' \in [Holders -> Ledger]
  BY <1>2, <1>3, <1>5, <1>6
<1>8. /\ wallet'[u].locked = wallet[u].locked - c
      /\ wallet'[Desk].locked = wallet[Desk].locked - n
      /\ \A v \in Holders : wallet'[v].available = wallet[v].available
  BY <1>2, <1>3, <1>7 DEF Ledger
<1> QED
  BY <1>7, <1>8 DEF u, n, c

LEMMA TypeNext ==
    ASSUME TypeInv, BookInv, TaskInv, UsedInv, Next
    PROVE  TypeInv'
<1> USE DEF memoryVars, dbVars, walletVars, followVars
<1>0. /\ \A d \in DeskTasks : d \in Tasks
      /\ \A p \in Placements : p \in Tasks
      /\ Desk \in Holders /\ \A u \in Users : u \in Holders
      /\ wallet \in [Holders -> Ledger] /\ committed \in [Holders -> Ledger]
  BY DEF DeskTasks, Tasks, Holders, TypeInv
<1>1. ASSUME task' \in [Tasks -> TaskType], Kept PROVE TypeInv'
  BY <1>1 DEF TypeInv, Kept
<1>2. ASSUME NEW d \in DeskTasks, StartRun(d) PROVE TypeInv'
  BY <1>1, <1>2, StartRunTask DEF Alone, Kept, StartRun
<1>3. ASSUME NEW d \in DeskTasks, TopUp(d) PROVE TypeInv'
  <2>1. task' \in [Tasks -> TaskType]
    BY <1>3, TopUpTask DEF Alone
  <2>2. wallet' \in [Holders -> Ledger]
    BY <1>0, <1>3, WalletSteps, LedgerTypes
  <2>3. holder' \in [Holders -> Tasks \cup {None}]
    BY <1>0, <1>3, LockType DEF TopUp
  <2> QED
    BY <1>3, <2>1, <2>2, <2>3 DEF TopUp, TypeInv
<1>4. ASSUME NEW d \in DeskTasks, NEW l \in Levels, Satisfied(d, l) \/ Miss(d, l) PROVE TypeInv'
  <2>1. CASE Satisfied(d, l)
    <3>1. PICK q \in Quotes : TRUE
      BY <2>1 DEF Satisfied
    <3>2. task' \in [Tasks -> TaskType]
      BY <2>1, LevelTask DEF Alone
    <3> QED
      BY <1>1, <2>1, <3>2 DEF Kept, Satisfied
  <2>2. CASE Miss(d, l)
    BY <1>1, <2>2, MissTask DEF Alone, Kept, Miss
  <2> QED
    BY <1>4, <2>1, <2>2
<1>5. ASSUME NEW d \in DeskTasks, NEW q \in Quotes, NEW n \in Nat, q[1] \in Levels,
             AddAgain(d, q[1], q, n)
      PROVE  TypeInv'
  <2>1. task' \in [Tasks -> TaskType]
    BY <1>5, LevelTask DEF Alone
  <2>2. q \in Orders /\ left[q] = 0 /\ Sell(q, LevelSize, n)
    BY <1>5, OrderKinds DEF AddAgain, Missing, OnBook, TypeInv
  <2>3. /\ book' \in [buy : Seq(Clients), sell : Seq(Quotes)]
        /\ left' \in [Orders -> Nat] /\ fill' \in [Clients -> Nat]
    BY <2>2, SellEffect
  <2> QED
    BY <1>5, <2>1, <2>3 DEF AddAgain, TypeInv
<1>6. ASSUME NEW d \in DeskTasks, NEW q \in Quotes, NEW n \in Nat, q[1] \in Levels,
             Place(d, q[1], q, n)
      PROVE  TypeInv'
  <2>1. task' \in [Tasks -> TaskType]
    BY <1>6, PlaceTask DEF Alone
  <2>2. Sell(q, LevelSize, n) /\ left[q] = 0
    BY <1>6 DEF Place, NewQuote, UsedInv, Unused
  <2>3. /\ book' \in [buy : Seq(Clients), sell : Seq(Quotes)]
        /\ left' \in [Orders -> Nat] /\ fill' \in [Clients -> Nat]
    BY <1>6, <2>2, SellEffect
  <2>4. wallet' \in [Holders -> Ledger]
    BY <1>0, <1>6, WalletSteps, LedgerTypes, DeskAssumption
  <2>5. holder' \in [Holders -> Tasks \cup {None}]
    BY <1>0, <1>6, LockType DEF Place
  <2>6. used' \subseteq Quotes
    BY <1>6 DEF Place, TypeInv
  <2> QED
    BY <1>6, <2>1, <2>3, <2>4, <2>5, <2>6 DEF Place, TypeInv
<1>7. ASSUME NEW p \in Placements, Begin(p) PROVE TypeInv'
  BY <1>1, <1>7, BeginTask DEF Alone, Kept, Begin
<1>8. ASSUME NEW p \in Placements, SkipPoor(p) PROVE TypeInv'
  BY <1>1, <1>8, SkipPoorTask DEF Alone, Kept, SkipPoor
<1>9. ASSUME NEW p \in Placements, Insert(p) PROVE TypeInv'
  BY <1>1, <1>9, InsertTask DEF Alone, Kept, Insert
<1>10. ASSUME NEW p \in Placements, Settle(p) PROVE TypeInv'
  <2>1. task' \in [Tasks -> TaskType]
    BY <1>10, SettleTask DEF Alone
  <2>2. wallet' \in [Holders -> Ledger]
    BY <1>10, SettleWallet
  <2>3. holder' \in [Holders -> Tasks \cup {None}]
    BY <1>0, <1>10, LockType DEF Settle
  <2> QED
    BY <1>10, <2>1, <2>2, <2>3 DEF Settle, TypeInv
<1>11. ASSUME NEW p \in Placements, SkipViolated(p) PROVE TypeInv'
  <2>1. task' \in [Tasks -> TaskType]
    BY <1>11, SkipViolatedTask DEF Alone
  <2>3. holder' \in [Holders -> Tasks \cup {None}]
    BY <1>0, <1>11, LockType DEF SkipViolated
  <2> QED
    BY <1>11, <2>1, <2>3 DEF SkipViolated, TypeInv
<1>12. ASSUME NEW p \in Placements, Reserve(p) PROVE TypeInv'
  <2> DEFINE o == task[p].cur
  <2>1. PICK n \in 0 .. Len(book.sell) : ReserveAndMatch(p, o, n)
    BY <1>12 DEF Reserve
  <2>2. In(p, "reserve")
    BY <1>12 DEF Reserve
  <2>3. left[o] = 0 /\ Running(p) /\ task' \in [Tasks -> TaskType]
    BY <2>1, <2>2, ReserveTask DEF Alone
  <2>4. o \in Clients /\ UserOf(o) \in Holders /\ SizeOf(o) \in Nat
        /\ ReserveOf(o, SizeOf(o)) \in Int
    BY <2>3, PlacementCur, SizeNat, ReserveFacts
  <2>5. Buy(o, SizeOf(o), n)
    BY <2>1 DEF ReserveAndMatch
  <2>6. /\ book' \in [buy : Seq(Clients), sell : Seq(Quotes)]
        /\ left' \in [Orders -> Nat] /\ fill' \in [Clients -> Nat]
    BY <2>3, <2>4, <2>5, BuyEffect
  <2>7. wallet' \in [Holders -> Ledger]
    <3>1. wallet' = [wallet EXCEPT ![UserOf(o)] = Reserved(wallet[UserOf(o)], ReserveOf(o, SizeOf(o)))]
      BY <2>1, <2>3, WalletSteps
    <3> QED
      BY <1>0, <2>4, <3>1, LedgerTypes
  <2>8. holder' \in [Holders -> Tasks \cup {None}]
    BY <1>0, <2>1, <2>4, LockType DEF ReserveAndMatch
  <2> QED
    BY <1>12, <2>3, <2>6, <2>7, <2>8 DEF Reserve, TypeInv
<1>13. ASSUME NEW p \in Placements, NEW r \in Relations, SkipCopy(p, r) PROVE TypeInv'
  BY <1>1, <1>13, SkipCopyTask DEF Alone, Kept, SkipCopy
<1>14. ASSUME NEW p \in Placements, NEW r \in Relations, Copy(p, r) PROVE TypeInv'
  BY <1>1, <1>14, CopyTask DEF Alone, Kept, Copy
<1>15. ASSUME NEW t \in Tasks, Abort(t) PROVE TypeInv'
  <2>1. task' \in [Tasks -> TaskType]
    BY <1>15, AbortTask DEF Alone
  <2>2. wallet' \in [Holders -> Ledger]
    BY <1>0, <1>15 DEF Abort
  <2>3. holder' \in [Holders -> Tasks \cup {None}]
    BY <1>15, UnlockType DEF Abort
  <2> QED
    BY <1>15, <2>1, <2>2, <2>3 DEF Abort, TypeInv
<1>16. ASSUME NEW t \in Tasks, Finish(t) PROVE TypeInv'
  <2>1. PICK stage \in {"ready", "done"} : (stage = "ready" <=> t = Tick) /\ Commit(t, stage)
    BY <1>16 DEF Finish
  <2>2. task' \in [Tasks -> TaskType]
    BY <2>1, CommitTask DEF Alone
  <2>3. committed' \in [Holders -> Ledger]
    BY <1>0, <2>1 DEF Commit
  <2>4. holder' \in [Holders -> Tasks \cup {None}]
    BY <2>1, UnlockType DEF Commit
  <2>5. rows' \in [Orders -> RowType]
    <3>1. \A o \in Orders : Visible(t, o) \in RowType
      BY DEF TypeInv, TaskType, Visible
    <3> QED
      BY <2>1, <3>1 DEF Commit
  <2>6. opened' \in BOOLEAN
    BY <2>1 DEF Commit, TypeInv
  <2> QED
    BY <2>1, <2>2, <2>3, <2>4, <2>5, <2>6 DEF Commit, TypeInv
<1>17. ASSUME NEW o \in Clients, CancelOrder(o) PROVE TypeInv'
  <2>1. /\ book' \in [buy : Seq(Clients), sell : Seq(Quotes)] /\ left' \in [Orders -> Nat]
    BY <1>17, CancelEffect
  <2> DEFINE w == Released(wallet[UserOf(o)], ReserveOf(o, SizeOf(o) - rows[o].filled))
  <2>2. o \in Orders /\ UserOf(o) \in Holders /\ SizeOf(o) \in Nat
    BY <1>0, OrderKinds, SizeNat
  <2>3. rows[o].filled \in Nat
    BY <2>2 DEF TypeInv, RowType
  <2>8. ReserveOf(o, SizeOf(o) - rows[o].filled) \in Int
    BY <2>2, <2>3, ReserveFacts
  <2>4. w \in Ledger
    BY <1>0, <2>2, <2>8, LedgerTypes
  <2>5. wallet' = [wallet EXCEPT ![UserOf(o)] = w] /\ committed' = [committed EXCEPT ![UserOf(o)] = w]
    BY <1>17 DEF CancelOrder
  <2> HIDE DEF w
  <2>6. wallet' \in [Holders -> Ledger] /\ committed' \in [Holders -> Ledger]
    BY <1>0, <2>4, <2>5
  <2>7. rows' \in [Orders -> RowType]
    <3>1. rows' = [rows EXCEPT ![o] = [rows[o] EXCEPT !.status = "CANCELLED"]]
          /\ rows[o] \in RowType /\ rows \in [Orders -> RowType]
      BY <1>17, <2>2 DEF CancelOrder, TypeInv
    <3>2. [rows[o] EXCEPT !.status = "CANCELLED"] \in RowType
      BY <3>1 DEF RowType
    <3> QED
      BY <2>2, <3>1, <3>2
  <2> QED
    BY <1>17, <2>1, <2>6, <2>7 DEF CancelOrder, TypeInv
<1>18. ASSUME NEW r \in Relations, FollowLook(r) PROVE TypeInv'
  BY <1>18 DEF FollowLook, TypeInv
<1>19. ASSUME NEW r \in Relations, FollowCommit(r) PROVE TypeInv'
  BY <1>19 DEF FollowCommit, TypeInv
<1>20. ASSUME NEW r \in Relations, Unfollow(r) PROVE TypeInv'
  BY <1>20 DEF Unfollow, TypeInv
<1>21. CASE Restart
  <2>1. task' \in [Tasks -> TaskType]
    BY <1>21, RestartTask
  <2>2. wallet' \in [Holders -> Ledger] /\ committed' = committed
    BY <1>0, <1>21 DEF Restart
  <2>3. book' \in [buy : Seq(Clients), sell : Seq(Quotes)]
    <3>1. <<>> \in Seq(Clients) /\ <<>> \in Seq(Quotes)
      BY EmptySeq
    <3> QED
      BY <1>21, <3>1 DEF Restart
  <2>4. asking' \in [Relations -> {"idle", "adds", "revives", "done"}]
    BY <1>21 DEF Restart
  <2> QED
    BY <1>21, <2>1, <2>2, <2>3, <2>4 DEF Restart, TypeInv
<1> QED
  BY <1>2, <1>3, <1>4, <1>5, <1>6, <1>7, <1>8, <1>9, <1>10, <1>11, <1>12, <1>13, <1>14, <1>15,
     <1>16, <1>17, <1>18, <1>19, <1>20, <1>21, Steps

-----------------------------------------------------------------------------
(* The book.                                                               *)

\* The steps that change the engine's memory.
LEMMA MemorySteps ==
    ASSUME TypeInv, TaskInv, Next, ~UNCHANGED memoryVars
    PROVE  \/ \E d \in DeskTasks, q \in Quotes, n \in Nat : q[1] \in Levels /\ AddAgain(d, q[1], q, n)
           \/ \E d \in DeskTasks, q \in Quotes, n \in Nat : q[1] \in Levels /\ Place(d, q[1], q, n)
           \/ \E p \in Placements : Reserve(p)
           \/ \E o \in Clients : CancelOrder(o)
           \/ Restart
BY Steps DEF StartRun, TopUp, Satisfied, Miss, Begin, SkipPoor, Insert, Settle, SkipViolated,
     SkipCopy, Copy, Abort, Finish, Commit, FollowLook, FollowCommit, Unfollow

\* A placement's order is matched.
LEMMA ReserveBuys ==
    ASSUME TypeInv, BookInv, TaskInv, NEW p \in Placements, Reserve(p)
    PROVE  LET o == task[p].cur IN
           /\ o \in Clients /\ o \in ToMake(p) /\ SizeOf(o) \in Nat
           /\ Running(p) /\ left[o] = 0 /\ fill[o] = 0
           /\ \E n \in Nat : ReserveAndMatch(p, o, n) /\ Buy(o, SizeOf(o), n)
                             /\ n \in 0 .. Len(book.sell)
<1> DEFINE o == task[p].cur
<1>1. PICK n \in 0 .. Len(book.sell) : ReserveAndMatch(p, o, n)
  BY DEF Reserve
<1>2. In(p, "reserve")
  BY DEF Reserve
<1>3. left[o] = 0 /\ fill[o] = 0 /\ Running(p)
  BY <1>1, <1>2, ReserveTask
<1>4. o \in Clients /\ SizeOf(o) \in Nat
  BY <1>3, PlacementCur, SizeNat
<1>5. Len(book.sell) \in Nat
  BY LenProperties DEF TypeInv
<1>6. n \in Nat /\ Buy(o, SizeOf(o), n)
  BY <1>1, <1>5 DEF ReserveAndMatch
<1>7. o \in ToMake(p)
  BY <1>2 DEF ToMake, In
<1> QED
  BY <1>1, <1>3, <1>4, <1>6, <1>7

\* A run adds an order to the book.
LEMMA RunSells ==
    ASSUME TypeInv, BookInv, UsedInv, NEW d, NEW l, NEW q \in Quotes, NEW n,
           AddAgain(d, l, q, n) \/ Place(d, l, q, n)
    PROVE  q \in Orders /\ left[q] = 0 /\ Sell(q, LevelSize, n)
<1>1. q \in Orders /\ left[q] \in Nat
  BY OrderKinds DEF TypeInv
<1>2. CASE AddAgain(d, l, q, n)
  BY <1>1, <1>2 DEF AddAgain, Missing, OnBook
<1>3. CASE Place(d, l, q, n)
  BY <1>1, <1>3 DEF Place, NewQuote, UsedInv, Unused
<1> QED
  BY <1>2, <1>3

LEMMA BookNext ==
    ASSUME TypeInv, BookInv, TaskInv, UsedInv, Next
    PROVE  BookInv'
<1>1. CASE UNCHANGED memoryVars
  BY <1>1 DEF memoryVars, BookInv, Once, On
<1>2. ASSUME NEW d \in DeskTasks, NEW q \in Quotes, NEW n \in Nat,
             AddAgain(d, q[1], q, n) \/ Place(d, q[1], q, n)
      PROVE  BookInv'
  BY <1>2, RunSells, SellEffect
<1>3. ASSUME NEW p \in Placements, Reserve(p) PROVE BookInv'
  BY <1>3, ReserveBuys, BuyEffect
<1>4. ASSUME NEW o \in Clients, CancelOrder(o) PROVE BookInv'
  BY <1>4, CancelEffect
<1>5. CASE Restart
  <2>1. book' = [buy |-> <<>>, sell |-> <<>>] /\ left' = [o \in Orders |-> 0]
    BY <1>5 DEF Restart
  <2>2. \A S : Once(<<>>, S) /\ On(<<>>) = {}
    BY EmptySeq DEF Once, On
  <2>3. {o \in Clients : left'[o] > 0} = {} /\ {q \in Quotes : left'[q] > 0} = {}
    BY <2>1, OrderKinds
  <2>4. book'.buy = <<>> /\ book'.sell = <<>>
    BY <2>1
  <2>5. /\ Once(book'.buy, Clients) /\ On(book'.buy) = {o \in Clients : left'[o] > 0}
        /\ Once(book'.sell, Quotes) /\ On(book'.sell) = {q \in Quotes : left'[q] > 0}
    BY <2>2, <2>3, <2>4
  <2> QED
    BY <2>5 DEF BookInv, Once, On
<1> QED
  BY <1>1, <1>2, <1>3, <1>4, <1>5, MemorySteps

\* What a step does to the rows and trades of a task.
LEMMA DraftSteps ==
    ASSUME TypeInv, BookInv, TaskInv, Next, NEW t \in Tasks
    PROVE  \/ /\ task'[t].draft = task[t].draft
              /\ task'[t].trades = task[t].trades \/ task'[t].trades = <<>>
           \/ EndedTask(t)
           \/ /\ t \in Placements /\ Reserve(t) /\ task'[t].draft = task[t].draft
              /\ \E n \in Nat : /\ Buy(task[t].cur, SizeOf(task[t].cur), n)
                                /\ task'[t].trades = TradesOf(book.sell, SizeOf(task[t].cur), n)
           \/ /\ t \in Placements /\ Insert(t) /\ task'[t].trades = task[t].trades
              /\ task'[t].draft = [task[t].draft EXCEPT ![task[t].cur] = EngineRow(task[t].cur)]
           \/ t \in Placements /\ Settle(t)
           \/ /\ t \in DeskTasks /\ task'[t].trades = task[t].trades
              /\ \E q \in Quotes, n \in Nat :
                   /\ q[1] \in Levels /\ Place(t, q[1], q, n)
                   /\ task'[t].draft = [task[t].draft EXCEPT ![q] = NewRow]
<1> DEFINE Same == /\ task'[t].draft = task[t].draft
                   /\ task'[t].trades = task[t].trades \/ task'[t].trades = <<>>
           Goal == \/ Same
                   \/ EndedTask(t)
                   \/ /\ t \in Placements /\ Reserve(t) /\ task'[t].draft = task[t].draft
                      /\ \E n \in Nat : /\ Buy(task[t].cur, SizeOf(task[t].cur), n)
                                        /\ task'[t].trades = TradesOf(book.sell, SizeOf(task[t].cur), n)
                   \/ /\ t \in Placements /\ Insert(t) /\ task'[t].trades = task[t].trades
                      /\ task'[t].draft = [task[t].draft EXCEPT ![task[t].cur] = EngineRow(task[t].cur)]
                   \/ t \in Placements /\ Settle(t)
                   \/ /\ t \in DeskTasks /\ task'[t].trades = task[t].trades
                      /\ \E q \in Quotes, n \in Nat :
                           /\ q[1] \in Levels /\ Place(t, q[1], q, n)
                           /\ task'[t].draft = [task[t].draft EXCEPT ![q] = NewRow]
<1>1. ASSUME NEW s, Alone(s), s # t PROVE Goal
  BY <1>1 DEF Alone
<1>2. ASSUME UNCHANGED task PROVE Goal
  BY <1>2
<1>3. ASSUME NEW d \in DeskTasks, StartRun(d) \/ TopUp(d) PROVE Goal
  <2>1. Alone(d) /\ task'[d].draft = task[d].draft /\ task'[d].trades = task[d].trades
    BY <1>3, StartRunTask, TopUpTask DEF NowAt
  <2> QED
    BY <1>1, <2>1
<1>4. ASSUME NEW d \in DeskTasks, NEW l \in Levels, Satisfied(d, l) \/ Miss(d, l) PROVE Goal
  <2>1. CASE Satisfied(d, l)
    <3>1. PICK q \in Quotes : TRUE
      BY <2>1 DEF Satisfied
    <3>2. Alone(d) /\ task'[d].draft = task[d].draft /\ task'[d].trades = task[d].trades
      BY <2>1, LevelTask DEF NowAt
    <3> QED
      BY <1>1, <3>2
  <2>2. CASE Miss(d, l)
    <3>2. Alone(d) /\ task'[d].draft = task[d].draft /\ task'[d].trades = task[d].trades
      BY <2>2, MissTask DEF NowAt
    <3> QED
      BY <1>1, <3>2
  <2> QED
    BY <1>4, <2>1, <2>2
<1>5. ASSUME NEW d \in DeskTasks, NEW q \in Quotes, NEW n \in Nat, q[1] \in Levels,
             AddAgain(d, q[1], q, n)
      PROVE  Goal
  <2>1. Alone(d) /\ task'[d].draft = task[d].draft /\ task'[d].trades = task[d].trades
    BY <1>5, LevelTask DEF NowAt
  <2> QED
    BY <1>1, <2>1
<1>6. ASSUME NEW d \in DeskTasks, NEW q \in Quotes, NEW n \in Nat, q[1] \in Levels,
             Place(d, q[1], q, n)
      PROVE  Goal
  <2>1. Alone(d) /\ task'[d].draft = [task[d].draft EXCEPT ![q] = NewRow]
        /\ task'[d].trades = task[d].trades
    BY <1>6, PlaceTask DEF NowAt
  <2> QED
    BY <1>1, <1>6, <2>1
<1>7. ASSUME NEW p \in Placements, Begin(p) \/ SkipPoor(p) \/ SkipViolated(p) PROVE Goal
  <2>1. Alone(p) /\ task'[p].draft = task[p].draft
        /\ (task'[p].trades = task[p].trades \/ task'[p].trades = <<>>)
    BY <1>7, BeginTask, SkipPoorTask, SkipViolatedTask DEF NowAt
  <2> QED
    BY <1>1, <2>1
<1>8. ASSUME NEW p \in Placements, Insert(p) PROVE Goal
  <2>1. Alone(p) /\ task'[p].draft = [task[p].draft EXCEPT ![task[p].cur] = EngineRow(task[p].cur)]
        /\ task'[p].trades = task[p].trades
    BY <1>8, InsertTask DEF After, NowAt
  <2> QED
    BY <1>1, <1>8, <2>1
<1>9. ASSUME NEW p \in Placements, Settle(p) PROVE Goal
  <2>1. Alone(p)
    BY <1>9, SettleTask
  <2> QED
    BY <1>1, <1>9, <2>1
<1>10. ASSUME NEW p \in Placements, Reserve(p) PROVE Goal
  <2>1. PICK n \in Nat : ReserveAndMatch(p, task[p].cur, n) /\ Buy(task[p].cur, SizeOf(task[p].cur), n)
    BY <1>10, ReserveBuys
  <2>2. Alone(p) /\ task'[p].trades = TradesOf(book.sell, SizeOf(task[p].cur), n)
        /\ task'[p].draft = task[p].draft
    BY <1>10, <2>1, ReserveTask DEF Reserve, NowAt
  <2> QED
    BY <1>1, <1>10, <2>1, <2>2
<1>11. ASSUME NEW p \in Placements, NEW r \in Relations, SkipCopy(p, r) \/ Copy(p, r) PROVE Goal
  <2>1. Alone(p) /\ task'[p].draft = task[p].draft /\ task'[p].trades = task[p].trades
    BY <1>11, SkipCopyTask, CopyTask DEF NowAt
  <2> QED
    BY <1>1, <2>1
<1>12. ASSUME NEW s \in Tasks, Abort(s) PROVE Goal
  BY <1>1, <1>12, AbortTask
<1>13. ASSUME NEW s \in Tasks, Finish(s) PROVE Goal
  <2>1. Alone(s) /\ EndedTask(s)
    BY <1>13, CommitTask DEF Finish
  <2> QED
    BY <1>1, <2>1
<1>14. ASSUME Restart PROVE Goal
  BY <1>14, RestartTask
<1>15. ASSUME NEW o \in Clients, CancelOrder(o) PROVE Goal
  BY <1>2, <1>15 DEF CancelOrder
<1>16. ASSUME NEW r \in Relations, FollowLook(r) \/ FollowCommit(r) \/ Unfollow(r) PROVE Goal
  BY <1>2, <1>16 DEF FollowLook, FollowCommit, Unfollow
<1> HIDE DEF Goal
<1>17. Goal
  BY <1>3, <1>4, <1>5, <1>6, <1>7, <1>8, <1>9, <1>10, <1>11, <1>12, <1>13, <1>14, <1>15, <1>16, Steps
<1> QED
  BY <1>17 DEF Goal

\* The rows change when a task commits or an order is cancelled.
LEMMA RowSteps ==
    ASSUME TypeInv, TaskInv, Next
    PROVE  \/ rows' = rows
           \/ \E t \in Tasks : Finish(t) /\ \A o \in Orders : rows'[o] = Visible(t, o)
           \/ \E o \in Clients : CancelOrder(o) /\ rows' = [rows EXCEPT ![o].status = "CANCELLED"]
<1>1. ASSUME NEW t \in Tasks, Finish(t) PROVE \A o \in Orders : rows'[o] = Visible(t, o)
  <2>1. PICK stage \in {"ready", "done"} : (stage = "ready" <=> t = Tick) /\ Commit(t, stage)
    BY <1>1 DEF Finish
  <2> QED
    BY <2>1, CommitTask
<1>2. CASE \E t \in Tasks : Finish(t)
  BY <1>1, <1>2
<1>3. ASSUME NEW o \in Clients, CancelOrder(o)
      PROVE  CancelOrder(o) /\ rows' = [rows EXCEPT ![o].status = "CANCELLED"]
  BY <1>3 DEF CancelOrder
<1>4. CASE ~(\E t \in Tasks : Finish(t)) /\ ~(\E o \in Clients : CancelOrder(o))
  <2>1. \A d \in DeskTasks : StartRun(d) \/ TopUp(d) => rows' = rows
    BY DEF StartRun, TopUp, dbVars
  <2>5. \A d \in DeskTasks, l \in Levels : Satisfied(d, l) \/ Miss(d, l) => rows' = rows
    BY DEF Satisfied, Miss, dbVars
  <2>6. \A d \in DeskTasks, q \in Quotes, n \in Nat :
          AddAgain(d, q[1], q, n) \/ Place(d, q[1], q, n) => rows' = rows
    BY DEF AddAgain, Place, dbVars
  <2>2. \A p \in Placements :
          \/ Begin(p) \/ SkipPoor(p) \/ Insert(p) \/ Settle(p) \/ SkipViolated(p) \/ Reserve(p)
          \/ \E r \in Relations : SkipCopy(p, r) \/ Copy(p, r)
          => rows' = rows
    BY DEF Begin, SkipPoor, Insert, Settle, SkipViolated, Reserve, SkipCopy, Copy, dbVars
  <2>3. /\ \A t \in Tasks : Abort(t) => rows' = rows
        /\ \A r \in Relations : FollowLook(r) \/ FollowCommit(r) \/ Unfollow(r) => rows' = rows
        /\ Restart => rows' = rows
    BY DEF Abort, FollowLook, FollowCommit, Unfollow, Restart, dbVars
  <2>4. rows' = rows
    BY <1>4, <2>1, <2>2, <2>3, <2>5, <2>6, Steps
  <2> QED
    BY <2>4
<1> QED
  BY <1>2, <1>3, <1>4

-----------------------------------------------------------------------------
(* Desk orders that have not been made.                                    *)

LEMMA UsedNext ==
    ASSUME TypeInv, BookInv, TaskInv, UsedInv, Next
    PROVE  UsedInv'
<1>1. used \subseteq used'
  BY Steps DEF StartRun, TopUp, Satisfied, Miss, Begin, SkipPoor, Insert, Settle, SkipViolated,
     SkipCopy, Copy, Abort, Finish, Commit, FollowLook, FollowCommit, Unfollow, Reserve, AddAgain,
     Place, CancelOrder, Restart
<1> SUFFICES ASSUME NEW q \in Quotes, q \notin used'
             PROVE  Unused(q)'
  BY DEF UsedInv
<1>2. /\ q \notin used /\ q \in Orders /\ rows[q] = NoRow /\ left[q] = 0
      /\ \A t \in Tasks : task[t].draft[q] = NoRow /\ q \notin Makers(task[t].trades)
  BY <1>1, OrderKinds DEF UsedInv, Unused
<1>3. rows'[q] = NoRow
  <2>1. \A t \in Tasks : Visible(t, q) = NoRow
    BY <1>2 DEF Visible
  <2>2. \A o \in Clients : o # q
    BY OrderKinds
  <2> QED
    BY <1>2, <2>1, <2>2, RowSteps DEF TypeInv
<1>4. left'[q] = 0
  <2>1. CASE UNCHANGED memoryVars
    BY <1>2, <2>1 DEF memoryVars
  <2>2. ASSUME NEW d \in DeskTasks, NEW x \in Quotes, NEW n \in Nat,
               AddAgain(d, x[1], x, n) \/ Place(d, x[1], x, n)
        PROVE  left'[q] = 0
    <3>1. x # q
      <4>1. CASE Place(d, x[1], x, n)
        BY <1>2, <4>1 DEF Place
      <4>2. CASE AddAgain(d, x[1], x, n)
        <5>1. Visible(d, x).status \in Open
          BY <4>2 DEF AddAgain, Newest, OpenQuotes
        <5>2. Visible(d, q) = NoRow
          BY <1>2 DEF Visible, DeskTasks, Tasks
        <5> QED
          BY <5>1, <5>2 DEF NoRow, Open
      <4> QED
        BY <2>2, <4>1, <4>2
    <3>2. \A y \in Quotes \ {x} : left'[y] = left[y]
      BY <2>2, RunSells, SellEffect
    <3> QED
      BY <1>2, <3>1, <3>2
  <2>3. ASSUME NEW p \in Placements, Reserve(p) PROVE left'[q] = 0
    <3> DEFINE o == task[p].cur
    <3>1. PICK n \in Nat : Buy(o, SizeOf(o), n)
      BY <2>3, ReserveBuys
    <3>2. o \in Clients /\ left[o] = 0 /\ SizeOf(o) \in Nat
      BY <2>3, ReserveBuys
    <3> DEFINE trades == TradesOf(book.sell, SizeOf(o), n)
    <3>3. /\ left'[q] = left[q] - TakenFrom(trades, q)
          /\ TakenFrom(trades, q) \in Nat /\ TakenFrom(trades, q) <= left[q]
      BY <3>1, <3>2, BuyEffect
    <3> HIDE DEF trades
    <3> QED
      BY <1>2, <3>3
  <2>4. ASSUME NEW o \in Clients, CancelOrder(o) PROVE left'[q] = 0
    BY <1>2, <2>4, CancelEffect, OrderKinds
  <2>5. CASE Restart
    BY <1>2, <2>5 DEF Restart
  <2> QED
    BY <2>1, <2>2, <2>3, <2>4, <2>5, MemorySteps
<1>5. ASSUME NEW t \in Tasks
      PROVE  task'[t].draft[q] = NoRow /\ q \notin Makers(task'[t].trades)
  <2>0. Makers(<<>>) = {}
    BY DEF Makers
  <2>1. CASE /\ task'[t].draft = task[t].draft
             /\ task'[t].trades = task[t].trades \/ task'[t].trades = <<>>
    BY <1>2, <2>0, <2>1
  <2>2. CASE EndedTask(t)
    BY <1>2, <2>0, <2>2 DEF EndedTask, Idle
  <2>3. ASSUME t \in Placements, Reserve(t), task'[t].draft = task[t].draft,
               NEW n \in Nat, Buy(task[t].cur, SizeOf(task[t].cur), n),
               task'[t].trades = TradesOf(book.sell, SizeOf(task[t].cur), n)
        PROVE  task'[t].draft[q] = NoRow /\ q \notin Makers(task'[t].trades)
    <3> DEFINE o == task[t].cur
               trades == TradesOf(book.sell, SizeOf(o), n)
    <3>2. o \in Clients /\ left[o] = 0 /\ SizeOf(o) \in Nat
      BY <2>3, ReserveBuys
    <3>3. \A x \in Makers(trades) : x \in Quotes /\ left[x] > 0
      BY <2>3, <3>2, BuyEffect
    <3> QED
      BY <1>2, <2>3, <3>3
  <2>4. ASSUME t \in Placements, Insert(t), task'[t].trades = task[t].trades,
               task'[t].draft = [task[t].draft EXCEPT ![task[t].cur] = EngineRow(task[t].cur)]
        PROVE  task'[t].draft[q] = NoRow /\ q \notin Makers(task'[t].trades)
    <3>1. task[t].cur \in Clients /\ task[t] \in TaskType
      BY <2>4, InsertTask, PlacementCur
    <3> QED
      BY <1>2, <2>4, <3>1, OrderKinds DEF TaskType
  <2>5. ASSUME t \in Placements, Settle(t)
        PROVE  task'[t].draft[q] = NoRow /\ q \notin Makers(task'[t].trades)
    <3> DEFINE o == task[t].cur
               x == Head(task[t].trades)
    <3>1. /\ o \in Clients /\ task[t] \in TaskType /\ task[t].trades # <<>>
          /\ task'[t].trades = Tail(task[t].trades)
      BY <2>5, SettleTask, PlacementCur DEF After, NowAt
    <3>2. task[t].trades \in AnyTrades(Quotes)
      BY <3>1 DEF TaskType, AnyTrades, TradeType
    <3>3. x.maker \in Makers(task[t].trades) /\ Makers(Tail(task[t].trades)) \subseteq Makers(task[t].trades)
      BY <3>1, <3>2, FirstTrade
    <3>4. q # o /\ q # x.maker
      BY <1>2, <3>1, <3>3, OrderKinds
    <3>5. task'[t].draft[q] = task[t].draft[q]
      BY <1>2, <2>5, <3>1, <3>4, SettleTask DEF TaskType
    <3> QED
      BY <1>2, <3>1, <3>3, <3>5
  <2>6. ASSUME NEW x \in Quotes, NEW n \in Nat, Place(t, x[1], x, n),
               task'[t].draft = [task[t].draft EXCEPT ![x] = NewRow],
               task'[t].trades = task[t].trades
        PROVE  task'[t].draft[q] = NoRow /\ q \notin Makers(task'[t].trades)
    <3>1. x # q
      BY <1>2, <2>6 DEF Place
    <3>2. task[t] \in TaskType
      BY DEF TypeInv
    <3> QED
      BY <1>2, <2>6, <3>1, <3>2 DEF TaskType
  <2> QED
    BY <2>1, <2>2, <2>3, <2>4, <2>5, <2>6, DraftSteps
<1> QED
  BY <1>3, <1>4, <1>5 DEF Unused

-----------------------------------------------------------------------------
(* The tasks.                                                              *)

DeskMove(t) ==
    \/ StartRun(t) \/ TopUp(t)
    \/ \E l \in Levels : Satisfied(t, l) \/ Miss(t, l)
    \/ \E q \in Quotes, n \in Nat : q[1] \in Levels /\ (AddAgain(t, q[1], q, n) \/ Place(t, q[1], q, n))

PlacementMove(t) ==
    \/ Begin(t) \/ SkipPoor(t) \/ Insert(t) \/ Settle(t) \/ SkipViolated(t) \/ Reserve(t)
    \/ \E r \in Relations : SkipCopy(t, r) \/ Copy(t, r)

\* A step moves one task, or ends tasks.
LEMMA Moves ==
    ASSUME TypeInv, BookInv, TaskInv, Next, NEW t \in Tasks
    PROVE  \/ task'[t] = task[t]
           \/ Running(t) /\ EndedTask(t) /\ (Finish(t) \/ ((Abort(t) \/ Restart) /\ task'[t].stage # "done"))
           \/ t \in DeskTasks /\ DeskMove(t)
           \/ t \in Placements /\ PlacementMove(t)
<1> DEFINE Goal == \/ task'[t] = task[t]
                   \/ Running(t) /\ EndedTask(t)
                      /\ (Finish(t) \/ ((Abort(t) \/ Restart) /\ task'[t].stage # "done"))
                   \/ t \in DeskTasks /\ DeskMove(t)
                   \/ t \in Placements /\ PlacementMove(t)
<1>1. ASSUME NEW s, Alone(s), s # t PROVE Goal
  BY <1>1 DEF Alone
<1>2. ASSUME UNCHANGED task PROVE Goal
  BY <1>2
<1>3. ASSUME NEW d \in DeskTasks, DeskMove(d) PROVE Goal
  <2>1. ASSUME NEW l \in Levels, Satisfied(d, l) PROVE Alone(d)
    <3>1. PICK q \in Quotes : TRUE
      BY <2>1 DEF Satisfied
    <3> QED
      BY <2>1, LevelTask
  <2>2. ASSUME NEW q \in Quotes, NEW n \in Nat, q[1] \in Levels, AddAgain(d, q[1], q, n) PROVE Alone(d)
    BY <2>2, LevelTask
  <2>3. ASSUME NEW q \in Quotes, NEW n \in Nat, q[1] \in Levels, Place(d, q[1], q, n) PROVE Alone(d)
    BY <2>3, PlaceTask
  <2>4. Alone(d)
    BY <1>3, <2>1, <2>2, <2>3, StartRunTask, TopUpTask, MissTask DEF DeskMove
  <2> QED
    BY <1>1, <1>3, <2>4
<1>4. ASSUME NEW p \in Placements, PlacementMove(p) PROVE Goal
  <2>1. ASSUME Reserve(p) PROVE Alone(p)
    BY <2>1, ReserveTask DEF Reserve
  <2>2. Alone(p)
    BY <1>4, <2>1, BeginTask, SkipPoorTask, InsertTask, SettleTask, SkipViolatedTask, SkipCopyTask,
       CopyTask DEF PlacementMove
  <2> QED
    BY <1>1, <1>4, <2>2
<1>5. ASSUME NEW s \in Tasks, Running(s), Abort(s) PROVE Goal
  BY <1>1, <1>5, AbortTask
<1>6. ASSUME NEW s \in Tasks, Finish(s) PROVE Goal
  <2>1. PICK stage \in {"ready", "done"} : (stage = "ready" <=> s = Tick) /\ Commit(s, stage)
    BY <1>6 DEF Finish
  <2>2. Running(s)
    BY <1>6 DEF Finish
  <2>3. Alone(s) /\ EndedTask(s)
    BY <2>1, CommitTask
  <2> QED
    BY <1>1, <1>6, <2>2, <2>3
<1>7. ASSUME Restart PROVE Goal
  BY <1>7, RestartTask
<1>8. ASSUME NEW o \in Clients, CancelOrder(o) PROVE Goal
  BY <1>2, <1>8 DEF CancelOrder
<1>9. ASSUME NEW r \in Relations, FollowLook(r) \/ FollowCommit(r) \/ Unfollow(r) PROVE Goal
  BY <1>2, <1>9 DEF FollowLook, FollowCommit, Unfollow
<1> HIDE DEF Goal
<1>10. \A d \in DeskTasks : DeskMove(d) => Goal
  BY <1>3
<1>11. \A p \in Placements : PlacementMove(p) => Goal
  BY <1>4
<1>12. \/ \E d \in DeskTasks : DeskMove(d)
       \/ \E p \in Placements : PlacementMove(p)
       \/ \E s \in Tasks : Running(s) /\ Abort(s)
       \/ \E s \in Tasks : Finish(s)
       \/ \E o \in Clients : CancelOrder(o)
       \/ \E r \in Relations : FollowLook(r) \/ FollowCommit(r) \/ Unfollow(r)
       \/ Restart
  BY Steps DEF DeskMove, PlacementMove
<1>13. Goal
  BY <1>5, <1>6, <1>7, <1>8, <1>9, <1>10, <1>11, <1>12
<1> QED
  BY <1>13 DEF Goal

\* What the moves of a run and of a placement lead to.
LEMMA DeskMoves ==
    ASSUME TypeInv, NEW d \in DeskTasks, DeskMove(d)
    PROVE  /\ d \in Tasks /\ task'[d] \in TaskType /\ Running(d)'
           /\ task'[d].stage \in {"topup", "look", "place"}
           /\ task'[d].trades = task[d].trades /\ task'[d].cur = task[d].cur
           /\ task'[d].todo \subseteq task[d].todo \cup Levels
           /\ \/ task'[d].draft = task[d].draft
              \/ \E q \in Quotes, n \in Nat :
                   /\ q[1] \in Levels /\ Place(d, q[1], q, n)
                   /\ task'[d].draft = [task[d].draft EXCEPT ![q] = NewRow]
<1>1. d \in Tasks
  BY DEF DeskTasks, Tasks
<1>2. ASSUME StartRun(d) \/ TopUp(d)
      PROVE  /\ Alone(d) /\ task'[d].stage \in {"topup", "look", "place"}
             /\ task'[d].trades = task[d].trades /\ task'[d].cur = task[d].cur
             /\ task'[d].todo \subseteq task[d].todo \cup Levels /\ task'[d].draft = task[d].draft
  BY <1>2, StartRunTask, TopUpTask DEF NowAt
<1>3. ASSUME NEW l \in Levels, Satisfied(d, l) \/ Miss(d, l)
      PROVE  /\ Alone(d) /\ task'[d].stage \in {"topup", "look", "place"}
             /\ task'[d].trades = task[d].trades /\ task'[d].cur = task[d].cur
             /\ task'[d].todo \subseteq task[d].todo \cup Levels /\ task'[d].draft = task[d].draft
  <2>1. CASE Satisfied(d, l)
    <3>1. PICK q \in Quotes : TRUE
      BY <2>1 DEF Satisfied
    <3> QED
      BY <2>1, LevelTask DEF NowAt
  <2>2. CASE Miss(d, l)
    BY <2>2, MissTask DEF NowAt
  <2> QED
    BY <1>3, <2>1, <2>2
<1>4. ASSUME NEW q \in Quotes, NEW n \in Nat, q[1] \in Levels, AddAgain(d, q[1], q, n)
      PROVE  /\ Alone(d) /\ task'[d].stage \in {"topup", "look", "place"}
             /\ task'[d].trades = task[d].trades /\ task'[d].cur = task[d].cur
             /\ task'[d].todo \subseteq task[d].todo \cup Levels /\ task'[d].draft = task[d].draft
  BY <1>4, LevelTask DEF NowAt
<1>5. ASSUME NEW q \in Quotes, NEW n \in Nat, q[1] \in Levels, Place(d, q[1], q, n)
      PROVE  /\ Alone(d) /\ task'[d].stage \in {"topup", "look", "place"}
             /\ task'[d].trades = task[d].trades /\ task'[d].cur = task[d].cur
             /\ task'[d].todo \subseteq task[d].todo \cup Levels
             /\ task'[d].draft = [task[d].draft EXCEPT ![q] = NewRow]
  BY <1>5, PlaceTask DEF NowAt
<1>6. /\ Alone(d) /\ task'[d].stage \in {"topup", "look", "place"}
      /\ task'[d].trades = task[d].trades /\ task'[d].cur = task[d].cur
      /\ task'[d].todo \subseteq task[d].todo \cup Levels
      /\ \/ task'[d].draft = task[d].draft
         \/ \E q \in Quotes, n \in Nat :
              /\ q[1] \in Levels /\ Place(d, q[1], q, n)
              /\ task'[d].draft = [task[d].draft EXCEPT ![q] = NewRow]
  BY <1>2, <1>3, <1>4, <1>5 DEF DeskMove
<1> QED
  BY <1>1, <1>6 DEF Alone, Running

LEMMA IdleNext ==
    ASSUME TypeInv, BookInv, TaskInv, Next, NEW t \in Tasks, ~Running(t)'
    PROVE  Idle(t)'
<1>1. CASE task'[t] = task[t]
  BY <1>1 DEF TaskInv, Running, Idle
<1>2. CASE EndedTask(t)
  BY <1>2 DEF EndedTask
<1>3. CASE t \in DeskTasks /\ DeskMove(t)
  BY <1>3, DeskMoves
<1>4. ASSUME t \in Placements, PlacementMove(t) PROVE FALSE
  <2>1. ASSUME Reserve(t) PROVE task'[t].stage = "insert"
    BY <1>4, <2>1, ReserveTask DEF Reserve, NowAt
  <2>2. task'[t].stage \in {"reserve", "insert", "settle", "copy"}
    BY <1>4, <2>1, BeginTask, SkipPoorTask, InsertTask, SettleTask, SkipViolatedTask, SkipCopyTask,
       CopyTask DEF PlacementMove, NowAt, After
  <2> QED
    BY <2>2 DEF Running
<1> QED
  BY <1>1, <1>2, <1>3, <1>4, Moves

LEMMA DeskNext ==
    ASSUME TypeInv, BookInv, TaskInv, Next, NEW d \in DeskTasks
    PROVE  DeskShape(d)'
<1>1. d \in Tasks /\ DeskShape(d) /\ d \notin Placements /\ task[d] \in TaskType
  BY NameAssumption DEF DeskTasks, Tasks, TaskInv, TypeInv
<1>2. CASE task'[d] = task[d]
  BY <1>1, <1>2 DEF DeskShape
<1>3. CASE EndedTask(d)
  BY <1>3, OrderKinds DEF EndedTask, Idle, DeskShape
<1>4. CASE DeskMove(d)
  <2>1. \A o \in Clients : task'[d].draft[o] = NoRow
    <3>1. CASE task'[d].draft = task[d].draft
      BY <1>1, <3>1 DEF DeskShape
    <3>2. ASSUME NEW q \in Quotes, task'[d].draft = [task[d].draft EXCEPT ![q] = NewRow]
          PROVE  \A o \in Clients : task'[d].draft[o] = NoRow
      BY <1>1, <3>2, OrderKinds DEF DeskShape, TaskType
    <3> QED
      BY <1>4, <3>1, <3>2, DeskMoves
  <2> QED
    BY <1>1, <1>4, <2>1, DeskMoves DEF DeskShape
<1> QED
  BY <1>1, <1>2, <1>3, <1>4, Moves

\* A relation's row stays.
LEMMA RelationStays ==
    ASSUME TypeInv, TaskInv, Next, NEW r \in Relations, relation[r] # "none"
    PROVE  relation'[r] # "none"
<1>1. ASSUME NEW s \in Relations, FollowCommit(s) PROVE relation'[r] # "none"
  BY <1>1 DEF FollowCommit, TypeInv
<1>2. ASSUME NEW s \in Relations, Unfollow(s) PROVE relation'[r] # "none"
  BY <1>2 DEF Unfollow, TypeInv
<1>3. CASE relation' = relation
  BY <1>3
<1>4. \A d \in DeskTasks : DeskMove(d) => relation' = relation
  <2>1. \A d \in DeskTasks : StartRun(d) \/ TopUp(d) => relation' = relation
    BY DEF StartRun, TopUp, followVars
  <2>2. \A d \in DeskTasks, l \in Levels : Satisfied(d, l) \/ Miss(d, l) => relation' = relation
    BY DEF Satisfied, Miss, followVars
  <2>3. \A d \in DeskTasks, q \in Quotes, n \in Nat :
          AddAgain(d, q[1], q, n) \/ Place(d, q[1], q, n) => relation' = relation
    BY DEF AddAgain, Place, followVars
  <2> QED
    BY <2>1, <2>2, <2>3 DEF DeskMove
<1>5. \A p \in Placements : PlacementMove(p) => relation' = relation
  BY DEF PlacementMove, Begin, SkipPoor, Insert, Settle, SkipViolated, Reserve, SkipCopy, Copy, followVars
<1>6. /\ \A t \in Tasks : Abort(t) => relation' = relation
      /\ \A t \in Tasks : Finish(t) => relation' = relation
      /\ \A o \in Clients : CancelOrder(o) => relation' = relation
      /\ \A s \in Relations : FollowLook(s) => relation' = relation
      /\ Restart => relation' = relation
  BY DEF Abort, Finish, Commit, CancelOrder, FollowLook, Restart, followVars
<1>7. \/ \E d \in DeskTasks : DeskMove(d)
      \/ \E p \in Placements : PlacementMove(p)
      \/ \E s \in Tasks : Abort(s) \/ Finish(s)
      \/ \E o \in Clients : CancelOrder(o)
      \/ \E s \in Relations : FollowLook(s) \/ FollowCommit(s) \/ Unfollow(s)
      \/ Restart
  BY Steps DEF DeskMove, PlacementMove
<1> QED
  BY <1>1, <1>2, <1>3, <1>4, <1>5, <1>6, <1>7

LEMMA CopiedGrows ==
    ASSUME TypeInv, TaskInv, Next, NEW p \in Placements
    PROVE  CopiedTo(p) \subseteq CopiedTo(p)' /\ Own(p) \subseteq Own(p)'
<1>1. CopiedTo(p) \subseteq CopiedTo(p)'
  BY RelationStays DEF CopiedTo
<1> QED
  BY <1>1 DEF Own

\* What a transaction has written of clients' orders is its own.
LEMMA DraftsApart ==
    ASSUME TypeInv, TaskInv, NEW p \in Placements, NEW t \in Tasks, t # p, NEW o \in All(p)
    PROVE  task[t].draft[o] = NoRow /\ o \in Clients /\ o \in Orders
<1>1. o \in Clients /\ o \in Orders
  BY AllClients, OrderKinds
<1>2. CASE t \in DeskTasks
  BY <1>1, <1>2 DEF TaskInv, DeskShape
<1>3. CASE t \in Placements
  <2>1. task[t].draft[o] # NoRow => o \in All(t)
    BY <1>1, <1>3, AllClients DEF TaskInv, PlacementShape
  <2> QED
    BY <1>1, <1>3, <2>1, AllApart
<1> QED
  BY <1>1, <1>2, <1>3 DEF Tasks, DeskTasks

\* The rows of a placement's orders are its own to write.
LEMMA RowsApart ==
    ASSUME TypeInv, TaskInv, Next, NEW p \in Placements, ~Finish(p),
           NEW o \in All(p), rows[o] = NoRow
    PROVE  rows'[o] = NoRow
<1>1. o \in Clients /\ o \in Orders
  BY AllClients, OrderKinds
<1>2. ASSUME NEW t \in Tasks, Finish(t), \A x \in Orders : rows'[x] = Visible(t, x)
      PROVE  rows'[o] = NoRow
  <2>1. t # p
    BY <1>2
  <2> QED
    BY <1>1, <1>2, <2>1, DraftsApart DEF Visible
<1>3. ASSUME NEW x \in Clients, CancelOrder(x), rows' = [rows EXCEPT ![x].status = "CANCELLED"]
      PROVE  rows'[o] = NoRow
  <2>1. rows[x].status \in Open
    BY <1>3 DEF CancelOrder
  <2>2. x # o
    BY <2>1 DEF NoRow, Open
  <2> QED
    BY <1>1, <1>3, <2>2 DEF TypeInv
<1> QED
  BY <1>2, <1>3, RowSteps

\* An order to be made is on no book, until it is matched.
LEMMA ToMakeClients ==
    ASSUME TypeInv, TaskInv, NEW p \in Placements
    PROVE  ToMake(p) \subseteq All(p)
<1>1. p \in Tasks /\ task[p] \in TaskType
  BY DEF Tasks, TypeInv
<1>2. task[p].todo \subseteq Relations
  BY DEF TaskInv, PlacementShape, CopiedTo
<1>3. Running(p) => task[p].cur \in All(p)
  BY <1>1, PlacementCur, AllClients
<1> QED
  BY <1>2, <1>3 DEF ToMake, All, Running

LEMMA MemoryApart ==
    ASSUME TypeInv, BookInv, TaskInv, UsedInv, Next, NEW p \in Placements, NEW o \in All(p),
           left[o] = 0, fill[o] = 0, ~(Reserve(p) /\ o = task[p].cur)
    PROVE  left'[o] = 0 /\ fill'[o] = 0
<1>1. o \in Clients /\ o \in Orders
  BY AllClients, OrderKinds
<1>2. CASE UNCHANGED memoryVars
  BY <1>2 DEF memoryVars
<1>3. ASSUME NEW d \in DeskTasks, NEW q \in Quotes, NEW n \in Nat,
             AddAgain(d, q[1], q, n) \/ Place(d, q[1], q, n)
      PROVE  left'[o] = 0 /\ fill'[o] = 0
  BY <1>1, <1>3, RunSells, SellEffect
<1>4. ASSUME NEW t \in Placements, Reserve(t) PROVE left'[o] = 0 /\ fill'[o] = 0
  <2>1. o # task[t].cur
    <3>1. CASE t = p
      <4>1. Reserve(p)
        BY <1>4, <3>1
      <4> QED
        BY <3>1, <4>1
    <3>2. CASE t # p
      BY <1>4, <3>2, ReserveBuys, ToMakeClients, AllApart
    <3> QED
      BY <3>1, <3>2
  <2>2. \E n \in Nat : Buy(task[t].cur, SizeOf(task[t].cur), n)
    BY <1>4, ReserveBuys
  <2>3. task[t].cur \in Clients /\ left[task[t].cur] = 0 /\ SizeOf(task[t].cur) \in Nat
    BY <1>4, ReserveBuys
  <2>4. \A c \in Clients \ {task[t].cur} : left'[c] = left[c] /\ fill'[c] = fill[c]
    BY <2>2, <2>3, BuyEffect
  <2> QED
    BY <1>1, <2>1, <2>4
<1>5. ASSUME NEW x \in Clients, CancelOrder(x) PROVE left'[o] = 0 /\ fill'[o] = 0
  <2>1. fill' = fill
    BY <1>5 DEF CancelOrder
  <2>2. left'[x] = 0 /\ \A y \in Orders \ {x} : left'[y] = left[y]
    BY <1>5, CancelEffect
  <2> QED
    BY <1>1, <2>1, <2>2
<1>6. CASE Restart
  BY <1>1, <1>6 DEF Restart
<1> QED
  BY <1>2, <1>3, <1>4, <1>5, <1>6, MemorySteps

LEMMA ShapeNext ==
    ASSUME TypeInv, BookInv, TaskInv, UsedInv, Next, NEW p \in Placements
    PROVE  PlacementShape(p)'
<1> DEFINE o == task[p].cur
<1>1. /\ p \in Tasks /\ p \notin DeskTasks /\ p # Tick /\ task[p] \in TaskType /\ p \in Clients
      /\ task \in [Tasks -> TaskType] /\ PlacementShape(p) /\ p \in Own(p) /\ p \in All(p)
  BY NameAssumption, OrderKinds DEF Tasks, DeskTasks, TypeInv, TaskInv, Own, All
<1>2. CopiedTo(p) \subseteq CopiedTo(p)' /\ Own(p) \subseteq Own(p)'
  BY CopiedGrows
<1>3. ASSUME ~Finish(p), task[p].stage # "done"
      PROVE  \A x \in All(p) : rows'[x] = NoRow
  BY <1>1, <1>3, RowsApart DEF PlacementShape
<1>4. \A x \in ToMake(p) : x # o \/ ~Reserve(p) => left'[x] = 0 /\ fill'[x] = 0
  BY <1>1, MemoryApart, ToMakeClients DEF PlacementShape
<1>5. ToMake(p) \subseteq All(p) /\ All(p) \subseteq Clients
  BY ToMakeClients, AllClients
<1>6. ASSUME task'[p] = task[p] PROVE PlacementShape(p)'
  <2>1. ToMake(p)' = ToMake(p) /\ Running(p)' = Running(p)
    BY <1>6 DEF ToMake, All, Running
  <2>2. ~Finish(p)
    <3>1. ASSUME Finish(p) PROVE FALSE
      <4>1. PICK stage \in {"ready", "done"} : (stage = "ready" <=> p = Tick) /\ Commit(p, stage)
        BY <3>1 DEF Finish
      <4>2. ~Running(p)'
        BY <1>1, <4>1, CommitTask DEF EndedTask
      <4>3. Running(p)
        BY <3>1 DEF Finish
      <4> QED
        BY <2>1, <4>2, <4>3
    <3> QED
      BY <3>1
  <2>3. ~Reserve(p)
    <3>1. ASSUME Reserve(p) PROVE FALSE
      BY <1>6, <3>1, ReserveTask DEF Reserve, NowAt
    <3> QED
      BY <3>1
  <2>4. task'[p].stage # "done" => \A x \in All(p) : rows'[x] = NoRow
    BY <1>3, <1>6, <2>2
  <2>5. \A x \in ToMake(p)' : left'[x] = 0 /\ fill'[x] = 0 /\ task'[p].draft[x] = NoRow
    BY <1>1, <1>4, <1>6, <2>1, <2>3 DEF PlacementShape
  <2> QED
    BY <1>1, <1>2, <1>6, <2>1, <2>4, <2>5 DEF PlacementShape, All
<1>7. ASSUME Running(p), EndedTask(p), Finish(p) \/ task'[p].stage # "done"
      PROVE  PlacementShape(p)'
  <2>1. /\ task'[p].stage \in {"done", "failed"} /\ ~Running(p)'
        /\ task'[p].trades = <<>> /\ task'[p].todo = {}
        /\ \A x \in Clients : task'[p].draft[x] = NoRow
    BY <1>1, <1>7, OrderKinds DEF EndedTask, Idle
  <2>2. ToMake(p)' = {}
    BY <2>1 DEF ToMake
  <2>3. task'[p].stage # "done" => \A x \in All(p) : rows'[x] = NoRow
    <3>1. ASSUME Finish(p) PROVE task'[p].stage = "done"
      <4>1. PICK stage \in {"ready", "done"} : (stage = "ready" <=> p = Tick) /\ Commit(p, stage)
        BY <3>1 DEF Finish
      <4> QED
        BY <1>1, <4>1, CommitTask
    <3>2. task[p].stage # "done"
      BY <1>7 DEF Running
    <3> QED
      BY <1>3, <3>1, <3>2
  <2>4. DOMAIN task'[p].trades = {}
    BY <2>1
  <2> QED
    BY <2>1, <2>2, <2>3, <2>4 DEF PlacementShape, All
<1>15. ASSUME Running(p) \/ task[p].stage = "ready", Running(p)'
       PROVE  \A x \in All(p) : rows'[x] = NoRow
  <2>1. ASSUME Finish(p) PROVE FALSE
    <3>1. PICK stage \in {"ready", "done"} : (stage = "ready" <=> p = Tick) /\ Commit(p, stage)
      BY <2>1 DEF Finish
    <3> QED
      BY <1>1, <1>15, <3>1, CommitTask DEF EndedTask
  <2>2. task[p].stage # "done"
    BY <1>15 DEF Running
  <2> QED
    BY <1>3, <2>1, <2>2
<1>8. ASSUME Begin(p) PROVE PlacementShape(p)'
  <2>1. /\ task[p].stage = "ready" /\ task'[p].stage = "reserve" /\ task'[p].cur = p
        /\ task'[p].trades = task[p].trades /\ task'[p].todo = task[p].todo
        /\ task'[p].draft = task[p].draft /\ Running(p)'
    BY <1>8, BeginTask DEF NowAt, Running
  <2>2. Idle(p)
    BY <1>1, <2>1 DEF TaskInv, Running
  <2>3. ToMake(p) = All(p) /\ ToMake(p)' = All(p)
    BY <1>1, <2>1 DEF ToMake, All
  <2>4. \A x \in All(p) : left'[x] = 0 /\ fill'[x] = 0 /\ task'[p].draft[x] = NoRow
    <3>1. ~Reserve(p)
      BY <2>1 DEF Reserve, In
    <3> QED
      BY <1>1, <1>4, <2>1, <2>3, <3>1 DEF PlacementShape
  <2>5. \A x \in All(p) : rows'[x] = NoRow
    BY <1>15, <2>1
  <2>6. \A x \in Clients : task'[p].draft[x] = NoRow
    BY <2>1, <2>2, OrderKinds DEF Idle
  <2>7. task'[p].trades = <<>> /\ task'[p].todo = {} /\ p \in Own(p)'
    BY <1>1, <1>2, <2>1, <2>2 DEF Idle
  <2> QED
    BY <1>1, <2>1, <2>3, <2>4, <2>5, <2>6, <2>7 DEF PlacementShape, All
<1>9. ASSUME Reserve(p) PROVE PlacementShape(p)'
  <2>1. PICK n \in Nat : ReserveAndMatch(p, o, n) /\ Buy(o, SizeOf(o), n)
    BY <1>9, ReserveBuys
  <2> DEFINE trades == TradesOf(book.sell, SizeOf(o), n)
  <2>2. /\ task[p].stage = "reserve" /\ task'[p].stage = "insert" /\ task'[p].cur = o
        /\ task'[p].trades = trades /\ task'[p].todo = task[p].todo
        /\ task'[p].draft = task[p].draft /\ Running(p) /\ Running(p)'
    BY <1>9, <2>1, ReserveTask DEF Reserve, NowAt, Running
  <2>3. o \in Clients /\ left[o] = 0 /\ SizeOf(o) \in Nat /\ o \in Own(p)
    BY <1>9, <2>2, ReserveBuys, PlacementCur
  <2>4. \A i, j \in DOMAIN trades : trades[i].maker = trades[j].maker => i = j
    BY <2>1, <2>3, BuyEffect
  <2> HIDE DEF trades
  <2>5. ToMake(p)' \subseteq ToMake(p) /\ o \notin ToMake(p)'
    BY <1>1, <2>2 DEF ToMake, All, PlacementShape
  <2>6. \A x \in ToMake(p)' : left'[x] = 0 /\ fill'[x] = 0 /\ task'[p].draft[x] = NoRow
    BY <1>1, <1>4, <2>2, <2>5 DEF PlacementShape
  <2>7. \A x \in All(p) : rows'[x] = NoRow
    BY <1>15, <2>2
  <2> QED
    BY <1>1, <1>2, <2>2, <2>3, <2>4, <2>6, <2>7 DEF PlacementShape, All
<1>10. ASSUME SkipPoor(p) \/ SkipViolated(p) PROVE PlacementShape(p)'
  <2>1. /\ task[p].stage \in {"reserve", "settle"} /\ task'[p].stage = "copy" /\ task'[p].cur = o
        /\ task'[p].todo = task[p].todo /\ o \in Copies
        /\ task'[p].draft = task[p].draft /\ Running(p) /\ Running(p)'
    BY <1>10, SkipPoorTask, SkipViolatedTask DEF NowAt, Running
  <2>2. task'[p].trades = <<>>
    <3>1. CASE SkipPoor(p)
      BY <1>1, <3>1, SkipPoorTask DEF NowAt, PlacementShape
    <3>2. CASE SkipViolated(p)
      BY <3>2, SkipViolatedTask DEF NowAt
    <3> QED
      BY <1>10, <3>1, <3>2
  <2>3. ToMake(p)' \subseteq ToMake(p) /\ ~Reserve(p)
    <3>1. o # p
      BY <2>1, OrderKinds
    <3>2. ToMake(p)' \subseteq ToMake(p)
      BY <2>1, <3>1 DEF ToMake
    <3>3. ASSUME Reserve(p) PROVE FALSE
      BY <2>1, <3>3, ReserveTask DEF Reserve, NowAt
    <3> QED
      BY <3>2, <3>3
  <2>6. \A x \in ToMake(p)' : left'[x] = 0 /\ fill'[x] = 0 /\ task'[p].draft[x] = NoRow
    BY <1>1, <1>4, <2>1, <2>3 DEF PlacementShape
  <2>7. \A x \in All(p) : rows'[x] = NoRow
    BY <1>15, <2>1
  <2>8. DOMAIN task'[p].trades = {}
    BY <2>2
  <2> QED
    BY <1>1, <1>2, <2>1, <2>2, <2>6, <2>7, <2>8 DEF PlacementShape, All
<1>16. ASSUME Insert(p) \/ Settle(p) PROVE ~Reserve(p)
  BY <1>16 DEF Reserve, Insert, Settle, In
<1>17. ASSUME NEW trades, After(p, trades), o \in Own(p), task[p].stage \in {"insert", "settle"}
       PROVE  /\ task'[p].todo \subseteq CopiedTo(p) /\ \A r \in task'[p].todo : o # <<p, r>>
              /\ ToMake(p)' \subseteq ToMake(p) /\ o \notin ToMake(p)'
              /\ task'[p].cur = o /\ task'[p].trades = trades /\ Running(p)'
              /\ task'[p].stage \in {"settle", "copy"}
              /\ task'[p].stage = "settle" => trades # <<>>
              /\ task'[p].stage = "copy" => trades = <<>>
  <2>1. task'[p].todo \subseteq task[p].todo \cup Copied(o)
    BY <1>17 DEF After, NowAt
  <2>2. Copied(o) \subseteq CopiedTo(p) /\ \A r \in Copied(o) : o = p
    <3>1. CASE o \in Copies
      BY <3>1 DEF Copied
    <3>2. CASE o \notin Copies
      <4>1. o = p
        BY <1>17, <3>2, OrderKinds DEF Own, CopiedTo
      <4>2. UserOf(o) = Owner[p]
        BY <4>1, OrderKinds
      <4> QED
        BY <3>2, <4>1, <4>2 DEF Copied, Active, CopiedTo
    <3> QED
      BY <3>1, <3>2
  <2>3. \A r \in Relations : p # <<p, r>>
    BY OrderKinds
  <2>4. task[p].todo \subseteq Relations /\ Copied(o) \subseteq Relations
    BY <1>1, <2>2 DEF PlacementShape, CopiedTo
  <2>5. /\ task'[p].todo \subseteq CopiedTo(p) /\ \A r \in task'[p].todo : o # <<p, r>>
    BY <1>1, <2>1, <2>2, <2>3, <2>4 DEF PlacementShape
  <2>6. o \notin ToMake(p)'
    BY <1>17, <2>5 DEF ToMake, After, NowAt
  <2>7. ToMake(p)' \subseteq ToMake(p)
    <3>1. CASE o = p
      <4>1. ToMake(p) = All(p) \ {p}
        BY <1>17, <3>1 DEF ToMake
      <4>2. \A r \in task'[p].todo : <<p, r>> \in All(p) \ {p}
        BY <2>1, <2>3, <2>4 DEF All
      <4>3. ToMake(p)' \subseteq All(p) \ {p}
        BY <1>17, <3>1, <4>2 DEF ToMake, After, NowAt, All
      <4> QED
        BY <4>1, <4>3
    <3>2. CASE o # p
      <4>1. task'[p].todo \subseteq task[p].todo
        BY <2>1, <2>2, <3>2
      <4> QED
        BY <1>17, <3>2, <4>1 DEF ToMake, After, NowAt
    <3> QED
      BY <3>1, <3>2
  <2>8. /\ task'[p].cur = o /\ task'[p].trades = trades /\ Running(p)'
        /\ task'[p].stage \in {"settle", "copy"}
        /\ task'[p].stage = "settle" => trades # <<>>
        /\ task'[p].stage = "copy" => trades = <<>>
    BY <1>17 DEF After, NowAt, Running
  <2> QED
    BY <2>5, <2>6, <2>7, <2>8
<1>11. ASSUME Insert(p) PROVE PlacementShape(p)'
  <2> DEFINE trades == task[p].trades
  <2>1. /\ task[p].stage = "insert" /\ Running(p) /\ After(p, trades)
        /\ task'[p].draft = [task[p].draft EXCEPT ![o] = EngineRow(o)]
    BY <1>11, InsertTask
  <2>2. o \in Own(p) /\ o \in Clients /\ o \in Orders
    BY <2>1, PlacementCur
  <2>3. /\ task'[p].todo \subseteq CopiedTo(p) /\ \A r \in task'[p].todo : o # <<p, r>>
        /\ ToMake(p)' \subseteq ToMake(p) /\ o \notin ToMake(p)'
        /\ task'[p].cur = o /\ task'[p].trades = trades /\ Running(p)'
        /\ task'[p].stage \in {"settle", "copy"}
        /\ task'[p].stage = "settle" => trades # <<>>
        /\ task'[p].stage = "copy" => trades = <<>>
    BY <1>17, <2>1, <2>2
  <2>4. EngineRow(o) # NoRow
    <3>1. StatusOf(fill[o], SizeOf(o)) # "NONE"
      BY DEF StatusOf
    <3> QED
      BY <3>1 DEF EngineRow, NoRow
  <2>5. /\ task'[p].draft[o] # NoRow
        /\ \A x \in Orders \ {o} : task'[p].draft[x] = task[p].draft[x]
    BY <1>1, <2>1, <2>2, <2>4 DEF TaskType
  <2>6. \A x \in ToMake(p)' : left'[x] = 0 /\ fill'[x] = 0 /\ task'[p].draft[x] = NoRow
    <3>1. \A x \in ToMake(p)' : x \in Orders \ {o} /\ x \in ToMake(p)
      BY <1>5, <2>3, OrderKinds
    <3>2. \A x \in ToMake(p) : task[p].draft[x] = NoRow
      BY <1>1 DEF PlacementShape
    <3> QED
      BY <1>4, <1>11, <1>16, <2>5, <3>1, <3>2
  <2>7. \A x \in All(p) : rows'[x] = NoRow
    BY <1>15, <2>1, <2>3
  <2>8. \A x \in Clients : task'[p].draft[x] # NoRow => x \in Own(p)
    BY <1>1, <2>2, <2>5, OrderKinds DEF PlacementShape
  <2>9. \A i, j \in DOMAIN trades : trades[i].maker = trades[j].maker => i = j
    BY <1>1 DEF PlacementShape
  <2> HIDE DEF trades
  <2> QED
    BY <1>2, <2>2, <2>3, <2>5, <2>6, <2>7, <2>8, <2>9 DEF PlacementShape, All
<1>12. ASSUME Settle(p) PROVE PlacementShape(p)'
  <2> DEFINE trades == task[p].trades
             rest == Tail(trades)
             x == Head(trades)
             d == task[p].draft
             m == Visible(p, x.maker)
  <2>1. /\ task[p].stage = "settle" /\ Running(p) /\ After(p, rest)
        /\ trades # <<>> /\ d[o] # NoRow /\ x \in TradeType /\ m \in RowType
        /\ task'[p].draft = [d EXCEPT ![o] = Bought(d[o], x.quantity, CostOf(x)),
                                      ![x.maker] = SettledRow(m, x.quantity, LevelSize)]
    BY <1>12, SettleTask
  <2>2. o \in Own(p) /\ o \in Clients /\ o \in Orders
    BY <2>1, PlacementCur
  <2>3. /\ task'[p].todo \subseteq CopiedTo(p) /\ \A r \in task'[p].todo : o # <<p, r>>
        /\ ToMake(p)' \subseteq ToMake(p) /\ o \notin ToMake(p)'
        /\ task'[p].cur = o /\ task'[p].trades = rest /\ Running(p)'
        /\ task'[p].stage \in {"settle", "copy"}
        /\ task'[p].stage = "settle" => rest # <<>>
        /\ task'[p].stage = "copy" => rest = <<>>
    BY <1>17, <2>1, <2>2
  <2>4. Bought(d[o], x.quantity, CostOf(x)) # NoRow
    <3>1. d[o] \in RowType /\ x.quantity \in Nat \ {0} /\ CostOf(x) \in Nat
      BY <1>1, <2>1, <2>2, CostBound DEF TaskType, TradeType
    <3> HIDE DEF d, x
    <3>2. Bought(d[o], x.quantity, CostOf(x)).settled = d[o].settled + x.quantity
      BY <3>1, BoughtFields
    <3>3. d[o].settled + x.quantity # 0
      BY <3>1 DEF RowType
    <3> QED
      BY <3>2, <3>3 DEF NoRow
  <2>5. /\ task'[p].draft[o] # NoRow
        /\ \A y \in Clients \ {o} : task'[p].draft[y] = d[y]
    <3>1. x.maker \in Quotes
      BY <2>1 DEF TradeType
    <3>2. d \in [Orders -> RowType]
      BY <1>1 DEF TaskType
    <3>3. x.maker # o /\ \A y \in Clients : y \in Orders /\ y # x.maker
      BY <2>2, <3>1, OrderKinds
    <3> HIDE DEF x, m, d
    <3>4. task'[p].draft[o] = Bought(d[o], x.quantity, CostOf(x))
      BY <2>1, <2>2, <3>2, <3>3
    <3>5. \A y \in Clients \ {o} : task'[p].draft[y] = d[y]
      BY <2>1, <3>2, <3>3
    <3> QED
      BY <2>4, <3>4, <3>5
  <2>6. \A y \in ToMake(p)' : left'[y] = 0 /\ fill'[y] = 0 /\ task'[p].draft[y] = NoRow
    <3>1. \A y \in ToMake(p)' : y \in Clients \ {o} /\ y \in ToMake(p)
      BY <1>5, <2>3
    <3>2. \A y \in ToMake(p) : d[y] = NoRow
      BY <1>1 DEF PlacementShape
    <3> QED
      BY <1>4, <1>12, <1>16, <2>5, <3>1, <3>2
  <2>7. \A y \in All(p) : rows'[y] = NoRow
    BY <1>15, <2>1, <2>3
  <2>8. \A y \in Clients : task'[p].draft[y] # NoRow => y \in Own(p)
    BY <1>1, <2>2, <2>5 DEF PlacementShape
  <2>9. \A i, j \in DOMAIN rest : rest[i].maker = rest[j].maker => i = j
    <3>1. trades \in AnyTrades(Quotes)
      BY <1>1 DEF TaskType, AnyTrades, TradeType
    <3>2. \A i, j \in DOMAIN trades : trades[i].maker = trades[j].maker => i = j
      BY <1>1 DEF PlacementShape
    <3> HIDE DEF trades
    <3>3. /\ rest \in AnyTrades(Quotes) /\ Len(rest) = Len(trades) - 1 /\ Len(trades) \in Nat \ {0}
          /\ \A i \in 1 .. Len(trades) - 1 : rest[i] = trades[i + 1]
      BY <2>1, <3>1, FirstTrade
    <3>4. DOMAIN trades = 1 .. Len(trades) /\ DOMAIN rest = 1 .. Len(rest)
      BY <3>1, <3>3, LenProperties DEF AnyTrades
    <3> HIDE DEF rest
    <3>5. SUFFICES ASSUME NEW i \in DOMAIN rest, NEW j \in DOMAIN rest, rest[i].maker = rest[j].maker
                   PROVE  i = j
      OBVIOUS
    <3>6. i \in 1 .. Len(trades) - 1 /\ j \in 1 .. Len(trades) - 1
      BY <3>3, <3>4
    <3>7. trades[i + 1].maker = trades[j + 1].maker /\ i + 1 \in DOMAIN trades /\ j + 1 \in DOMAIN trades
      BY <3>3, <3>4, <3>5, <3>6
    <3>8. i + 1 = j + 1
      BY <3>2, <3>7
    <3> QED
      BY <3>6, <3>8
  <2> HIDE DEF trades, rest, x, m, d
  <2> QED
    BY <1>2, <2>2, <2>3, <2>5, <2>6, <2>7, <2>8, <2>9 DEF PlacementShape, All
<1>13. ASSUME NEW r \in Relations, SkipCopy(p, r) PROVE PlacementShape(p)'
  <2>1. /\ task[p].stage = "copy" /\ task'[p].stage = "copy" /\ task'[p].cur = o
        /\ task'[p].todo = task[p].todo \ {r} /\ task'[p].trades = task[p].trades
        /\ task'[p].draft = task[p].draft /\ Running(p) /\ Running(p)'
    BY <1>13, SkipCopyTask DEF NowAt, Running
  <2>3. ToMake(p)' \subseteq ToMake(p) /\ ~Reserve(p)
    BY <2>1 DEF ToMake, Reserve, In
  <2>6. \A x \in ToMake(p)' : left'[x] = 0 /\ fill'[x] = 0 /\ task'[p].draft[x] = NoRow
    BY <1>1, <1>4, <2>1, <2>3 DEF PlacementShape
  <2>7. \A x \in All(p) : rows'[x] = NoRow
    BY <1>15, <2>1
  <2> QED
    BY <1>1, <1>2, <2>1, <2>6, <2>7 DEF PlacementShape, All
<1>14. ASSUME NEW r \in Relations, Copy(p, r) PROVE PlacementShape(p)'
  <2> DEFINE c == <<p, r>>
  <2>1. /\ task[p].stage = "copy" /\ task'[p].stage = "reserve" /\ task'[p].cur = c
        /\ task'[p].todo = task[p].todo \ {r} /\ task'[p].trades = task[p].trades
        /\ task'[p].draft = task[p].draft /\ Running(p) /\ Running(p)' /\ r \in task[p].todo
    BY <1>14, CopyTask DEF NowAt, Running
  <2>2. c # p /\ c \in Own(p) /\ \A s \in task'[p].todo : c # <<p, s>>
    BY <1>1, <2>1, OrderKinds DEF PlacementShape, Own
  <2>3. ToMake(p)' \subseteq ToMake(p) /\ ~Reserve(p) /\ c \in ToMake(p)'
    BY <2>1, <2>2 DEF ToMake, Reserve, In
  <2>6. \A x \in ToMake(p)' : left'[x] = 0 /\ fill'[x] = 0 /\ task'[p].draft[x] = NoRow
    BY <1>1, <1>4, <2>1, <2>3 DEF PlacementShape
  <2>7. \A x \in All(p) : rows'[x] = NoRow
    BY <1>15, <2>1
  <2> HIDE DEF c
  <2>8. task'[p].draft[task'[p].cur] = NoRow
    BY <2>1, <2>3, <2>6
  <2>9. /\ Running(p)' => task'[p].cur \in Own(p)'
        /\ task'[p].todo \subseteq CopiedTo(p)' /\ \A s \in task'[p].todo : task'[p].cur # <<p, s>>
        /\ \A x \in Clients : task'[p].draft[x] # NoRow => x \in Own(p)'
        /\ task'[p].trades = <<>>
    BY <1>1, <1>2, <2>1, <2>2 DEF PlacementShape
  <2>10. DOMAIN task'[p].trades = {}
    BY <2>9
  <2> QED
    BY <2>1, <2>6, <2>7, <2>8, <2>9, <2>10 DEF PlacementShape, All
<1> QED
  BY <1>1, <1>6, <1>7, <1>8, <1>9, <1>10, <1>11, <1>12, <1>13, <1>14, Moves DEF PlacementMove

\* A task keeps its locks until it ends.
LEMMA LocksStay ==
    ASSUME TypeInv, BookInv, TaskInv, Next, NEW t \in Tasks, NEW u \in Holders, holder[u] = t
    PROVE  holder'[u] = t \/ EndedTask(t) \/ Restart
<1>1. ASSUME NEW s \in Tasks, NEW v \in Holders, Free(s, v), Lock(s, v) PROVE holder'[u] = t
  <2>1. t # None
    BY NameAssumption DEF Tasks
  <2> QED
    BY <1>1, <2>1, LockType DEF Free
<1>2. CASE UNCHANGED holder
  BY <1>2
<1>3. Desk \in Holders
  BY DEF Holders
<1>4. ASSUME NEW d \in DeskTasks, DeskMove(d) PROVE holder'[u] = t
  <2>1. d \in Tasks
    BY DEF DeskTasks, Tasks
  <2>2. ASSUME StartRun(d) PROVE UNCHANGED holder
    BY <2>2 DEF StartRun, walletVars
  <2>3. ASSUME TopUp(d) PROVE Free(d, Desk) /\ Lock(d, Desk)
    BY <2>3 DEF TopUp
  <2>4. ASSUME NEW l \in Levels, Satisfied(d, l) \/ Miss(d, l) PROVE UNCHANGED holder
    BY <2>4 DEF Satisfied, Miss, walletVars
  <2>5. ASSUME NEW q \in Quotes, NEW n, AddAgain(d, q[1], q, n) PROVE UNCHANGED holder
    BY <2>5 DEF AddAgain, walletVars
  <2>6. ASSUME NEW q \in Quotes, NEW n, Place(d, q[1], q, n) PROVE Free(d, Desk) /\ Lock(d, Desk)
    BY <2>6 DEF Place
  <2>7. UNCHANGED holder \/ (Free(d, Desk) /\ Lock(d, Desk))
    BY <1>4, <2>2, <2>3, <2>4, <2>5, <2>6 DEF DeskMove
  <2> QED
    BY <1>1, <1>3, <2>1, <2>7
<1>5. ASSUME NEW p \in Placements, PlacementMove(p) PROVE holder'[u] = t
  <2>1. p \in Tasks
    BY DEF Tasks
  <2>2. ASSUME Begin(p) \/ SkipPoor(p) \/ Insert(p) PROVE UNCHANGED holder
    BY <2>2 DEF Begin, SkipPoor, Insert, walletVars
  <2>3. ASSUME Settle(p) PROVE Free(p, Desk) /\ Lock(p, Desk)
    BY <2>3 DEF Settle
  <2>4. ASSUME SkipViolated(p) PROVE Free(p, Desk) /\ Lock(p, Desk)
    BY <2>4 DEF SkipViolated, ReserveShort
  <2>5. ASSUME NEW r \in Relations, SkipCopy(p, r) \/ Copy(p, r) PROVE UNCHANGED holder
    BY <2>5 DEF SkipCopy, Copy, walletVars
  <2>6. ASSUME Reserve(p)
        PROVE  /\ UserOf(task[p].cur) \in Holders
               /\ Free(p, UserOf(task[p].cur)) /\ Lock(p, UserOf(task[p].cur))
    BY <2>6, ReserveBuys, PlacementCur DEF ReserveAndMatch
  <2>7. \/ UNCHANGED holder
        \/ \E v \in Holders : Free(p, v) /\ Lock(p, v)
    BY <1>3, <1>5, <2>2, <2>3, <2>4, <2>5, <2>6 DEF PlacementMove
  <2> QED
    BY <1>1, <2>1, <2>7
<1>6. ASSUME NEW s \in Tasks, Abort(s) PROVE holder'[u] = t \/ EndedTask(t)
  BY <1>6, AbortTask
<1>7. ASSUME NEW s \in Tasks, Finish(s) PROVE holder'[u] = t \/ EndedTask(t)
  <2>1. PICK stage \in {"ready", "done"} : (stage = "ready" <=> s = Tick) /\ Commit(s, stage)
    BY <1>7 DEF Finish
  <2> QED
    BY <2>1, CommitTask
<1>8. ASSUME NEW o \in Clients, CancelOrder(o) PROVE UNCHANGED holder
  BY <1>8 DEF CancelOrder
<1>9. ASSUME NEW r \in Relations, FollowLook(r) \/ FollowCommit(r) \/ Unfollow(r) PROVE UNCHANGED holder
  BY <1>9 DEF FollowLook, FollowCommit, Unfollow, walletVars
<1>10. \/ \E d \in DeskTasks : DeskMove(d)
       \/ \E p \in Placements : PlacementMove(p)
       \/ \E s \in Tasks : Abort(s) \/ Finish(s)
       \/ \E o \in Clients : CancelOrder(o)
       \/ \E s \in Relations : FollowLook(s) \/ FollowCommit(s) \/ Unfollow(s)
       \/ Restart
  BY Steps DEF DeskMove, PlacementMove
<1> QED
  BY <1>2, <1>4, <1>5, <1>6, <1>7, <1>8, <1>9, <1>10

LEMMA WrittenNext ==
    ASSUME TypeInv, BookInv, TaskInv, Next, NEW t \in Tasks, NEW o \in Written(t)'
    PROVE  holder'[UserOf(o)] = t
<1> USE DEF Written
<1>0. /\ task[t] \in TaskType /\ Desk \in Holders
      /\ \A q \in Quotes : UserOf(q) = Desk /\ q \in Orders
      /\ \A c \in Clients : UserOf(c) \in Holders /\ c \in Orders
  BY OrderKinds DEF TypeInv, Holders
<1>1. ASSUME ~EndedTask(t), o \in Written(t), Running(t) PROVE holder'[UserOf(o)] = t
  <2>1. holder[UserOf(o)] = t
    BY <1>1 DEF TaskInv
  <2>2. UserOf(o) \in Holders
    <3>1. o \in Orders
      BY <1>1, DraftSteps, PlacementCur, DeskMoves DEF TaskInv, DeskShape, Tasks, DeskTasks
    <3> QED
      BY <1>0, <3>1 DEF Orders
  <2>3. ~Restart
    BY <1>1, RestartTask
  <2> QED
    BY <2>1, <2>2, <2>3, <1>1, LocksStay
<1>2. ASSUME EndedTask(t) PROVE FALSE
  BY <1>2 DEF EndedTask, Idle
<1>3. ASSUME task'[t] = task[t] PROVE o \in Written(t) /\ Running(t)
  <2>1. o \in Written(t)
    BY <1>3
  <2> QED
    BY <2>1 DEF TaskInv, Idle, Running
<1>4. ASSUME o \in Written(t) PROVE Running(t)
  BY <1>4 DEF TaskInv, Idle, Running
<1>5. ASSUME t \in DeskTasks, DeskMove(t) PROVE holder'[UserOf(o)] = t
  <2>1. ~EndedTask(t) /\ task'[t].stage # "insert"
    BY <1>5, DeskMoves DEF EndedTask
  <2>2. CASE task'[t].draft = task[t].draft
    <3>1. o \in Written(t)
      BY <2>1, <2>2
    <3> QED
      BY <1>1, <1>4, <2>1, <3>1
  <2>3. ASSUME NEW q \in Quotes, NEW n \in Nat, Place(t, q[1], q, n),
               task'[t].draft = [task[t].draft EXCEPT ![q] = NewRow]
        PROVE  holder'[UserOf(o)] = t
    <3>1. CASE o = q
      <4>1. Lock(t, Desk)
        BY <2>3 DEF Place
      <4> QED
        BY <1>0, <3>1, <4>1, LockType
    <3>2. CASE o # q
      <4>1. o \in Written(t)
        BY <1>0, <2>1, <2>3, <3>2 DEF TaskType
      <4> QED
        BY <1>1, <1>4, <2>1, <4>1
    <3> QED
      BY <3>1, <3>2
  <2> QED
    BY <1>5, <2>2, <2>3, DeskMoves
<1>6. ASSUME t \in Placements, PlacementMove(t) PROVE holder'[UserOf(o)] = t
  <2>0. ASSUME o \in Written(t), task'[t].stage \in {"reserve", "insert", "settle", "copy"}
        PROVE  holder'[UserOf(o)] = t
    BY <1>1, <1>4, <2>0 DEF EndedTask
  <2>1. ASSUME task'[t].draft = task[t].draft, task'[t].stage \in {"reserve", "settle", "copy"}
        PROVE  holder'[UserOf(o)] = t
    BY <2>0, <2>1
  <2>2. ASSUME Begin(t) \/ SkipPoor(t) \/ SkipViolated(t) PROVE holder'[UserOf(o)] = t
    BY <1>6, <2>1, <2>2, BeginTask, SkipPoorTask, SkipViolatedTask DEF NowAt
  <2>3. ASSUME NEW r \in Relations, SkipCopy(t, r) \/ Copy(t, r) PROVE holder'[UserOf(o)] = t
    BY <1>6, <2>1, <2>3, SkipCopyTask, CopyTask DEF NowAt
  <2>4. ASSUME Reserve(t) PROVE holder'[UserOf(o)] = t
    <3>1. PICK n \in Nat : ReserveAndMatch(t, task[t].cur, n)
      BY <1>6, <2>4, ReserveBuys
    <3>2. /\ task'[t].draft = task[t].draft /\ task'[t].stage = "insert" /\ task'[t].cur = task[t].cur
      BY <1>6, <2>4, <3>1, ReserveTask DEF Reserve, NowAt
    <3>3. CASE o = task[t].cur
      <4>1. Lock(t, UserOf(task[t].cur)) /\ task[t].cur \in Clients
        BY <1>6, <2>4, <3>1, ReserveBuys DEF ReserveAndMatch
      <4> QED
        BY <1>0, <3>3, <4>1, LockType
    <3>4. CASE o # task[t].cur
      BY <2>0, <3>2, <3>4
    <3> QED
      BY <3>3, <3>4
  <2>5. ASSUME Insert(t) PROVE holder'[UserOf(o)] = t
    <3>1. /\ task[t].stage = "insert" /\ task'[t].stage \in {"settle", "copy"}
          /\ task'[t].draft = [task[t].draft EXCEPT ![task[t].cur] = EngineRow(task[t].cur)]
      BY <1>6, <2>5, InsertTask DEF After, NowAt
    <3>2. o \in Written(t)
      BY <1>0, <3>1 DEF TaskType
    <3> QED
      BY <2>0, <3>1, <3>2
  <2>6. ASSUME Settle(t) PROVE holder'[UserOf(o)] = t
    <3> DEFINE x == Head(task[t].trades)
               d == task[t].draft
               c == task[t].cur
               m == Visible(t, x.maker)
    <3>1. /\ task'[t].stage \in {"settle", "copy"} /\ x.maker \in Quotes /\ d[c] # NoRow
          /\ task'[t].draft = [d EXCEPT ![c] = Bought(d[c], x.quantity, CostOf(x)),
                                        ![x.maker] = SettledRow(m, x.quantity, LevelSize)]
          /\ c \in Clients
      BY <1>6, <2>6, SettleTask DEF After, NowAt, TradeType
    <3>2. CASE o = x.maker
      <4>1. Lock(t, Desk)
        BY <2>6 DEF Settle
      <4> QED
        BY <1>0, <3>1, <3>2, <4>1, LockType
    <3>3. CASE o # x.maker
      <4>1. c \in Written(t) /\ d \in [Orders -> RowType]
        BY <1>0, <3>1 DEF TaskType
      <4> HIDE DEF x, m
      <4>2. o \in Written(t)
        BY <1>0, <3>1, <3>3, <4>1
      <4> QED
        BY <2>0, <3>1, <4>2
    <3> QED
      BY <3>2, <3>3
  <2> QED
    BY <1>6, <2>2, <2>3, <2>4, <2>5, <2>6 DEF PlacementMove
<1> QED
  BY <1>1, <1>2, <1>3, <1>4, <1>5, <1>6, Moves

LEMMA RowsOwnNext ==
    ASSUME TypeInv, TaskInv, Next, NEW p \in Placements, NEW r \in Relations,
           rows'[<<p, r>>] # NoRow
    PROVE  <<p, r>> \in Own(p)'
<1> DEFINE o == <<p, r>>
<1>1. o \in Clients /\ o \in Orders /\ o \in All(p) /\ Own(p) \subseteq Own(p)'
  BY OrderKinds, CopiedGrows DEF All, Clients, Orders
<1>2. CASE rows[o] # NoRow
  BY <1>1, <1>2 DEF TaskInv
<1>3. CASE rows[o] = NoRow
  <2>1. PICK t \in Tasks : Finish(t) /\ rows'[o] = Visible(t, o)
    <3>1. ASSUME NEW x \in Clients, CancelOrder(x), rows' = [rows EXCEPT ![x].status = "CANCELLED"]
          PROVE  rows'[o] = NoRow
      <4>1. rows[x].status \in Open
        BY <3>1 DEF CancelOrder
      <4>2. x # o
        BY <1>3, <4>1 DEF NoRow, Open
      <4> QED
        BY <1>1, <1>3, <3>1, <4>2 DEF TypeInv
    <3>2. ASSUME NEW t \in Tasks, Finish(t), \A x \in Orders : rows'[x] = Visible(t, x)
          PROVE  Finish(t) /\ rows'[o] = Visible(t, o)
      BY <1>1, <3>2
    <3> QED
      BY <1>3, <3>1, <3>2, RowSteps
  <2>2. task[t].draft[o] # NoRow
    BY <1>3, <2>1 DEF Visible
  <2>3. t = p
    BY <1>1, <2>2, DraftsApart
  <2> QED
    BY <1>1, <2>2, <2>3 DEF TaskInv, PlacementShape
<1> QED
  BY <1>2, <1>3

LEMMA TaskNext ==
    ASSUME TypeInv, BookInv, TaskInv, UsedInv, Next
    PROVE  TaskInv'
<1>1. \A t \in Tasks : ~Running(t)' => Idle(t)'
  BY IdleNext
<1>2. \A t \in DeskTasks : DeskShape(t)'
  BY DeskNext
<1>3. \A p \in Placements : PlacementShape(p)'
  BY ShapeNext
<1>4. \A t \in Tasks : \A o \in Written(t)' : holder'[UserOf(o)] = t
  BY WrittenNext
<1>5. \A p \in Placements, r \in Relations : rows'[<<p, r>>] # NoRow => <<p, r>> \in Own(p)'
  BY RowsOwnNext
<1> QED
  BY <1>1, <1>2, <1>3, <1>4, <1>5 DEF TaskInv

-----------------------------------------------------------------------------
(* The follow requests.                                                    *)

\* A row of the pair, or a request that is to add one.
Claims(r) == relation[r] # "none" \/ asking[r] = "adds"

LEMMA FollowSteps ==
    ASSUME TypeInv, TaskInv, Next
    PROVE  \/ UNCHANGED followVars
           \/ \E r \in Relations : FollowLook(r) \/ FollowCommit(r) \/ Unfollow(r)
           \/ Restart
<1>1. \A d \in DeskTasks : DeskMove(d) => UNCHANGED followVars
  <2>1. \A d \in DeskTasks : StartRun(d) \/ TopUp(d) => UNCHANGED followVars
    BY DEF StartRun, TopUp
  <2>2. \A d \in DeskTasks, l \in Levels : Satisfied(d, l) \/ Miss(d, l) => UNCHANGED followVars
    BY DEF Satisfied, Miss
  <2>3. \A d \in DeskTasks, q \in Quotes, n \in Nat :
          AddAgain(d, q[1], q, n) \/ Place(d, q[1], q, n) => UNCHANGED followVars
    BY DEF AddAgain, Place
  <2> QED
    BY <2>1, <2>2, <2>3 DEF DeskMove
<1>2. \A p \in Placements : PlacementMove(p) => UNCHANGED followVars
  BY DEF PlacementMove, Begin, SkipPoor, Insert, Settle, SkipViolated, Reserve, SkipCopy, Copy
<1>3. /\ \A t \in Tasks : Abort(t) => UNCHANGED followVars
      /\ \A t \in Tasks : Finish(t) => UNCHANGED followVars
      /\ \A o \in Clients : CancelOrder(o) => UNCHANGED followVars
  BY DEF Abort, Finish, Commit, CancelOrder
<1>7. \/ \E d \in DeskTasks : DeskMove(d)
      \/ \E p \in Placements : PlacementMove(p)
      \/ \E s \in Tasks : Abort(s) \/ Finish(s)
      \/ \E o \in Clients : CancelOrder(o)
      \/ \E s \in Relations : FollowLook(s) \/ FollowCommit(s) \/ Unfollow(s)
      \/ Restart
  BY Steps DEF DeskMove, PlacementMove
<1> QED
  BY <1>1, <1>2, <1>3, <1>7

LEMMA FollowNext ==
    ASSUME TypeInv, TaskInv, FollowInv, Next
    PROVE  FollowInv'
<1>1. ASSUME raced \subseteq raced', \A r \in Relations : Claims(r)' => Claims(r)
      PROVE  FollowInv'
  <2>1. \A r \in Relations : \A s \in SamePair(r) \ {r} : Claims(r) /\ Claims(s) => {r, s} \subseteq raced
    BY DEF FollowInv, Claims
  <2>2. \A r \in Relations : \A s \in SamePair(r) \ {r} :
          Claims(r)' /\ Claims(s)' => {r, s} \subseteq raced'
    BY <1>1, <2>1 DEF SamePair
  <2> QED
    BY <2>2 DEF FollowInv, Claims, SamePair
<1>2. CASE UNCHANGED followVars
  BY <1>1, <1>2 DEF followVars, Claims
<1>3. ASSUME NEW r \in Relations, FollowLook(r) PROVE FollowInv'
  <2> DEFINE others == {s \in SamePair(r) : asking[s] \in {"adds", "revives"}}
  <2>1. /\ relation' = relation /\ relation[r] = "none"
        /\ asking' = [asking EXCEPT ![r] = IF Adds(r) THEN "adds" ELSE "revives"]
        /\ asking \in [Relations -> {"idle", "adds", "revives", "done"}]
    BY <1>3 DEF FollowLook, TypeInv
  <2>2. raced' = IF others # {} THEN raced \cup {r} \cup others ELSE raced
    BY <1>3 DEF FollowLook
  <2>3. \A x \in Relations \ {r} : Claims(x)' => Claims(x)
    BY <2>1 DEF Claims
  <2>4. ASSUME NEW s \in SamePair(r) \ {r}, Claims(r)', Claims(s)' PROVE {r, s} \subseteq raced'
    <3>1. Found(r) = {}
      BY <2>1, <2>4 DEF Claims, Adds
    <3>2. s \in Relations /\ relation[s] = "none"
      BY <3>1 DEF Found, SamePair
    <3>3. s \in others
      BY <2>3, <2>4, <3>2 DEF Claims
    <3> QED
      BY <2>2, <3>3
  <2>5. ASSUME NEW x \in Relations, NEW y \in SamePair(x) \ {x}, Claims(x)', Claims(y)'
        PROVE  {x, y} \subseteq raced'
    <3>1. CASE x = r
      BY <2>4, <2>5, <3>1
    <3>2. CASE y = r
      <4>1. x \in SamePair(r) \ {r}
        BY <2>5, <3>2 DEF SamePair
      <4> QED
        BY <2>4, <2>5, <3>2, <4>1
    <3>3. CASE x # r /\ y # r
      <4>1. Claims(x) /\ Claims(y) /\ y \in Relations
        BY <2>3, <2>5, <3>3 DEF SamePair
      <4> QED
        BY <2>2, <2>5, <4>1 DEF FollowInv, Claims
    <3> QED
      BY <3>1, <3>2, <3>3
  <2> QED
    BY <2>5 DEF FollowInv, Claims, SamePair
<1>4. ASSUME NEW r \in Relations, FollowCommit(r) PROVE FollowInv'
  <2>1. raced' = raced
    BY <1>4 DEF FollowCommit
  <2>2. ASSUME NEW x \in Relations, Claims(x)' PROVE Claims(x)
    BY <1>4, <2>2 DEF FollowCommit, Claims, Found, TypeInv
  <2> QED
    BY <1>1, <2>1, <2>2
<1>5. ASSUME NEW r \in Relations, Unfollow(r) PROVE FollowInv'
  <2>1. raced' = raced
    BY <1>5 DEF Unfollow
  <2>2. ASSUME NEW x \in Relations, Claims(x)' PROVE Claims(x)
    <3>1. relation[r] # "none"
      BY <1>5 DEF Unfollow, Found
    <3> QED
      BY <1>5, <2>2, <3>1 DEF Unfollow, Claims, TypeInv
  <2> QED
    BY <1>1, <2>1, <2>2
<1>6. CASE Restart
  <2>1. raced' = raced
    BY <1>6 DEF Restart
  <2>2. ASSUME NEW x \in Relations, Claims(x)' PROVE Claims(x)
    BY <1>6, <2>2 DEF Restart, Claims
  <2> QED
    BY <1>1, <2>1, <2>2
<1> QED
  BY <1>2, <1>3, <1>4, <1>5, <1>6, FollowSteps

-----------------------------------------------------------------------------
(* The limit on open orders.                                               *)

\* An order that is open for some transaction, or is being made.
Made(o) ==
    \/ rows[o].status \in Open
    \/ \E t \in Placements : o \in Coming(t) \/ task[t].draft[o].status \in Open

\* Placement p checks the limit for o and goes on to make it.
Starts(p, o) == (Begin(p) /\ o = p) \/ \E r \in Relations : Copy(p, r) /\ o = <<p, r>>

LEMMA StartsTask ==
    ASSUME TypeInv, NEW p \in Placements, NEW o, Starts(p, o)
    PROVE  /\ Alone(p) /\ task[p].stage \in {"ready", "copy"}
           /\ task'[p].stage = "reserve" /\ task'[p].cur = o
           /\ WithinLimits(p, UserOf(o)) /\ Check(p, o) /\ o \in Clients
<1>1. CASE Begin(p) /\ o = p
  <2>1. /\ task[p].stage = "ready" /\ Alone(p)
        /\ NowAt(p, "reserve", p, task[p].trades, task[p].todo)
    BY <1>1, BeginTask
  <2>2. WithinLimits(p, Owner[p]) /\ Check(p, p)
    BY <1>1 DEF Begin
  <2> QED
    BY <1>1, <2>1, <2>2, OrderKinds DEF NowAt
<1>2. ASSUME NEW r \in Relations, Copy(p, r), o = <<p, r>>
      PROVE  /\ Alone(p) /\ task[p].stage \in {"ready", "copy"}
             /\ task'[p].stage = "reserve" /\ task'[p].cur = o
             /\ WithinLimits(p, UserOf(o)) /\ Check(p, o) /\ o \in Clients
  <2>1. /\ task[p].stage = "copy" /\ Alone(p)
        /\ NowAt(p, "reserve", <<p, r>>, task[p].trades, task[p].todo \ {r})
    BY <1>2, CopyTask
  <2>2. WithinLimits(p, Follower[r]) /\ Check(p, <<p, r>>)
    BY <1>2 DEF Copy
  <2>3. UserOf(<<p, r>>) = Follower[r] /\ <<p, r>> \in Clients
    BY OrderKinds DEF Clients
  <2> QED
    BY <1>2, <2>1, <2>2, <2>3 DEF NowAt
<1> QED
  BY <1>1, <1>2 DEF Starts

LEMMA CrowdedNext ==
    ASSUME TypeInv, TaskInv, Next
    PROVE  crowded \subseteq crowded'
<1>1. \A d \in DeskTasks : DeskMove(d) => crowded' = crowded
  <2>1. \A d \in DeskTasks : StartRun(d) \/ TopUp(d) => crowded' = crowded
    BY DEF StartRun, TopUp
  <2>2. \A d \in DeskTasks, l \in Levels : Satisfied(d, l) \/ Miss(d, l) => crowded' = crowded
    BY DEF Satisfied, Miss
  <2>3. \A d \in DeskTasks, q \in Quotes, n \in Nat :
          AddAgain(d, q[1], q, n) \/ Place(d, q[1], q, n) => crowded' = crowded
    BY DEF AddAgain, Place
  <2> QED
    BY <2>1, <2>2, <2>3 DEF DeskMove
<1>2. \A p \in Placements : PlacementMove(p) => crowded \subseteq crowded'
  BY DEF PlacementMove, Begin, SkipPoor, Insert, Settle, SkipViolated, Reserve, SkipCopy, Copy, Check
<1>3. /\ \A t \in Tasks : Abort(t) => crowded' = crowded
      /\ \A t \in Tasks : Finish(t) => crowded' = crowded
      /\ \A o \in Clients : CancelOrder(o) => crowded' = crowded
  BY DEF Abort, Finish, Commit, CancelOrder
<1>4. /\ \A r \in Relations : FollowLook(r) \/ FollowCommit(r) \/ Unfollow(r) => crowded' = crowded
      /\ Restart => crowded' = crowded
  BY DEF FollowLook, FollowCommit, Unfollow, Restart
<1>7. \/ \E d \in DeskTasks : DeskMove(d)
      \/ \E p \in Placements : PlacementMove(p)
      \/ \E s \in Tasks : Abort(s) \/ Finish(s)
      \/ \E o \in Clients : CancelOrder(o)
      \/ \E s \in Relations : FollowLook(s) \/ FollowCommit(s) \/ Unfollow(s)
      \/ Restart
  BY Steps DEF DeskMove, PlacementMove
<1> QED
  BY <1>1, <1>2, <1>3, <1>4, <1>7

LEMMA MadeNext ==
    ASSUME TypeInv, BookInv, TaskInv, TypeInv', TaskInv', Next,
           NEW p \in Placements, NEW o \in All(p), Made(o)'
    PROVE  Made(o) \/ Starts(p, o)
<1>0. o \in Clients /\ o \in Orders /\ p \in Tasks
  BY AllClients, OrderKinds DEF Tasks
<1>1. CASE rows'[o].status \in Open
  <2>1. CASE rows' = rows
    BY <1>1, <2>1 DEF Made
  <2>2. ASSUME NEW t \in Tasks, rows'[o] = Visible(t, o) PROVE Made(o)
    <3>1. CASE t = p
      BY <1>1, <2>2, <3>1 DEF Made, Visible
    <3>2. CASE t # p
      BY <1>1, <2>2, <3>2, DraftsApart DEF Made, Visible
    <3> QED
      BY <3>1, <3>2
  <2>3. ASSUME NEW c \in Clients, rows' = [rows EXCEPT ![c].status = "CANCELLED"] PROVE Made(o)
    <3>1. rows \in [Orders -> RowType]
      BY DEF TypeInv
    <3>2. c # o
      BY <1>0, <1>1, <2>3, <3>1 DEF Open, RowType
    <3> QED
      BY <1>0, <1>1, <2>3, <3>1, <3>2 DEF Made
  <2> QED
    BY <1>0, <2>1, <2>2, <2>3, RowSteps
<1>2. ASSUME NEW t \in Placements, o \in Coming(t)' PROVE Made(o) \/ Starts(p, o)
  <2>1. task'[t].stage \in {"reserve", "insert"} /\ task'[t].cur = o
    BY <1>2 DEF Coming
  <2>2. Running(t)' /\ PlacementShape(t)'
    BY <2>1 DEF Running, TaskInv
  <2>3. o \in Own(t)'
    BY <2>1, <2>2 DEF PlacementShape
  <2>4. o \in All(t)
    BY <2>3 DEF Own, All, CopiedTo
  <2>5. t = p
    BY <2>4, AllApart
  <2>6. CASE task'[p] = task[p]
    BY <2>1, <2>5, <2>6 DEF Made, Coming
  <2>7. CASE EndedTask(p)
    BY <2>2, <2>5, <2>7 DEF EndedTask
  <2>8. CASE PlacementMove(p)
    <3>1. CASE Begin(p)
      BY <2>1, <2>5, <3>1, BeginTask DEF Starts, NowAt
    <3>2. CASE SkipPoor(p)
      BY <2>1, <2>5, <3>2, SkipPoorTask DEF NowAt
    <3>3. CASE Insert(p)
      <4>1. After(p, task[p].trades)
        BY <3>3, InsertTask
      <4> QED
        BY <2>1, <2>5, <4>1 DEF After, NowAt
    <3>4. CASE Settle(p)
      <4>1. After(p, Tail(task[p].trades))
        BY <3>4, SettleTask
      <4> QED
        BY <2>1, <2>5, <4>1 DEF After, NowAt
    <3>5. CASE SkipViolated(p)
      BY <2>1, <2>5, <3>5, SkipViolatedTask DEF NowAt
    <3>6. CASE Reserve(p)
      <4>1. \E n \in Nat : ReserveAndMatch(p, task[p].cur, n)
        BY <3>6, ReserveBuys
      <4>2. task[p].stage = "reserve" /\ task'[p].cur = task[p].cur
        BY <3>6, <4>1, ReserveTask DEF NowAt, Reserve
      <4> QED
        BY <2>1, <2>5, <4>2 DEF Made, Coming
    <3>7. ASSUME NEW r \in Relations, SkipCopy(p, r) PROVE FALSE
      BY <2>1, <2>5, <3>7, SkipCopyTask DEF NowAt
    <3>8. ASSUME NEW r \in Relations, Copy(p, r) PROVE Starts(p, o)
      BY <2>1, <2>5, <3>8, CopyTask DEF NowAt, Starts
    <3> QED
      BY <2>8, <3>1, <3>2, <3>3, <3>4, <3>5, <3>6, <3>7, <3>8 DEF PlacementMove
  <2>9. ~DeskMove(p) \/ p \notin DeskTasks
    BY NameAssumption DEF DeskTasks
  <2> QED
    BY <1>0, <2>6, <2>7, <2>8, <2>9, Moves
<1>3. ASSUME NEW t \in Placements, task'[t].draft[o].status \in Open PROVE Made(o)
  <2>1. task'[t].draft[o] # NoRow
    BY <1>3 DEF NoRow, Open
  <2>2. o \in Own(t)'
    BY <1>0, <2>1 DEF TaskInv, PlacementShape
  <2>3. t = p
    BY <2>2, AllApart DEF Own, All, CopiedTo
  <2>4. CASE task'[p].draft = task[p].draft
    BY <1>3, <2>3, <2>4 DEF Made
  <2>5. CASE EndedTask(p)
    BY <1>0, <2>1, <2>3, <2>5 DEF EndedTask, Idle
  <2>6. CASE Insert(p)
    <3>1. task[p].stage = "insert" /\ task[p] \in TaskType
          /\ task'[p].draft = [task[p].draft EXCEPT ![task[p].cur] = EngineRow(task[p].cur)]
      BY <1>0, <2>6, InsertTask DEF TypeInv
    <3>2. CASE o = task[p].cur
      BY <3>1, <3>2 DEF Made, Coming
    <3>3. CASE o # task[p].cur
      <4>1. task'[p].draft[o] = task[p].draft[o]
        BY <1>0, <3>1, <3>3 DEF TaskType
      <4> QED
        BY <1>3, <2>3, <4>1 DEF Made
    <3> QED
      BY <3>2, <3>3
  <2>7. CASE Settle(p)
    <3> DEFINE d == task[p].draft
               c == task[p].cur
               x == Head(task[p].trades)
               m == Visible(p, x.maker)
    <3>1. /\ d[c] # NoRow /\ x \in TradeType
          /\ task'[p].draft = [d EXCEPT ![c] = Bought(d[c], x.quantity, CostOf(x)),
                                        ![x.maker] = SettledRow(m, x.quantity, LevelSize)]
      BY <2>7, SettleTask
    <3>2. d \in [Orders -> RowType] /\ x.maker \in Quotes
      BY <1>0, <3>1 DEF TypeInv, TaskType, TradeType
    <3>3. x.maker # o /\ c \in Clients /\ c \in Orders
      BY <1>0, <2>7, <3>2, SettleTask, OrderKinds
    <3>4. x.quantity \in Nat /\ CostOf(x) \in Nat
      BY <3>1, <3>3, CostBound DEF TradeType
    <3> HIDE DEF d, c, x, m
    <3>5. Bought(d[c], x.quantity, CostOf(x)).status = d[c].status
      BY <3>2, <3>3, <3>4, BoughtFields
    <3>6. task'[p].draft[o].status = d[o].status
      BY <1>0, <3>1, <3>2, <3>3, <3>5
    <3> QED
      BY <1>3, <2>3, <3>6 DEF Made, d
  <2>8. p \notin DeskTasks
    BY NameAssumption DEF DeskTasks
  <2> QED
    BY <1>0, <2>4, <2>5, <2>6, <2>7, <2>8, DraftSteps
<1> QED
  BY <1>1, <1>2, <1>3 DEF Made

\* Whoever checks an order alone sees every order that its user is promised.
LEMMA SeenPromises ==
    ASSUME TypeInv, TaskInv, NEW p \in Placements, task[p].stage \in {"ready", "copy"},
           NEW u \in Users, ~UnderWay(p, u)
    PROVE  Promised(u) \subseteq OpenOf(p, u)
<1> SUFFICES ASSUME NEW x \in Promised(u) PROVE Visible(p, x).status \in Open
  BY DEF Promised, OpenOf
<1>0. x \in Clients /\ UserOf(x) = u /\ x \in Orders /\ p \in Tasks
  BY OrderKinds DEF Promised, Tasks
<1>1. CASE rows[x].status \in Open
  <2>1. task[p].draft[x] = NoRow
    <3>1. rows[x] # NoRow
      BY <1>1 DEF NoRow, Open
    <3>2. \A o \in All(p) : rows[o] = NoRow
      BY DEF TaskInv, PlacementShape
    <3>3. task[p].draft[x] # NoRow => x \in Own(p)
      BY <1>0 DEF TaskInv, PlacementShape
    <3> QED
      BY <3>1, <3>2, <3>3, AllClients
  <2> QED
    BY <1>1, <2>1 DEF Visible
<1>2. ASSUME NEW t \in Placements \ {p}, Running(t), x \in Own(t) PROVE FALSE
  <2>1. CASE x = t
    BY <1>0, <1>2, <2>1, OrderKinds DEF UnderWay
  <2>2. ASSUME NEW r \in Relations, x = <<t, r>>, Leader[r] = Owner[t] PROVE FALSE
    <3>1. Follower[r] = u
      BY <1>0, <2>2, OrderKinds
    <3> QED
      BY <1>2, <2>2, <3>1 DEF UnderWay
  <2> QED
    BY <1>2, <2>1, <2>2 DEF Own, CopiedTo
<1>3. ASSUME NEW t \in Placements, x \in Coming(t) PROVE FALSE
  <2>1. task[t].stage \in {"reserve", "insert"} /\ task[t].cur = x
    BY <1>3 DEF Coming
  <2>2. Running(t) /\ t # p
    BY <2>1 DEF Running
  <2>3. x \in Own(t)
    BY <2>1, <2>2 DEF TaskInv, PlacementShape
  <2> QED
    BY <1>2, <2>2, <2>3
<1>4. ASSUME NEW t \in Placements, task[t].draft[x].status \in Open
      PROVE  Visible(p, x).status \in Open
  <2>1. task[t].draft[x] # NoRow
    BY <1>4 DEF NoRow, Open
  <2>2. t \in Tasks /\ x \in Own(t)
    BY <1>0, <2>1 DEF TaskInv, PlacementShape, Tasks
  <2>3. Running(t)
    BY <1>0, <2>1, <2>2 DEF TaskInv, Idle
  <2>4. t = p
    BY <1>2, <2>2, <2>3
  <2> QED
    BY <1>4, <2>1, <2>4 DEF Visible
<1> QED
  BY <1>1, <1>3, <1>4 DEF Promised

LEMMA LimitNext ==
    ASSUME TypeInv, BookInv, TaskInv, LimitInv, TypeInv', TaskInv', Next
    PROVE  LimitInv'
<1> SUFFICES ASSUME NEW u \in Users PROVE Cardinality(Promised(u)') <= MaxOpen
  BY DEF LimitInv
<1> DEFINE now == Promised(u)
           next == Promised(u)'
<1>1. \A x : x \in next <=> x \in Clients /\ x \notin crowded' /\ UserOf(x) = u /\ Made(x)'
  BY DEF Promised, Made
<1>2. \A x : x \in now <=> x \in Clients /\ x \notin crowded /\ UserOf(x) = u /\ Made(x)
  BY DEF Promised, Made
<1>3. crowded \subseteq crowded'
  BY CrowdedNext
<1>4. \A p \in Placements : \A o \in All(p) : Made(o)' => Made(o) \/ Starts(p, o)
  BY MadeNext
<1>5. IsFiniteSet(Clients) /\ now \subseteq Clients /\ next \subseteq Clients /\ MaxOpen \in Nat
  BY <1>1, <1>2, Finite, ClientAssumption
<1>6. Cardinality(now) <= MaxOpen
  BY DEF LimitInv
<1> HIDE DEF now, next
<1>7. IsFiniteSet(now) /\ IsFiniteSet(next) /\ Cardinality(now) \in Nat
  BY <1>5, FS_Subset, FS_CardinalityType
<1>8. CASE next \subseteq now
  <2>1. Cardinality(next) <= Cardinality(now) /\ Cardinality(next) \in Nat
    BY <1>7, <1>8, FS_Subset, FS_CardinalityType
  <2> QED
    BY <1>5, <1>6, <1>7, <2>1 DEF next
<1>9. ASSUME NEW o \in next, o \notin now PROVE Cardinality(next) <= MaxOpen
  <2>1. o \in Clients /\ o \notin crowded /\ o \notin crowded' /\ UserOf(o) = u /\ ~Made(o) /\ Made(o)'
    BY <1>1, <1>2, <1>3, <1>9
  <2>2. PICK p \in Placements : o \in All(p)
    BY <2>1, EveryClient
  <2>3. Starts(p, o)
    BY <1>4, <2>1, <2>2
  <2>4. /\ Alone(p) /\ task[p].stage \in {"ready", "copy"}
        /\ task'[p].stage = "reserve" /\ task'[p].cur = o
        /\ WithinLimits(p, u) /\ Check(p, o)
    BY <2>1, <2>3, StartsTask
  <2>5. ~UnderWay(p, u)
    BY <2>1, <2>4 DEF Check
  <2>6. now \subseteq OpenOf(p, u)
    BY <2>4, <2>5, SeenPromises DEF now
  <2>7. OpenOf(p, u) \subseteq Clients /\ Cardinality(OpenOf(p, u)) < MaxOpen
    BY <2>4 DEF OpenOf, WithinLimits
  <2> DEFINE seen == OpenOf(p, u)
  <2> HIDE DEF seen
  <2>8. IsFiniteSet(seen) /\ Cardinality(seen) \in Nat /\ Cardinality(now) <= Cardinality(seen)
    BY <1>5, <2>6, <2>7, FS_Subset, FS_CardinalityType DEF seen
  <2>9. next \subseteq now \cup {o}
    <3> SUFFICES ASSUME NEW x \in next, x \notin now, x # o PROVE FALSE
      OBVIOUS
    <3>1. x \in Clients /\ x \notin crowded /\ ~Made(x) /\ Made(x)'
      BY <1>1, <1>2, <1>3
    <3>2. PICK t \in Placements : x \in All(t)
      BY <3>1, EveryClient
    <3>3. Starts(t, x)
      BY <1>4, <3>1, <3>2
    <3>4. /\ task[t].stage \in {"ready", "copy"}
          /\ task'[t].stage = "reserve" /\ task'[t].cur = x
      BY <3>3, StartsTask
    <3>5. t = p
      BY <2>4, <3>4 DEF Alone, Tasks
    <3> QED
      BY <2>4, <3>4, <3>5
  <2>10. Cardinality(now \cup {o}) = Cardinality(now) + 1 /\ IsFiniteSet(now \cup {o})
    BY <1>7, <1>9, FS_AddElement
  <2>11. Cardinality(next) <= Cardinality(now) + 1 /\ Cardinality(next) \in Nat
    BY <1>7, <2>9, <2>10, FS_Subset, FS_CardinalityType
  <2> QED
    BY <1>5, <1>7, <2>7, <2>8, <2>11 DEF seen
<1> QED
  BY <1>8, <1>9 DEF next

-----------------------------------------------------------------------------
(* The first part of the invariant: types, the book, tasks and limits.     *)

Order == TypeInv /\ BookInv /\ TaskInv /\ UsedInv /\ FollowInv /\ LimitInv

LEMMA FirstBook ==
    ASSUME book = [buy |-> <<>>, sell |-> <<>>], left = [o \in Orders |-> 0]
    PROVE  book \in [buy : Seq(Clients), sell : Seq(Quotes)] /\ BookInv
<1>1. book.buy = <<>> /\ book.sell = <<>> /\ Len(<<>>) = 0 /\ 1 .. 0 = {}
  BY EmptySeq
<1>2. <<>> \in Seq(Clients) /\ <<>> \in Seq(Quotes)
  BY EmptySeq
<1>3. /\ \A S : <<>> \in Seq(S) => Once(<<>>, S)
      /\ On(<<>>) = {}
  BY <1>1 DEF Once, On
<1>4. \A o \in Orders : left[o] = 0
  OBVIOUS
<1>5. {o \in Clients : left[o] > 0} = {} /\ {q \in Quotes : left[q] > 0} = {}
  BY <1>4, OrderKinds
<1>6. Once(book.buy, Clients) /\ Once(book.sell, Quotes) /\ On(book.buy) = {} /\ On(book.sell) = {}
  BY <1>1, <1>2, <1>3
<1> QED
  BY <1>1, <1>2, <1>5, <1>6 DEF BookInv

LEMMA FirstOrder == ASSUME Init PROVE Order
<1>1. book \in [buy : Seq(Clients), sell : Seq(Quotes)] /\ BookInv
  BY FirstBook DEF Init
<1>2. /\ rows = [o \in Orders |-> NoRow] /\ left = [o \in Orders |-> 0]
      /\ fill = [o \in Clients |-> 0]
      /\ holder = [u \in Holders |-> None] /\ task = [t \in Tasks |-> Fresh]
      /\ used = {} /\ relation = [r \in Relations |-> IF r \in FirstRelations THEN "active" ELSE "none"]
      /\ asking = [r \in Relations |-> "idle"] /\ opened = FALSE /\ wallet = committed
      /\ committed = [u \in Holders |-> [available |-> IF u = Desk THEN 0 ELSE Funds[u], locked |-> 0]]
  BY DEF Init
<1>3. NoRow \in RowType /\ Fresh \in TaskType
  BY RowTypes, FreshFields
<1>4. committed \in [Holders -> Ledger]
  <2>1. \A u \in Holders : (IF u = Desk THEN 0 ELSE Funds[u]) \in Int
    BY ClientAssumption DEF Holders
  <2> QED
    BY <1>2, <2>1 DEF Ledger
<1>5. TypeInv
  BY <1>1, <1>2, <1>3, <1>4 DEF TypeInv
<1>6. \A t \in Tasks : /\ task[t] = Fresh /\ task[t].stage = "ready" /\ task[t].trades = <<>>
                       /\ task[t].cur = None /\ task[t].todo = {}
                       /\ \A o \in Orders : task[t].draft[o] = NoRow
  BY <1>2 DEF Fresh
<1>7. DeskTasks \subseteq Tasks /\ Placements \subseteq Tasks
  BY DEF DeskTasks, Tasks
<1>8. DOMAIN <<>> = {}
  OBVIOUS
<1>9. \A o \in Orders : rows[o] = NoRow /\ left[o] = 0
  BY <1>2
<1>10. \A t \in Tasks : Idle(t) /\ ~Running(t)
  BY <1>6 DEF Idle, Running
<1>11. \A d \in DeskTasks : DeskShape(d)
  BY <1>6, <1>7, OrderKinds DEF DeskShape
<1>12. ASSUME NEW p \in Placements PROVE PlacementShape(p)
  <2>1. /\ task[p].stage = "ready" /\ task[p].trades = <<>> /\ task[p].todo = {}
        /\ \A o \in Clients : task[p].draft[o] = NoRow
        /\ ~Running(p)
    BY <1>6, <1>7, <1>10, OrderKinds
  <2>2. All(p) \subseteq Clients /\ ToMake(p) = All(p)
    BY <2>1, AllClients DEF ToMake
  <2>3. \A o \in All(p) : rows[o] = NoRow /\ left[o] = 0 /\ fill[o] = 0
    BY <1>2, <1>9, <2>2, OrderKinds
  <2> QED
    BY <1>8, <2>1, <2>2, <2>3 DEF PlacementShape
<1>13. \A t \in Tasks : Written(t) = {}
  BY <1>6 DEF Written
<1>14. TaskInv
  <2>1. \A p \in Placements, r \in Relations : <<p, r>> \in Orders
    BY OrderKinds DEF Clients, Orders
  <2> QED
    BY <1>9, <1>10, <1>11, <1>12, <1>13, <2>1 DEF TaskInv
<1>15. UsedInv
  <2>1. \A t \in Tasks : Makers(task[t].trades) = {}
    BY <1>6, <1>8 DEF Makers
  <2> QED
    BY <1>6, <1>9, <2>1, OrderKinds DEF UsedInv, Unused
<1>16. FollowInv
  <2> SUFFICES ASSUME NEW r \in Relations, NEW s \in SamePair(r) \ {r},
                      relation[r] # "none", relation[s] # "none"
               PROVE FALSE
    BY <1>2 DEF FollowInv, SamePair
  <2>1. r \in FirstRelations /\ s \in FirstRelations
    BY <1>2 DEF SamePair
  <2> QED
    BY <2>1, FirstAssumption
<1>17. LimitInv
  <2>1. NoRow.status \notin Open
    BY DEF NoRow, Open
  <2>2. \A t \in Placements : Coming(t) = {}
    BY <1>6, <1>7 DEF Coming
  <2>3. \A u : Promised(u) = {}
    BY <1>6, <1>7, <1>9, <2>1, <2>2, OrderKinds DEF Promised
  <2> QED
    <3>1. Cardinality({}) <= MaxOpen
      BY FS_EmptySet, ClientAssumption
    <3>2. \A u \in Users : Promised(u) = {}
      BY <2>3
    <3> QED
      BY Zenon, <3>1, <3>2 DEF LimitInv
<1> QED
  BY <1>1, <1>5, <1>14, <1>15, <1>16, <1>17 DEF Order

LEMMA OrderNext == ASSUME Order, Next PROVE Order'
<1>1. TypeInv' /\ BookInv' /\ TaskInv' /\ UsedInv' /\ FollowInv'
  BY TypeNext, BookNext, TaskNext, UsedNext, FollowNext DEF Order
<1>2. LimitInv'
  BY <1>1, LimitNext DEF Order
<1> QED
  BY <1>1, <1>2 DEF Order

-----------------------------------------------------------------------------
(* Rows as their wallets' holders see them.                                *)

Inserting(o) == \E t \in Placements : task[t].stage = "insert" /\ task[t].cur = o

\* The step leaves the row of o, as committed and as seen, as it is.
Unmoved(o) ==
    rows'[o] = rows[o] /\ View(o)' = View(o) /\ (Inserting(o)' <=> Inserting(o))

\* A row that is written is seen; until then the committed one is.
LEMMA ViewIs ==
    ASSUME TypeInv, TaskInv, NEW o \in Orders
    PROVE  /\ \A t \in Tasks : task[t].draft[o] # NoRow =>
                View(o) = task[t].draft[o] /\ holder[UserOf(o)] = t
           /\ (\A t \in Tasks : task[t].draft[o] = NoRow) => View(o) = rows[o]
           /\ \A t \in Tasks : Free(t, UserOf(o)) => View(o) = Visible(t, o)
           /\ holder[UserOf(o)] = None => View(o) = rows[o]
           /\ View(o) \in RowType
           /\ UserOf(o) \in Holders
<1>0. UserOf(o) \in Holders
  BY OrderKinds DEF Orders, Holders
<1>1. holder[UserOf(o)] \in Tasks \cup {None} /\ None \notin Tasks
  BY <1>0, NameAssumption DEF TypeInv
<1>2. \A t \in Tasks : task[t].draft[o] # NoRow => holder[UserOf(o)] = t
  BY DEF TaskInv, Written
<1>3. \A t \in Tasks : task[t].draft[o] # NoRow => View(o) = task[t].draft[o]
  BY <1>1, <1>2 DEF View, Visible
<1>4. (\A t \in Tasks : task[t].draft[o] = NoRow) => View(o) = rows[o]
  BY <1>1 DEF View, Visible
<1>5. ASSUME NEW t \in Tasks, Free(t, UserOf(o)) PROVE View(o) = Visible(t, o)
  <2>1. CASE holder[UserOf(o)] = t
    BY <1>1, <2>1 DEF View
  <2>2. CASE holder[UserOf(o)] = None
    BY <1>1, <1>2, <2>2 DEF View, Visible
  <2> QED
    BY <1>5, <2>1, <2>2 DEF Free
<1>6. View(o) \in RowType
  <2>1. \A t \in Tasks : task[t].draft[o] \in RowType
    BY DEF TypeInv, TaskType
  <2>2. rows[o] \in RowType
    BY DEF TypeInv
  <2> QED
    BY <1>3, <1>4, <2>1, <2>2
<1>7. holder[UserOf(o)] = None => View(o) = rows[o]
  BY DEF View
<1> QED
  BY <1>0, <1>2, <1>3, <1>4, <1>5, <1>6, <1>7

LEMMA ViewSame ==
    ASSUME TypeInv, TaskInv, TypeInv', TaskInv', NEW o \in Orders,
           rows'[o] = rows[o], \A t \in Tasks : task'[t].draft[o] = task[t].draft[o]
    PROVE  View(o)' = View(o)
<1> DEFINE u == UserOf(o)
<1>1. u \in Holders /\ None \notin Tasks
  BY ViewIs, NameAssumption
<1>2. holder[u] \in Tasks \cup {None} /\ holder'[u] \in Tasks \cup {None}
  BY <1>1 DEF TypeInv
<1>3. \A t \in Tasks : task[t].draft[o] # NoRow => holder[u] = t /\ holder'[u] = t
  BY DEF TaskInv, Written
<1>4. View(o) = IF holder[u] = None THEN rows[o]
                ELSE IF task[holder[u]].draft[o] # NoRow THEN task[holder[u]].draft[o] ELSE rows[o]
  BY DEF View, Visible
<1>5. View(o)' = IF holder'[u] = None THEN rows'[o]
                 ELSE IF task'[holder'[u]].draft[o] # NoRow THEN task'[holder'[u]].draft[o] ELSE rows'[o]
  BY DEF View, Visible
<1> HIDE DEF u
<1>6. CASE \A t \in Tasks : task[t].draft[o] = NoRow
  BY <1>2, <1>4, <1>5, <1>6
<1>7. ASSUME NEW t \in Tasks, task[t].draft[o] # NoRow PROVE View(o)' = View(o)
  BY <1>1, <1>2, <1>3, <1>4, <1>5, <1>7
<1> QED
  BY <1>6, <1>7

LEMMA InsertingSame ==
    ASSUME NEW t, Alone(t), task[t].stage # "insert", task'[t].stage # "insert", NEW o
    PROVE  Inserting(o)' <=> Inserting(o)
BY DEF Alone, Inserting, Tasks

LEMMA WhoInserts ==
    ASSUME TypeInv, TaskInv, NEW o, Inserting(o)
    PROVE  /\ o \in Clients /\ holder[UserOf(o)] \in Placements
           /\ task[holder[UserOf(o)]].stage = "insert" /\ task[holder[UserOf(o)]].cur = o
<1>1. PICK t \in Placements : task[t].stage = "insert" /\ task[t].cur = o
  BY DEF Inserting
<1>2. o \in Clients /\ o \in Orders /\ t \in Tasks
  BY <1>1, PlacementCur DEF Running
<1>3. holder[UserOf(o)] = t
  BY <1>1, <1>2 DEF TaskInv, Written
<1> QED
  BY <1>1, <1>2, <1>3

\* Steps that write no rows.
Quiet ==
    \/ UNCHANGED task
    \/ \E t \in Tasks :
         /\ Alone(t) /\ task'[t].draft = task[t].draft
         /\ task[t].stage # "insert" /\ task'[t].stage # "insert"

LEMMA QuietRows ==
    ASSUME TypeInv, TaskInv, TypeInv', TaskInv', Quiet, rows' = rows
    PROVE  \A o \in Orders : Unmoved(o)
<1> SUFFICES ASSUME NEW o \in Orders PROVE Unmoved(o)
  OBVIOUS
<1>1. \A t \in Tasks : task'[t].draft[o] = task[t].draft[o]
  BY DEF Quiet, Alone
<1>2. View(o)' = View(o)
  BY <1>1, ViewSame
<1>3. Inserting(o)' <=> Inserting(o)
  <2>1. CASE UNCHANGED task
    BY <2>1 DEF Inserting
  <2> QED
    BY <2>1, InsertingSame DEF Quiet
<1> QED
  BY <1>2, <1>3 DEF Unmoved

\* A step of task t on an order's rows leaves the others.
LEMMA OthersUnmoved ==
    ASSUME TypeInv, TaskInv, TypeInv', TaskInv', rows' = rows, NEW t \in Tasks, Alone(t),
           NEW o \in Orders, task'[t].draft[o] = task[t].draft[o],
           o # task[t].cur, task'[t].cur = task[t].cur
    PROVE  Unmoved(o)
<1>1. \A s \in Tasks : task'[s].draft[o] = task[s].draft[o]
  BY DEF Alone
<1>2. View(o)' = View(o)
  BY <1>1, ViewSame
<1>3. Inserting(o)' <=> Inserting(o)
  BY DEF Alone, Inserting, Tasks
<1> QED
  BY <1>2, <1>3 DEF Unmoved

-----------------------------------------------------------------------------
(* What each step does to the wallets, and to the rows of their users.     *)

Still(u) ==
    /\ wallet'[u] = wallet[u] /\ committed'[u] = committed[u]
    /\ \A o \in Orders : UserOf(o) = u => Unmoved(o)

\* The task that has the wallet commits.
Saved(u) ==
    /\ wallet'[u] = wallet[u] /\ committed'[u] = wallet[u]
    /\ \A o \in Orders : UserOf(o) = u =>
         rows'[o] = View(o) /\ View(o)' = View(o) /\ ~Inserting(o) /\ ~Inserting(o)'

\* ... or is rolled back.
Dropped(u) ==
    /\ wallet'[u] = committed[u] /\ committed'[u] = committed[u]
    /\ \A o \in Orders : UserOf(o) = u =>
         rows'[o] = rows[o] /\ View(o)' = rows[o] /\ ~Inserting(o)'

QuietStep ==
    \/ \E d \in DeskTasks : StartRun(d)
    \/ \E d \in DeskTasks, l \in Levels : Satisfied(d, l) \/ Miss(d, l)
    \/ \E d \in DeskTasks, q \in Quotes, n \in Nat : q[1] \in Levels /\ AddAgain(d, q[1], q, n)
    \/ \E p \in Placements : Begin(p) \/ SkipPoor(p) \/ SkipViolated(p)
    \/ \E p \in Placements, r \in Relations : SkipCopy(p, r) \/ Copy(p, r)
    \/ \E r \in Relations : FollowLook(r) \/ FollowCommit(r) \/ Unfollow(r)

LEMMA QuietMoves ==
    ASSUME TypeInv, TaskInv, TypeInv', TaskInv', QuietStep
    PROVE  /\ wallet' = wallet /\ committed' = committed /\ rows' = rows
           /\ \A o \in Orders : Unmoved(o)
           /\ \A u \in Holders : Still(u)
<1> DEFINE Same == wallet' = wallet /\ committed' = committed /\ rows' = rows
<1> SUFFICES Same /\ Quiet
  <2> SUFFICES ASSUME Same, Quiet PROVE \A o \in Orders : Unmoved(o)
    BY DEF Still
  <2> QED
    BY QuietRows
<1>1. ASSUME NEW d \in DeskTasks, StartRun(d) PROVE Same /\ Quiet
  <2>1. Same
    BY <1>1 DEF StartRun, dbVars, walletVars
  <2>2. /\ task[d].stage = "ready" /\ Alone(d) /\ task'[d].draft = task[d].draft
        /\ \/ NowAt(d, "look", task[d].cur, task[d].trades, Levels)
           \/ NowAt(d, "topup", task[d].cur, task[d].trades, task[d].todo)
    BY <1>1, StartRunTask
  <2> QED
    BY <2>1, <2>2 DEF Quiet, NowAt, Alone
<1>2. ASSUME NEW d \in DeskTasks, NEW l \in Levels, Satisfied(d, l) PROVE Same /\ Quiet
  <2>1. Same
    BY <1>2 DEF Satisfied, dbVars, walletVars
  <2>2. PICK q \in Quotes : TRUE
    BY <1>2 DEF Satisfied
  <2>3. /\ task[d].stage = "look" /\ Alone(d) /\ task'[d].draft = task[d].draft
        /\ NowAt(d, "look", task[d].cur, task[d].trades, task[d].todo \ {l})
    BY <1>2, <2>2, LevelTask
  <2> QED
    BY <2>1, <2>3 DEF Quiet, NowAt, Alone
<1>3. ASSUME NEW d \in DeskTasks, NEW l \in Levels, Miss(d, l) PROVE Same /\ Quiet
  <2>1. Same
    BY <1>3 DEF Miss, dbVars, walletVars
  <2>3. /\ task[d].stage = "look" /\ Alone(d) /\ task'[d].draft = task[d].draft
        /\ NowAt(d, "place", task[d].cur, task[d].trades, task[d].todo)
    BY <1>3, MissTask
  <2> QED
    BY <2>1, <2>3 DEF Quiet, NowAt, Alone
<1>4. ASSUME NEW d \in DeskTasks, NEW q \in Quotes, NEW n \in Nat, q[1] \in Levels, AddAgain(d, q[1], q, n)
      PROVE  Same /\ Quiet
  <2>1. Same
    BY <1>4 DEF AddAgain, dbVars, walletVars
  <2>3. /\ task[d].stage = "look" /\ Alone(d) /\ task'[d].draft = task[d].draft
        /\ NowAt(d, "look", task[d].cur, task[d].trades, task[d].todo \ {q[1]})
    BY <1>4, LevelTask
  <2> QED
    BY <2>1, <2>3 DEF Quiet, NowAt, Alone
<1>5. ASSUME NEW p \in Placements, Begin(p) PROVE Same /\ Quiet
  <2>1. Same
    BY <1>5 DEF Begin, dbVars, walletVars
  <2> QED
    BY <1>5, <2>1, BeginTask DEF Quiet, NowAt, Alone
<1>6. ASSUME NEW p \in Placements, SkipPoor(p) PROVE Same /\ Quiet
  <2>1. Same
    BY <1>6 DEF SkipPoor, dbVars, walletVars
  <2> QED
    BY <1>6, <2>1, SkipPoorTask DEF Quiet, NowAt, Alone
<1>7. ASSUME NEW p \in Placements, SkipViolated(p) PROVE Same /\ Quiet
  <2>1. Same
    BY <1>7 DEF SkipViolated, dbVars
  <2> QED
    BY <1>7, <2>1, SkipViolatedTask DEF Quiet, NowAt, Alone
<1>8. ASSUME NEW p \in Placements, NEW r \in Relations, SkipCopy(p, r) PROVE Same /\ Quiet
  <2>1. Same
    BY <1>8 DEF SkipCopy, dbVars, walletVars
  <2> QED
    BY <1>8, <2>1, SkipCopyTask DEF Quiet, NowAt, Alone
<1>9. ASSUME NEW p \in Placements, NEW r \in Relations, Copy(p, r) PROVE Same /\ Quiet
  <2>1. Same
    BY <1>9 DEF Copy, dbVars, walletVars
  <2> QED
    BY <1>9, <2>1, CopyTask DEF Quiet, NowAt, Alone
<1>10. ASSUME NEW r \in Relations, FollowLook(r) \/ FollowCommit(r) \/ Unfollow(r)
       PROVE  Same /\ Quiet
  BY <1>10 DEF FollowLook, FollowCommit, Unfollow, dbVars, walletVars, Quiet
<1> QED
  BY <1>1, <1>2, <1>3, <1>4, <1>5, <1>6, <1>7, <1>8, <1>9, <1>10 DEF QuietStep

LEMMA TopUpMoves ==
    ASSUME TypeInv, TaskInv, TypeInv', TaskInv', NEW d \in DeskTasks, TopUp(d)
    PROVE  /\ committed' = committed /\ rows' = rows
           /\ wallet' = [wallet EXCEPT ![Desk] = RaisedBalance(wallet[Desk])]
           /\ \A o \in Orders : Unmoved(o)
<1>1. committed' = committed /\ rows' = rows
  BY DEF TopUp, dbVars
<1>2. /\ task[d].stage = "topup" /\ Alone(d) /\ task'[d].draft = task[d].draft
      /\ NowAt(d, "look", task[d].cur, task[d].trades, Levels)
  BY TopUpTask
<1>3. Quiet
  BY <1>2 DEF Quiet, NowAt, Alone
<1> QED
  BY <1>1, <1>3, QuietRows, WalletSteps

LEMMA PlaceMoves ==
    ASSUME TypeInv, TaskInv, UsedInv, TypeInv', TaskInv', NEW d \in DeskTasks, NEW q \in Quotes,
           NEW n \in Nat, q[1] \in Levels, Place(d, q[1], q, n)
    PROVE  /\ committed' = committed /\ rows' = rows
           /\ wallet' = [wallet EXCEPT ![Desk] = Reserved(wallet[Desk], LevelSize)]
           /\ \A o \in Orders \ {q} : Unmoved(o)
           /\ View(q) = NoRow /\ View(q)' = NewRow /\ q \notin used /\ d \in Tasks
<1>0. d \in Tasks /\ q \in Orders /\ q \notin Clients /\ UserOf(q) = Desk
  BY OrderKinds DEF DeskTasks, Tasks
<1>1. committed' = committed /\ rows' = rows /\ q \notin used
  BY DEF Place, dbVars, NewQuote
<1>2. /\ task[d].stage = "place" /\ Alone(d)
      /\ NowAt(d, "look", task[d].cur, task[d].trades, task[d].todo \ {q[1]})
      /\ task'[d].draft = [task[d].draft EXCEPT ![q] = NewRow]
  BY PlaceTask
<1>3. task[d].draft \in [Orders -> RowType]
  BY <1>0 DEF TypeInv, TaskType
<1>4. ASSUME NEW o \in Orders \ {q} PROVE Unmoved(o)
  <2>1. task'[d].draft[o] = task[d].draft[o]
    BY <1>2, <1>3
  <2>2. \A s \in Tasks : task'[s].draft[o] = task[s].draft[o]
    BY <1>2, <2>1 DEF Alone
  <2>3. View(o)' = View(o)
    BY <1>1, <2>2, ViewSame
  <2>4. Inserting(o)' <=> Inserting(o)
    BY <1>2, InsertingSame DEF NowAt
  <2> QED
    BY <1>1, <2>3, <2>4 DEF Unmoved
<1>5. View(q) = NoRow
  <2>1. rows[q] = NoRow /\ \A t \in Tasks : task[t].draft[q] = NoRow
    BY <1>1 DEF UsedInv, Unused
  <2> QED
    BY <1>0, <2>1, ViewIs
<1>6. View(q)' = NewRow
  <2>1. task'[d].draft[q] = NewRow /\ NewRow # NoRow
    BY <1>0, <1>2, <1>3 DEF NewRow, NoRow
  <2>2. holder'[Desk] = d
    BY <1>0, <2>1 DEF TaskInv, Written
  <2>3. d # None
    BY <1>0, NameAssumption
  <2> QED
    BY <1>0, <2>1, <2>2, <2>3 DEF View, Visible
<1> QED
  BY <1>0, <1>1, <1>4, <1>5, <1>6, WalletSteps

LEMMA ReserveMoves ==
    ASSUME TypeInv, BookInv, TaskInv, TypeInv', TaskInv', NEW p \in Placements, Reserve(p),
           NEW o, o = task[p].cur
    PROVE  /\ committed' = committed /\ rows' = rows
           /\ wallet' = [wallet EXCEPT ![UserOf(o)] = Reserved(wallet[UserOf(o)], ReserveOf(o, SizeOf(o)))]
           /\ wallet[UserOf(o)].available >= ReserveOf(o, SizeOf(o))
           /\ \A x \in Orders \ {o} : Unmoved(x)
           /\ rows[o] = NoRow /\ View(o) = NoRow /\ View(o)' = NoRow
           /\ ~Inserting(o) /\ Inserting(o)'
<1>1. PICK n \in Nat : ReserveAndMatch(p, o, n)
  BY ReserveBuys
<1>2. In(p, "reserve") /\ committed' = committed /\ rows' = rows
  BY DEF Reserve, dbVars
<1>3. /\ task[p].stage = "reserve" /\ Running(p) /\ Alone(p)
      /\ NowAt(p, "insert", o, TradesOf(book.sell, SizeOf(o), n), task[p].todo)
      /\ task'[p].draft = task[p].draft
  BY <1>1, <1>2, ReserveTask
<1>4. o \in Clients /\ o \in Orders /\ p \in Tasks /\ o \in All(p)
  BY <1>3, PlacementCur, AllClients
<1>5. rows[o] = NoRow /\ \A t \in Tasks : task[t].draft[o] = NoRow
  <2>1. rows[o] = NoRow /\ task[p].draft[o] = NoRow
    BY <1>3, <1>4 DEF TaskInv, PlacementShape
  <2> QED
    BY <1>4, <2>1, DraftsApart
<1>6. \A s \in Tasks, x \in Orders : task'[s].draft[x] = task[s].draft[x]
  BY <1>3 DEF Alone
<1>7. View(o) = NoRow
  BY <1>4, <1>5, ViewIs
<1>8. \A x \in Orders : View(x)' = View(x)
  BY <1>2, <1>6, ViewSame
<1>9. ~Inserting(o)
  <2> SUFFICES ASSUME Inserting(o) PROVE FALSE
    OBVIOUS
  <2>1. PICK t \in Placements : task[t].stage = "insert" /\ task[t].cur = o
    BY DEF Inserting
  <2>2. o \in All(t)
    BY <2>1, PlacementCur, AllClients DEF Running
  <2>3. t = p
    BY <1>4, <2>2, AllApart
  <2> QED
    BY <1>3, <2>1, <2>3
<1>10. Inserting(o)'
  BY <1>3 DEF NowAt, Inserting
<1>11. ASSUME NEW x \in Orders \ {o} PROVE Unmoved(x)
  <2>1. Inserting(x)' <=> Inserting(x)
    BY <1>3 DEF Alone, Inserting, NowAt, Tasks
  <2> QED
    BY <1>2, <1>8, <2>1 DEF Unmoved
<1>12. wallet[UserOf(o)].available >= ReserveOf(o, SizeOf(o))
  BY <1>1 DEF ReserveAndMatch
<1>13. wallet' = [wallet EXCEPT ![UserOf(o)] = Reserved(wallet[UserOf(o)], ReserveOf(o, SizeOf(o)))]
  BY <1>1, <1>3, WalletSteps
<1> QED
  BY <1>2, <1>4, <1>5, <1>7, <1>8, <1>9, <1>10, <1>11, <1>12, <1>13

LEMMA InsertsNext ==
    ASSUME TypeInv', TaskInv', NEW o, Inserting(o)'
    PROVE  /\ holder'[UserOf(o)] \in Placements
           /\ task'[holder'[UserOf(o)]].stage = "insert" /\ task'[holder'[UserOf(o)]].cur = o
<1>1. PICK t \in Placements : task'[t].stage = "insert" /\ task'[t].cur = o
  BY DEF Inserting
<1>2. o \in Written(t)' /\ t \in Tasks
  BY <1>1 DEF Written, Tasks
<1>3. holder'[UserOf(o)] = t
  BY <1>2 DEF TaskInv
<1> QED
  BY <1>1, <1>3

LEMMA InsertMoves ==
    ASSUME TypeInv, TaskInv, TypeInv', TaskInv', NEW p \in Placements, Insert(p),
           NEW o, o = task[p].cur
    PROVE  /\ wallet' = wallet /\ committed' = committed /\ rows' = rows
           /\ \A x \in Orders \ {o} : Unmoved(x)
           /\ o \in Clients /\ Inserting(o) /\ ~Inserting(o)' /\ View(o)' = EngineRow(o)
<1>1. /\ task[p].stage = "insert" /\ Running(p) /\ Alone(p)
      /\ After(p, task[p].trades)
      /\ task'[p].draft = [task[p].draft EXCEPT ![o] = EngineRow(o)]
  BY InsertTask
<1>2. o \in Clients /\ o \in Orders /\ p \in Tasks /\ task[p].draft \in [Orders -> RowType]
  BY <1>1, PlacementCur DEF TypeInv, TaskType
<1>3. wallet' = wallet /\ committed' = committed /\ rows' = rows
  BY DEF Insert, dbVars, walletVars
<1>4. task'[p].cur = o /\ task'[p].stage # "insert"
  BY <1>1 DEF After, NowAt
<1>5. \A x \in Orders \ {o} : Unmoved(x)
  BY <1>1, <1>2, <1>3, <1>4, OthersUnmoved
<1>6. task'[p].draft[o] = EngineRow(o) /\ EngineRow(o) # NoRow
  BY <1>1, <1>2 DEF EngineRow, StatusOf, NoRow
<1>7. holder'[UserOf(o)] = p /\ p # None
  BY <1>2, <1>6, NameAssumption DEF TaskInv, Written
<1>8. View(o)' = EngineRow(o)
  BY <1>6, <1>7 DEF View, Visible
<1>9. Inserting(o)
  BY <1>1 DEF Inserting
<1>10. ~Inserting(o)'
  BY <1>4, <1>7, InsertsNext
<1> QED
  BY <1>2, <1>3, <1>5, <1>8, <1>9, <1>10

LEMMA SettleMoves ==
    ASSUME TypeInv, TaskInv, TypeInv', TaskInv', NEW p \in Placements, Settle(p),
           NEW o, o = task[p].cur, NEW m, m = Head(task[p].trades).maker,
           NEW n, n = Head(task[p].trades).quantity
    PROVE  /\ committed' = committed /\ rows' = rows
           /\ \A x \in Orders \ {o, m} : Unmoved(x)
           /\ o \in Clients /\ ~Inserting(o) /\ ~Inserting(o)'
           /\ View(o) = task[p].draft[o] /\ View(o) # NoRow
           /\ View(o)' = Bought(View(o), n, CostOf(Head(task[p].trades)))
           /\ m \in Quotes /\ n \in Nat \ {0} /\ View(m) = Visible(p, m) /\ View(m) # NoRow
           /\ View(m)' = SettledRow(View(m), n, LevelSize)
<1> DEFINE d == task[p].draft
           v == Visible(p, m)
           k == CostOf(Head(task[p].trades))
<1>0. LET c == task[p].cur
           x == Head(task[p].trades)
           y == Visible(p, x.maker)
           e == task[p].draft
      IN
      /\ task[p].stage = "settle" /\ Running(p) /\ Alone(p)
      /\ task[p].trades # <<>> /\ x \in TradeType
      /\ c \in Clients /\ e[c] # NoRow /\ y # NoRow /\ y \in RowType
      /\ After(p, Tail(task[p].trades))
      /\ task'[p].draft =
           [e EXCEPT ![c] = Bought(e[c], x.quantity, CostOf(x)),
                     ![x.maker] = SettledRow(y, x.quantity, LevelSize)]
  BY SettleTask
<1>1. /\ task[p].stage = "settle" /\ Running(p) /\ Alone(p)
      /\ task[p].trades # <<>> /\ Head(task[p].trades) \in TradeType
      /\ o \in Clients /\ d[o] # NoRow /\ v # NoRow /\ v \in RowType
      /\ After(p, Tail(task[p].trades))
      /\ task'[p].draft =
           [d EXCEPT ![o] = Bought(d[o], n, k),
                     ![m] = SettledRow(v, n, LevelSize)]
  <2>1. /\ task[p].stage = "settle" /\ Running(p) /\ Alone(p)
        /\ task[p].trades # <<>> /\ Head(task[p].trades) \in TradeType
        /\ After(p, Tail(task[p].trades))
    BY <1>0
  <2>2. o \in Clients /\ d[o] # NoRow
    BY <1>0
  <2>3. v # NoRow /\ v \in RowType
    BY <1>0
  <2>4. task'[p].draft =
           [d EXCEPT ![o] = Bought(d[o], n, k),
                     ![m] = SettledRow(v, n, LevelSize)]
    BY <1>0
  <2> QED
    BY <2>1, <2>2, <2>3, <2>4
<1>2. /\ o \in Orders /\ p \in Tasks /\ d \in [Orders -> RowType] /\ p # None
      /\ m \in Quotes /\ m \in Orders /\ m # o /\ UserOf(m) = Desk /\ n \in Nat \ {0}
      /\ k \in Nat
  <2>1. m \in Quotes /\ n \in Nat \ {0}
    BY <1>1 DEF TradeType
  <2>2. p \in Tasks /\ p # None
    BY NameAssumption DEF Tasks
  <2>3. d \in [Orders -> RowType]
    BY <2>2 DEF TypeInv, TaskType
  <2>4. o \in Orders /\ m \in Orders /\ m # o /\ UserOf(m) = Desk
    BY <1>1, <2>1, OrderKinds
  <2>5. k \in Nat
    BY <1>1, CostBound
  <2> QED
    BY <2>1, <2>2, <2>3, <2>4, <2>5
<1>3. committed' = committed /\ rows' = rows /\ Free(p, Desk)
  BY DEF Settle, dbVars
<1>4. task'[p].cur = o /\ task'[p].stage # "insert"
  BY <1>1 DEF After, NowAt
<1>5. View(o) = d[o]
  BY <1>1, <1>2, ViewIs
<1>6. View(m) = v
  BY <1>2, <1>3, ViewIs
<1> HIDE DEF d, v, k
<1>7. /\ task'[p].draft[o] = Bought(d[o], n, k)
      /\ task'[p].draft[m] = SettledRow(v, n, LevelSize)
      /\ \A x \in Orders \ {o, m} : task'[p].draft[x] = d[x]
  BY <1>1, <1>2
<1>8. \A x \in Orders \ {o, m} : Unmoved(x)
  BY <1>1, <1>2, <1>3, <1>4, <1>7, OthersUnmoved DEF d
<1>9. task'[p].draft[o] # NoRow /\ task'[p].draft[m] # NoRow
  <2>1. SettledRow(v, n, LevelSize).status # "NONE"
    BY <1>1, <1>2, SettledFields, DeskAssumption DEF StatusOf
  <2>2. d[o].settled + n # 0 /\ d[o] \in RowType
    BY <1>2 DEF RowType
  <2>3. task'[p].draft[o].settled # 0
    <3>1. Bought(d[o], n, k).settled = d[o].settled + n
      BY <1>2, <2>2, BoughtFields
    <3> QED
      BY <1>7, <2>2, <3>1
  <2> QED
    BY <1>7, <2>1, <2>3 DEF NoRow
<1>10. holder'[UserOf(o)] = p /\ holder'[Desk] = p
  BY <1>2, <1>9 DEF TaskInv, Written
<1>11. View(o)' = task'[p].draft[o] /\ View(m)' = task'[p].draft[m]
  BY <1>2, <1>9, <1>10 DEF View, Visible
<1>12. ~Inserting(o)'
  BY <1>4, <1>10, InsertsNext
<1>13. ~Inserting(o)
  <2>1. holder[UserOf(o)] = p
    BY <1>1, <1>2, ViewIs DEF d
  <2> QED
    BY <1>1, <2>1, WhoInserts
<1> QED
  BY <1>1, <1>2, <1>3, <1>5, <1>6, <1>7, <1>8, <1>11, <1>12, <1>13 DEF d, v, k

LEMMA FinishMoves ==
    ASSUME TypeInv, TaskInv, TypeInv', TaskInv', NEW t \in Tasks, Finish(t), NEW u \in Holders
    PROVE  IF holder[u] = t THEN Saved(u) ELSE Still(u) /\ holder'[u] = holder[u]
<1>1. PICK stage \in {"ready", "done"} : (stage = "ready" <=> t = Tick) /\ Commit(t, stage)
  BY DEF Finish
<1>2. /\ Alone(t) /\ EndedTask(t)
      /\ \A o \in Orders : rows'[o] = Visible(t, o)
      /\ \A v \in Holders : committed'[v] = IF holder[v] = t THEN wallet[v] ELSE committed[v]
      /\ \A v \in Holders : holder'[v] = IF holder[v] = t THEN None ELSE holder[v]
  BY <1>1, CommitTask
<1>3. wallet' = wallet
  BY <1>1 DEF Commit
<1>4. task[t].stage # "insert" /\ task'[t].stage # "insert"
  BY <1>2 DEF Finish, EndedTask
<1>5. ASSUME holder[u] = t, NEW o \in Orders, UserOf(o) = u
      PROVE  rows'[o] = View(o) /\ View(o)' = View(o) /\ ~Inserting(o) /\ ~Inserting(o)'
  <2>1. View(o) = Visible(t, o)
    BY <1>5, ViewIs DEF Free
  <2>2. holder'[u] = None /\ None \notin Placements
    BY <1>2, <1>5, NameAssumption DEF Tasks
  <2>3. View(o)' = rows'[o]
    BY <1>5, <2>2 DEF View
  <2>4. ~Inserting(o)
    BY <1>4, <1>5, WhoInserts
  <2>5. ~Inserting(o)'
    BY <1>5, <2>2, InsertsNext
  <2> QED
    BY <1>2, <2>1, <2>3, <2>4, <2>5
<1>6. ASSUME holder[u] # t, NEW o \in Orders, UserOf(o) = u PROVE Unmoved(o)
  <2>1. task[t].draft[o] = NoRow
    BY <1>6, ViewIs
  <2>2. rows'[o] = rows[o]
    BY <1>2, <2>1 DEF Visible
  <2>3. task'[t].draft[o] = NoRow
    BY <1>2 DEF EndedTask, Idle
  <2>4. \A s \in Tasks : task'[s].draft[o] = task[s].draft[o]
    BY <1>2, <2>1, <2>3 DEF Alone
  <2>5. View(o)' = View(o)
    BY <2>2, <2>4, ViewSame
  <2>6. Inserting(o)' <=> Inserting(o)
    BY <1>2, <1>4, InsertingSame
  <2> QED
    BY <2>2, <2>5, <2>6 DEF Unmoved
<1> QED
  BY <1>2, <1>3, <1>5, <1>6 DEF Saved, Still

LEMMA AbortMoves ==
    ASSUME TypeInv, TaskInv, TypeInv', TaskInv', NEW t \in Tasks, Abort(t), NEW u \in Holders
    PROVE  IF holder[u] = t THEN Dropped(u) ELSE Still(u) /\ holder'[u] = holder[u]
<1>1. /\ Alone(t) /\ EndedTask(t)
      /\ \A v \in Holders : wallet'[v] = IF holder[v] = t THEN committed[v] ELSE wallet[v]
      /\ \A v \in Holders : holder'[v] = IF holder[v] = t THEN None ELSE holder[v]
  BY AbortTask
<1>2. committed' = committed /\ rows' = rows
  BY DEF Abort, dbVars
<1>3. task'[t].stage # "insert"
  BY <1>1 DEF EndedTask
<1>4. ASSUME holder[u] = t, NEW o \in Orders, UserOf(o) = u
      PROVE  View(o)' = rows[o] /\ ~Inserting(o)'
  <2>1. holder'[u] = None /\ None \notin Placements
    BY <1>1, <1>4, NameAssumption DEF Tasks
  <2>2. View(o)' = rows'[o]
    BY <1>4, <2>1 DEF View
  <2>3. ~Inserting(o)'
    BY <1>4, <2>1, InsertsNext
  <2> QED
    BY <1>2, <2>2, <2>3
<1>5. ASSUME holder[u] # t, NEW o \in Orders, UserOf(o) = u PROVE Unmoved(o)
  <2>1. task[t].draft[o] = NoRow
    BY <1>5, ViewIs
  <2>2. task'[t].draft[o] = NoRow
    BY <1>1 DEF EndedTask, Idle
  <2>3. \A s \in Tasks : task'[s].draft[o] = task[s].draft[o]
    BY <1>1, <2>1, <2>2 DEF Alone
  <2>4. View(o)' = View(o)
    BY <1>2, <2>3, ViewSame
  <2>5. ~(task[t].stage = "insert" /\ task[t].cur = o)
    BY <1>5 DEF TaskInv, Written
  <2>6. Inserting(o)' <=> Inserting(o)
    BY <1>1, <1>3, <2>5 DEF Alone, Inserting, Tasks
  <2> QED
    BY <1>2, <2>4, <2>6 DEF Unmoved
<1> QED
  BY <1>1, <1>2, <1>4, <1>5 DEF Dropped, Still

LEMMA RestartMoves ==
    ASSUME TypeInv, TaskInv, TypeInv', TaskInv', Restart, NEW u \in Holders
    PROVE  Dropped(u) /\ holder'[u] = None
<1>1. wallet'[u] = committed[u] /\ holder'[u] = None
  BY RestartTask
<1>2. committed' = committed /\ rows' = rows
  BY DEF Restart, dbVars
<1>3. ASSUME NEW o \in Orders, UserOf(o) = u PROVE View(o)' = rows[o] /\ ~Inserting(o)'
  <2>1. None \notin Placements
    BY NameAssumption DEF Tasks
  <2>2. View(o)' = rows'[o]
    BY <1>1, <1>3 DEF View
  <2>3. ~Inserting(o)'
    BY <1>1, <1>3, <2>1, InsertsNext
  <2> QED
    BY <1>2, <2>2, <2>3
<1> QED
  BY <1>1, <1>2, <1>3 DEF Dropped

LEMMA CancelMoves ==
    ASSUME TypeInv, TaskInv, TypeInv', TaskInv', NEW o \in Clients, CancelOrder(o),
           NEW u, u = UserOf(o), NEW w, w = Released(wallet[u], ReserveOf(o, SizeOf(o) - rows[o].filled))
    PROVE  /\ wallet' = [wallet EXCEPT ![u] = w] /\ committed' = [committed EXCEPT ![u] = w]
           /\ holder[u] = None /\ u \in Users /\ u \in Holders /\ u # Desk
           /\ rows[o].status \in Open /\ rows'[o] = [rows[o] EXCEPT !.status = "CANCELLED"]
           /\ View(o) = rows[o] /\ View(o)' = rows'[o] /\ ~Inserting(o) /\ ~Inserting(o)'
           /\ \A x \in Orders \ {o} : Unmoved(x)
           /\ \A v \in Holders \ {u} : Still(v)
<1>1. /\ wallet' = [wallet EXCEPT ![u] = w] /\ committed' = [committed EXCEPT ![u] = w]
      /\ holder[u] = None /\ rows[o].status \in Open /\ task' = task /\ holder' = holder
      /\ rows' = [rows EXCEPT ![o].status = "CANCELLED"]
  BY DEF CancelOrder
<1>2. o \in Orders /\ u \in Users /\ u \in Holders /\ u # Desk /\ None \notin Placements
  BY OrderKinds, NameAssumption DEF Holders, Tasks
<1>3. rows \in [Orders -> RowType]
  BY DEF TypeInv
<1>4. /\ rows'[o] = [rows[o] EXCEPT !.status = "CANCELLED"]
      /\ \A x \in Orders \ {o} : rows'[x] = rows[x]
  BY <1>1, <1>2, <1>3
<1>5. View(o) = rows[o] /\ View(o)' = rows'[o]
  BY <1>1 DEF View
<1>6. ~Inserting(o) /\ ~Inserting(o)'
  <2>1. ~Inserting(o)
    BY <1>1, <1>2, WhoInserts
  <2>2. ~Inserting(o)'
    BY <1>1, <1>2, InsertsNext
  <2> QED
    BY <2>1, <2>2
<1>7. ASSUME NEW x \in Orders \ {o} PROVE Unmoved(x)
  <2>1. View(x)' = View(x)
    BY <1>1, <1>4, ViewSame
  <2>2. Inserting(x)' <=> Inserting(x)
    BY <1>1 DEF Inserting
  <2> QED
    BY <1>4, <2>1, <2>2 DEF Unmoved
<1>8. ASSUME NEW v \in Holders \ {u} PROVE Still(v)
  <2>1. wallet'[v] = wallet[v] /\ committed'[v] = committed[v]
    BY <1>1 DEF TypeInv
  <2> QED
    BY <1>7, <2>1 DEF Still
<1> QED
  BY <1>1, <1>2, <1>4, <1>5, <1>6, <1>7, <1>8

-----------------------------------------------------------------------------
(* The clients' fills.                                                     *)

LEMMA NoTrades == /\ Traded(<<>>) = 0 /\ Makers(<<>>) = {}
                  /\ \A o : TakenFrom(<<>>, o) = 0
<1>1. <<>> \in AnyTrades(Quotes) /\ Len(<<>>) = 0 /\ 1 .. 0 = {} /\ DOMAIN <<>> = {}
  BY EmptySeq DEF AnyTrades
<1>2. /\ Traded(<<>>) = SumFunctionOnSet(Quantities(<<>>), 1 .. Len(<<>>))
      /\ \A o : TakenFrom(<<>>, o) = SumFunctionOnSet(QuantitiesOf(<<>>, o), 1 .. Len(<<>>))
  BY <1>1, TradeSums
<1>3. 1 .. Len(<<>>) = {}
  BY <1>1
<1>4. Traded(<<>>) = SumFunctionOnSet(Quantities(<<>>), {})
  BY Zenon, <1>2, <1>3
<1>5. \A o : TakenFrom(<<>>, o) = SumFunctionOnSet(QuantitiesOf(<<>>, o), {})
  BY Zenon, <1>2, <1>3
<1> QED
  BY <1>1, <1>4, <1>5, SumEmpty DEF Makers

LEMMA LostNext ==
    ASSUME TypeInv, TaskInv, Next
    PROVE  lost \subseteq lost'
<1>1. \A d \in DeskTasks : DeskMove(d) => lost \subseteq lost'
  <2>1. \A d \in DeskTasks : StartRun(d) \/ TopUp(d) => lost' = lost
    BY DEF StartRun, TopUp
  <2>2. \A d \in DeskTasks, l \in Levels : Satisfied(d, l) \/ Miss(d, l) => lost' = lost
    BY DEF Satisfied, Miss
  <2>3. \A d \in DeskTasks, q \in Quotes, n \in Nat :
          AddAgain(d, q[1], q, n) \/ Place(d, q[1], q, n) => lost \subseteq lost'
    BY DEF AddAgain, Place
  <2> QED
    BY <2>1, <2>2, <2>3 DEF DeskMove
<1>2. \A p \in Placements : PlacementMove(p) => lost \subseteq lost'
  BY DEF PlacementMove, Begin, SkipPoor, Insert, Settle, SkipViolated, Reserve, SkipCopy, Copy
<1>3. /\ \A t \in Tasks : Abort(t) => lost \subseteq lost'
      /\ \A t \in Tasks : Finish(t) => lost' = lost
      /\ \A o \in Clients : CancelOrder(o) => lost' = lost
  BY DEF Abort, Finish, Commit, CancelOrder
<1>4. /\ \A r \in Relations : FollowLook(r) \/ FollowCommit(r) \/ Unfollow(r) => lost' = lost
      /\ Restart => lost \subseteq lost'
  BY DEF FollowLook, FollowCommit, Unfollow, Restart
<1>7. \/ \E d \in DeskTasks : DeskMove(d)
      \/ \E p \in Placements : PlacementMove(p)
      \/ \E s \in Tasks : Abort(s) \/ Finish(s)
      \/ \E o \in Clients : CancelOrder(o)
      \/ \E s \in Relations : FollowLook(s) \/ FollowCommit(s) \/ Unfollow(s)
      \/ Restart
  BY Steps DEF DeskMove, PlacementMove
<1> QED
  BY <1>1, <1>2, <1>3, <1>4, <1>7

\* What the engine's object of an order shows grows only by trades of desk
\* orders, which nobody settles.
LEMMA FillSteps ==
    ASSUME TypeInv, BookInv, TaskInv, UsedInv, Next, NEW c \in Clients
    PROVE  \/ left'[c] + fill'[c] <= left[c] + fill[c] /\ fill'[c] = fill[c]
           \/ left'[c] + fill'[c] = left[c] + fill[c] /\ fill'[c] >= fill[c] /\ c \in lost'
           \/ \E p \in Placements : /\ Reserve(p) /\ c = task[p].cur
                                    /\ left'[c] + fill'[c] = SizeOf(c)
<1> DEFINE Goal == \/ left'[c] + fill'[c] <= left[c] + fill[c] /\ fill'[c] = fill[c]
                   \/ left'[c] + fill'[c] = left[c] + fill[c] /\ fill'[c] >= fill[c] /\ c \in lost'
                   \/ \E p \in Placements : /\ Reserve(p) /\ c = task[p].cur
                                            /\ left'[c] + fill'[c] = SizeOf(c)
<1>0. c \in Orders /\ left[c] \in Nat /\ fill[c] \in Nat
  BY OrderKinds DEF TypeInv
<1>1. ASSUME UNCHANGED memoryVars PROVE Goal
  BY <1>0, <1>1 DEF memoryVars
<1>2. ASSUME NEW d, NEW l, NEW q \in Quotes, NEW n \in Nat, AddAgain(d, l, q, n) \/ Place(d, l, q, n)
      PROVE  Goal
  <2>1. left[q] = 0 /\ Sell(q, LevelSize, n)
    BY <1>2, RunSells
  <2>2. /\ left'[c] + fill'[c] = left[c] + fill[c] /\ fill'[c] >= fill[c]
        /\ c \notin Discarded(q, n) => left'[c] = left[c] /\ fill'[c] = fill[c]
    BY <2>1, SellEffect
  <2>3. Discarded(q, n) \subseteq lost'
    BY <1>2 DEF AddAgain, Place
  <2> QED
    BY <1>0, <2>2, <2>3
<1>3. ASSUME NEW p \in Placements, Reserve(p) PROVE Goal
  <2> DEFINE o == task[p].cur
  <2>1. o \in Clients /\ SizeOf(o) \in Nat /\ left[o] = 0
    BY <1>3, ReserveBuys
  <2>2. PICK n \in Nat : Buy(o, SizeOf(o), n)
    BY <1>3, ReserveBuys
  <2> DEFINE k == Traded(TradesOf(book.sell, SizeOf(o), n))
  <2>3. /\ k \in Nat /\ left'[o] = SizeOf(o) - k /\ fill'[o] = k
        /\ \A x \in Clients \ {o} : left'[x] = left[x] /\ fill'[x] = fill[x]
    BY <2>1, <2>2, BuyEffect
  <2> HIDE DEF k
  <2>5. ASSUME c # o PROVE Goal
    BY <1>0, <2>3, <2>5
  <2>6. ASSUME c = o PROVE Goal
    <3>1. left'[c] + fill'[c] = SizeOf(c)
      BY <2>1, <2>3, <2>6
    <3> QED
      BY <1>3, <2>6, <3>1
  <2> QED
    BY <2>5, <2>6
<1>4. ASSUME NEW o \in Clients, CancelOrder(o) PROVE Goal
  <2>1. left'[o] = 0 /\ \A x \in Orders \ {o} : left'[x] = left[x]
    BY <1>4, CancelEffect
  <2>2. fill' = fill
    BY <1>4 DEF CancelOrder
  <2>3. left'[c] = left[c] \/ left'[c] = 0
    BY <1>0, <2>1
  <2> QED
    BY <1>0, <2>2, <2>3
<1>5. ASSUME Restart PROVE Goal
  <2>1. left'[c] = 0 /\ fill' = fill
    BY <1>0, <1>5 DEF Restart
  <2> QED
    BY <1>0, <2>1
<1> QED
  BY <1>1, <1>2, <1>3, <1>4, <1>5, MemorySteps

LEMMA FirstRow ==
    ASSUME TypeInv, FillInv, NEW o \in Clients
    PROVE  ClientRow(EngineRow(o), o) /\ EngineRow(o).filled = fill[o] /\ EngineRow(o).settled = 0
           /\ fill[o] \in Nat /\ SizeOf(o) \in Nat /\ fill[o] <= SizeOf(o)
<1>1. o \in Orders /\ left[o] \in Nat /\ fill[o] \in Nat /\ SizeOf(o) \in Nat
  BY OrderKinds, SizeNat DEF TypeInv
<1>2. left[o] + fill[o] <= SizeOf(o)
  BY DEF FillInv
<1>3. fill[o] <= SizeOf(o)
  BY <1>1, <1>2
<1>4. 0 <= ReserveOf(o, 0)
  BY ReserveFacts
<1> QED
  BY <1>1, <1>3, <1>4 DEF ClientRow, EngineRow, StatusOf

LEMMA FillNext1 ==
    ASSUME TypeInv, BookInv, TaskInv, UsedInv, FillInv, Next, NEW o \in Clients
    PROVE  /\ left'[o] + fill'[o] <= SizeOf(o)
           /\ ClientRow(rows'[o], o)
           /\ o \notin lost' => rows'[o].filled = rows'[o].settled
<1>0. o \in Orders /\ left[o] \in Nat /\ fill[o] \in Nat /\ SizeOf(o) \in Nat /\ rows[o] \in RowType
  BY OrderKinds, SizeNat DEF TypeInv
<1>1. left[o] + fill[o] <= SizeOf(o) /\ ClientRow(rows[o], o)
      /\ (o \notin lost => rows[o].filled = rows[o].settled)
  BY DEF FillInv
<1>2. lost \subseteq lost'
  BY LostNext
<1>3. left'[o] + fill'[o] <= SizeOf(o)
  <2>1. TypeInv'
    BY TypeNext
  <2>2. left'[o] \in Nat /\ fill'[o] \in Nat
    BY <1>0, <2>1 DEF TypeInv
  <2> QED
    BY <1>0, <1>1, <2>2, FillSteps
<1> DEFINE Goal == ClientRow(rows'[o], o) /\ (o \notin lost' => rows'[o].filled = rows'[o].settled)
<1>4. ASSUME rows'[o] = rows[o] PROVE Goal
  BY <1>1, <1>2, <1>4
<1>5. ASSUME NEW t \in Tasks, Finish(t), rows'[o] = Visible(t, o), task[t].draft[o] # NoRow PROVE Goal
  <2>1. rows'[o] = task[t].draft[o]
    BY <1>5 DEF Visible
  <2>2. t \in Placements
    BY <1>5 DEF TaskInv, DeskShape, Tasks, DeskTasks
  <2>3. task[t].trades = <<>>
    BY <1>5, <2>2 DEF Finish, TaskInv, PlacementShape
  <2>4. ToSettle(t, o) = 0
    BY <2>3, NoTrades DEF ToSettle
  <2>5. /\ ClientRow(task[t].draft[o], o)
        /\ o \notin lost => task[t].draft[o].settled + ToSettle(t, o) = task[t].draft[o].filled
    BY <1>5, <2>2 DEF FillInv
  <2>6. task[t].draft[o] \in RowType
    BY <1>0 DEF TypeInv, TaskType
  <2> QED
    BY <1>2, <2>1, <2>4, <2>5, <2>6 DEF RowType
<1>6. ASSUME NEW c \in Clients, CancelOrder(c), rows' = [rows EXCEPT ![c].status = "CANCELLED"] PROVE Goal
  <2>2. ASSUME c # o PROVE Goal
    BY <1>0, <1>4, <1>6, <2>2 DEF TypeInv
  <2>3. ASSUME c = o PROVE Goal
    <3>1. rows'[o] = [rows[o] EXCEPT !.status = "CANCELLED"]
      BY <1>0, <1>6, <2>3 DEF TypeInv
    <3>2. rows'[o].status = "CANCELLED" /\ rows'[o].filled = rows[o].filled
          /\ rows'[o].settled = rows[o].settled /\ rows'[o].paid = rows[o].paid
      BY <1>0, <3>1 DEF RowType
    <3> QED
      BY <1>1, <1>2, <3>2 DEF ClientRow
  <2> QED
    BY <2>2, <2>3
<1>7. Goal
  <2>2. ASSUME NEW t \in Tasks, Finish(t), rows'[o] = Visible(t, o) PROVE Goal
    BY <1>4, <1>5, <2>2 DEF Visible
  <2>3. ASSUME rows' = rows PROVE Goal
    BY <1>4, <2>3
  <2> QED
    BY <1>0, <1>6, <2>2, <2>3, RowSteps
<1> QED
  BY <1>3, <1>7

\* The trades that a request is about to settle.
InsertFill(t) ==
    task[t].stage = "insert" =>
      /\ Traded(task[t].trades) <= fill[task[t].cur]
      /\ task[t].cur \notin lost => Traded(task[t].trades) = fill[task[t].cur]

DraftFill(t, o) ==
    task[t].draft[o] # NoRow =>
      /\ ClientRow(task[t].draft[o], o)
      /\ task[t].draft[o].settled + ToSettle(t, o) <= task[t].draft[o].filled
      /\ o \notin lost =>
           task[t].draft[o].settled + ToSettle(t, o) = task[t].draft[o].filled

LEMMA InsertFillNext ==
    ASSUME TypeInv, BookInv, TaskInv, UsedInv, FillInv, TypeInv', TaskInv', Next, NEW t \in Placements
    PROVE  InsertFill(t)'
<1> SUFFICES ASSUME task'[t].stage = "insert"
             PROVE  /\ Traded(task'[t].trades) <= fill'[task'[t].cur]
                    /\ task'[t].cur \notin lost' => Traded(task'[t].trades) = fill'[task'[t].cur]
  BY DEF InsertFill
<1> DEFINE Goal == /\ Traded(task'[t].trades) <= fill'[task'[t].cur]
                   /\ task'[t].cur \notin lost' => Traded(task'[t].trades) = fill'[task'[t].cur]
<1>1. ASSUME task'[t] = task[t] PROVE Goal
  <2> DEFINE c == task[t].cur
             k == Traded(task[t].trades)
  <2>1. Running(t) /\ task[t].stage = "insert"
    BY <1>1 DEF Running
  <2>2. c \in Clients /\ c \in All(t) /\ fill[c] \in Nat /\ fill'[c] \in Nat
    BY <2>1, PlacementCur, AllClients DEF TypeInv
  <2>3. k \in Nat
    <3>1. task[t].trades \in AnyTrades(Quotes)
      BY <2>1, PlacementCur DEF TaskType, AnyTrades, TradeType
    <3> QED
      BY <3>1, TradesNat
  <2>4. k <= fill[c] /\ (c \notin lost => k = fill[c])
    BY <2>1 DEF FillInv
  <2>5. ~\E p \in Placements : Reserve(p) /\ c = task[p].cur
    <3> SUFFICES ASSUME NEW p \in Placements, Reserve(p), c = task[p].cur PROVE FALSE
      OBVIOUS
    <3>1. task[p].stage = "reserve" /\ Running(p)
      BY DEF Reserve, In, Running
    <3>2. c \in All(p)
      BY <3>1, PlacementCur, AllClients
    <3> QED
      BY <2>1, <2>2, <3>1, <3>2, AllApart
  <2>6. fill'[c] = fill[c] \/ (fill'[c] >= fill[c] /\ c \in lost')
    BY <2>2, <2>5, FillSteps
  <2>7. lost \subseteq lost'
    BY LostNext
  <2> HIDE DEF c, k
  <2>8. k <= fill'[c] /\ (c \notin lost' => k = fill'[c])
    BY <2>2, <2>3, <2>4, <2>6, <2>7
  <2> QED
    BY <1>1, <2>8 DEF c, k
<1>2. ~EndedTask(t)
  BY DEF EndedTask
<1>3. ASSUME PlacementMove(t) PROVE Goal
  <2>1. ~Begin(t)
    BY BeginTask DEF NowAt
  <2>2. ~SkipPoor(t)
    BY SkipPoorTask DEF NowAt
  <2>3. ASSUME Insert(t) PROVE FALSE
    <3>1. After(t, task[t].trades)
      BY <2>3, InsertTask
    <3> QED
      BY <3>1 DEF After, NowAt
  <2>4. ASSUME Settle(t) PROVE FALSE
    <3>1. After(t, Tail(task[t].trades))
      BY <2>4, SettleTask
    <3> QED
      BY <3>1 DEF After, NowAt
  <2>5. ~SkipViolated(t)
    BY SkipViolatedTask DEF NowAt
  <2>6. \A r \in Relations : ~SkipCopy(t, r)
    BY SkipCopyTask DEF NowAt
  <2>7. \A r \in Relations : ~Copy(t, r)
    BY CopyTask DEF NowAt
  <2>8. ASSUME Reserve(t) PROVE Goal
    <3> DEFINE o == task[t].cur
    <3>1. o \in Clients /\ SizeOf(o) \in Nat /\ left[o] = 0
      BY <2>8, ReserveBuys
    <3>2. PICK n \in Nat : ReserveAndMatch(t, o, n) /\ Buy(o, SizeOf(o), n)
      BY <2>8, ReserveBuys
    <3> DEFINE trades == TradesOf(book.sell, SizeOf(o), n)
    <3>3. NowAt(t, "insert", o, trades, task[t].todo)
      BY <2>8, <3>2, ReserveTask DEF Reserve
    <3>4. fill'[o] = Traded(trades) /\ Traded(trades) \in Nat
      BY <3>1, <3>2, BuyEffect
    <3> HIDE DEF trades, o
    <3> QED
      BY <3>3, <3>4 DEF NowAt
  <2> QED
    BY <1>3, <2>1, <2>2, <2>3, <2>4, <2>5, <2>6, <2>7, <2>8 DEF PlacementMove
<1>4. t \in Tasks /\ t \notin DeskTasks
  BY NameAssumption DEF Tasks, DeskTasks
<1> QED
  BY <1>1, <1>2, <1>3, <1>4, Moves

LEMMA DraftFillNext ==
    ASSUME TypeInv, BookInv, TaskInv, UsedInv, FillInv, Next, NEW t \in Placements, NEW o \in Clients
    PROVE  DraftFill(t, o)'
<1> DEFINE Goal == DraftFill(t, o)'
<1>0. t \in Tasks /\ t \notin DeskTasks /\ o \in Orders
  BY NameAssumption, OrderKinds DEF Tasks, DeskTasks
<1>1. lost \subseteq lost'
  BY LostNext
<1>2. DraftFill(t, o)
  BY DEF FillInv, DraftFill
<1>3. task[t] \in TaskType /\ task[t].draft \in [Orders -> RowType] /\ task[t].draft[o] \in RowType
      /\ task[t].trades \in AnyTrades(Quotes)
  <2>1. task[t] \in TaskType
    BY <1>0 DEF TypeInv
  <2>2. task[t].draft \in [Orders -> RowType] /\ task[t].draft[o] \in RowType
    BY <1>0, <2>1 DEF TaskType
  <2>3. task[t].trades \in AnyTrades(Quotes)
    BY <2>1 DEF TaskType, AnyTrades, TradeType
  <2> QED
    BY <2>1, <2>2, <2>3
<1>4. ToSettle(t, o) \in Nat
  BY <1>3, TradesNat DEF ToSettle
\* The row stays and so does what is to be settled of it.
<1>5. ASSUME task'[t].draft[o] = task[t].draft[o], task[t].draft[o] # NoRow => ToSettle(t, o)' = ToSettle(t, o)
      PROVE  Goal
  BY <1>1, <1>2, <1>5 DEF DraftFill
<1>6. ASSUME task'[t] = task[t] PROVE Goal
  BY <1>5, <1>6 DEF ToSettle
<1>7. ASSUME EndedTask(t) PROVE Goal
  BY <1>0, <1>7 DEF DraftFill, EndedTask, Idle
<1>8. ASSUME task'[t].draft = task[t].draft, task'[t].cur = task[t].cur, task'[t].trades = task[t].trades
      PROVE  Goal
  BY <1>5, <1>8 DEF ToSettle
<1>9. ASSUME Begin(t) PROVE Goal
  <2>1. task[t].stage = "ready" /\ task'[t].draft = task[t].draft
    BY <1>9, BeginTask
  <2>2. task[t].draft[o] = NoRow
    BY <1>0, <2>1 DEF TaskInv, Idle, Running
  <2> QED
    BY <2>1, <2>2 DEF DraftFill
<1>10. ASSUME SkipPoor(t) PROVE Goal
  BY <1>8, <1>10, SkipPoorTask DEF NowAt
<1>11. ASSUME NEW r \in Relations, SkipCopy(t, r) PROVE Goal
  BY <1>8, <1>11, SkipCopyTask DEF NowAt
<1>12. ASSUME NEW r \in Relations, Copy(t, r) PROVE Goal
  <2>1. task[t].stage = "copy" /\ task'[t].draft = task[t].draft /\ task'[t].trades = task[t].trades
    BY <1>12, CopyTask DEF NowAt
  <2>2. task[t].trades = <<>>
    BY <2>1 DEF TaskInv, PlacementShape
  <2>3. ToSettle(t, o) = 0 /\ ToSettle(t, o)' = 0
    BY <2>1, <2>2, NoTrades DEF ToSettle
  <2> QED
    BY <1>5, <2>1, <2>3
<1>13. ASSUME Reserve(t) PROVE Goal
  <2>1. PICK n \in Nat : ReserveAndMatch(t, task[t].cur, n)
    BY <1>13, ReserveBuys
  <2>2. /\ task[t].stage = "reserve" /\ task'[t].draft = task[t].draft
        /\ NowAt(t, "insert", task[t].cur, TradesOf(book.sell, SizeOf(task[t].cur), n), task[t].todo)
    BY <1>13, <2>1, ReserveTask DEF Reserve
  <2>3. task[t].draft[task[t].cur] = NoRow
    BY <2>2 DEF TaskInv, PlacementShape
  <2>4. task[t].draft[o] # NoRow => o # task[t].cur
    BY <2>3
  <2>5. task[t].draft[o] # NoRow => ToSettle(t, o)' = 0 /\ ToSettle(t, o) = 0
    BY <2>2, <2>4 DEF ToSettle, NowAt
  <2> QED
    BY <1>5, <2>2, <2>5
<1>14. ASSUME SkipViolated(t) PROVE Goal
  <2>1. task'[t].draft = task[t].draft /\ task'[t].trades = <<>> /\ task'[t].cur = task[t].cur
    BY <1>14, SkipViolatedTask DEF NowAt
  <2>2. ToSettle(t, o)' = 0
    BY <2>1, NoTrades DEF ToSettle
  <2>3. task[t].cur \in lost'
    BY <1>14 DEF SkipViolated
  <2>4. o \notin lost' => ToSettle(t, o) = 0
    BY <2>3 DEF ToSettle
  <2> QED
    BY <1>1, <1>2, <1>3, <1>4, <2>1, <2>2, <2>4 DEF DraftFill, ClientRow, RowType
<1>15. ASSUME Insert(t) PROVE Goal
  <2> DEFINE c == task[t].cur
             k == Traded(task[t].trades)
  <2>1. /\ task[t].stage = "insert" /\ Running(t)
        /\ After(t, task[t].trades)
        /\ task'[t].draft = [task[t].draft EXCEPT ![c] = EngineRow(c)]
    BY <1>15, InsertTask
  <2>2. task'[t].cur = c /\ task'[t].trades = task[t].trades
    BY <2>1 DEF After, NowAt
  <2>3. ASSUME o # c PROVE Goal
    <3>1. task'[t].draft[o] = task[t].draft[o]
      BY <1>0, <1>3, <2>1, <2>3
    <3> QED
      BY <1>5, <2>2, <3>1 DEF ToSettle
  <2>4. ASSUME o = c PROVE Goal
    <3>1. task'[t].draft[o] = EngineRow(o)
      BY <1>0, <1>3, <2>1, <2>4
    <3>2. /\ ClientRow(EngineRow(o), o) /\ EngineRow(o).filled = fill[o] /\ EngineRow(o).settled = 0
          /\ fill[o] \in Nat
      BY FirstRow
    <3>3. k \in Nat
      BY <1>3, TradesNat
    <3>4. k <= fill[o] /\ (o \notin lost => k = fill[o])
      BY <2>1, <2>4 DEF FillInv
    <3>5. ToSettle(t, o)' = k
      BY <2>2, <2>4 DEF ToSettle
    <3> HIDE DEF k, c
    <3> QED
      BY <1>1, <3>1, <3>2, <3>3, <3>4, <3>5 DEF DraftFill
  <2> QED
    BY <2>3, <2>4
<1>16. ASSUME Settle(t) PROVE Goal
  <2> DEFINE c == task[t].cur
             x == Head(task[t].trades)
             d == task[t].draft
             m == Visible(t, x.maker)
             rest == Tail(task[t].trades)
  <2>1. /\ task[t].trades # <<>> /\ x \in TradeType
        /\ c \in Clients /\ d[c] # NoRow
        /\ After(t, rest)
        /\ task'[t].draft = [d EXCEPT ![c] = Bought(d[c], x.quantity, CostOf(x)),
                                      ![x.maker] = SettledRow(m, x.quantity, LevelSize)]
    BY <1>16, SettleTask
  <2>2. task'[t].cur = c /\ task'[t].trades = rest
    BY <2>1 DEF After, NowAt
  <2>3. x.maker \in Quotes /\ x.quantity \in Nat
    BY <2>1 DEF TradeType
  <2>4. x.maker # o /\ d \in [Orders -> RowType]
    BY <1>3, <2>3, OrderKinds
  <2>5. ASSUME o # c PROVE Goal
    <3>1. task'[t].draft[o] = d[o]
      <4> HIDE DEF d, m
      <4> QED
        BY <1>0, <2>1, <2>4, <2>5
    <3> QED
      BY <1>5, <2>2, <2>5, <3>1 DEF ToSettle
  <2>6. ASSUME o = c PROVE Goal
    <3>1. task'[t].draft[o] = Bought(d[o], x.quantity, CostOf(x))
      <4> HIDE DEF d, m
      <4> QED
        BY <1>0, <2>1, <2>4, <2>6
    <3>15. CostOf(x) \in Nat /\ CostOf(x) <= ReserveOf(o, x.quantity) /\ o \in Clients
      BY <2>1, <2>6, CostBound
    <3>2. /\ task'[t].draft[o].status = d[o].status /\ task'[t].draft[o].filled = d[o].filled
          /\ task'[t].draft[o].settled = d[o].settled + x.quantity
          /\ task'[t].draft[o].paid = d[o].paid + CostOf(x)
      <4>1. d[o] \in RowType
        BY <1>3, <2>4
      <4> DEFINE n == x.quantity
                 e == CostOf(x)
                 b == d[o]
      <4> HIDE DEF n, e, b
      <4>2. n \in Nat /\ e \in Nat /\ b \in RowType /\ task'[t].draft[o] = Bought(b, n, e)
        BY <2>3, <3>1, <3>15, <4>1 DEF n, e, b
      <4>3. /\ Bought(b, n, e).status = b.status /\ Bought(b, n, e).filled = b.filled
            /\ Bought(b, n, e).settled = b.settled + n /\ Bought(b, n, e).paid = b.paid + e
        BY <4>2, BoughtFields
      <4> QED
        BY <4>2, <4>3 DEF n, e, b
    <3>3. Traded(task[t].trades) = x.quantity + Traded(rest) /\ rest \in AnyTrades(Quotes)
      BY <1>3, <2>1, FirstTrade
    <3>4. Traded(rest) \in Nat
      BY <3>3, TradesNat
    <3>5. ToSettle(t, o) = x.quantity + Traded(rest) /\ ToSettle(t, o)' = Traded(rest)
      BY <2>2, <2>6, <3>3 DEF ToSettle
    <3>6. d[o] \in RowType /\ d[o] # NoRow
      BY <1>3, <2>1, <2>6
    <3> DEFINE k == Traded(rest)
               e == task'[t].draft[o]
               b == d[o]
    <3>7. /\ ClientRow(b, o)
          /\ b.settled + ToSettle(t, o) <= b.filled
          /\ o \notin lost => b.settled + ToSettle(t, o) = b.filled
      BY <1>2, <3>6 DEF DraftFill
    <3>8. /\ e.status = b.status /\ e.filled = b.filled /\ e.settled = b.settled + x.quantity
          /\ e.paid = b.paid + CostOf(x)
          /\ ToSettle(t, o) = x.quantity + k /\ ToSettle(t, o)' = k /\ k \in Nat
          /\ b \in RowType
      BY <3>2, <3>4, <3>5, <3>6
    <3>9. b.status = "NONE" => b = NoRow
      BY <3>7 DEF ClientRow
    <3>10. Goal <=> (e # NoRow => /\ ClientRow(e, o) /\ e.settled + ToSettle(t, o)' <= e.filled
                                  /\ o \notin lost' => e.settled + ToSettle(t, o)' = e.filled)
      BY DEF DraftFill
    <3>11. b # NoRow
      BY <3>6
    <3> HIDE DEF k, e, b
    <3>12. b.filled \in Nat /\ b.settled \in Nat /\ b.paid \in Nat
      BY <3>8 DEF RowType
    <3>13. e.settled + ToSettle(t, o)' <= e.filled
           /\ (o \notin lost' => e.settled + ToSettle(t, o)' = e.filled)
      BY <1>1, <2>3, <3>7, <3>8, <3>12
    <3>16. e.paid <= ReserveOf(o, e.settled)
      <4>1. b.paid <= ReserveOf(o, b.settled)
        BY <3>7 DEF ClientRow
      <4>2. ReserveOf(o, e.settled) = ReserveOf(o, b.settled) + ReserveOf(o, x.quantity)
        BY <2>3, <3>8, <3>12, ReserveFacts
      <4>3. ReserveOf(o, b.settled) \in Int /\ ReserveOf(o, x.quantity) \in Int
        BY <2>3, <3>12, ReserveFacts
      <4> QED
        BY <3>8, <3>12, <3>15, <4>1, <4>2, <4>3
    <3>14. ClientRow(e, o)
      BY <2>3, <3>7, <3>8, <3>9, <3>11, <3>12, <3>13, <3>16 DEF ClientRow
    <3> QED
      BY <3>10, <3>13, <3>14
  <2> QED
    BY <2>5, <2>6
<1> HIDE DEF Goal
<1>17. PlacementMove(t) => Goal
  BY <1>9, <1>10, <1>11, <1>12, <1>13, <1>14, <1>15, <1>16 DEF PlacementMove
<1>18. Goal
  BY <1>0, <1>6, <1>7, <1>17, Moves
<1> QED
  BY <1>18 DEF Goal

LEMMA FillNext ==
    ASSUME TypeInv, BookInv, TaskInv, UsedInv, FillInv, TypeInv', TaskInv', Next
    PROVE  FillInv'
<1>1. \A o \in Clients : /\ left'[o] + fill'[o] <= SizeOf(o)
                         /\ ClientRow(rows'[o], o)
                         /\ o \notin lost' => rows'[o].filled = rows'[o].settled
  BY FillNext1
<1>2. \A t \in Placements : InsertFill(t)'
  BY InsertFillNext
<1>3. \A t \in Placements, o \in Clients : DraftFill(t, o)'
  BY DraftFillNext
<1> QED
  BY <1>1, <1>2, <1>3 DEF FillInv, InsertFill, DraftFill

-----------------------------------------------------------------------------
(* The desk's orders.                                                      *)

Takes(tk, q) == [t \in Tasks |-> TakenFrom(tk[t].trades, q)]

LEMMA TakesNat ==
    ASSUME NEW tk \in [Tasks -> TaskType], NEW q
    PROVE  /\ \A t \in Tasks : /\ Takes(tk, q)[t] = TakenFrom(tk[t].trades, q)
                               /\ Takes(tk, q)[t] \in Nat
                               /\ q \notin Makers(tk[t].trades) => Takes(tk, q)[t] = 0
           /\ SumFunction(Takes(tk, q)) = SumFunctionOnSet(Takes(tk, q), Tasks)
           /\ SumFunction(Takes(tk, q)) \in Nat
           /\ \A t \in Tasks : Takes(tk, q)[t] <= SumFunction(Takes(tk, q))
           /\ (\A t \in Tasks : Takes(tk, q)[t] = 0) => SumFunction(Takes(tk, q)) = 0
<1> DEFINE f == Takes(tk, q)
<1>1. DOMAIN f = Tasks /\ \A t \in Tasks : f[t] = TakenFrom(tk[t].trades, q)
  BY DEF Takes
<1>2. SumFunction(f) = SumFunctionOnSet(f, Tasks)
  <2>1. SumFunction(f) = SumFunctionOnSet(f, DOMAIN f)
    BY SumWhole
  <2> QED
    BY Zenon, <1>1, <2>1
<1>3. \A t \in Tasks : tk[t].trades \in AnyTrades(Quotes)
  BY DEF TaskType, AnyTrades, TradeType
<1>4. \A t \in Tasks : f[t] \in Nat /\ (q \notin Makers(tk[t].trades) => f[t] = 0)
  BY <1>1, <1>3, TradesNat
<1> HIDE DEF f
<1>5. SumFunctionOnSet(f, Tasks) \in Nat /\ \A t \in Tasks : f[t] <= SumFunctionOnSet(f, Tasks)
  BY <1>4, Finite, SumNat
<1>6. (\A t \in Tasks : f[t] = 0) => SumFunctionOnSet(f, Tasks) = 0
  BY Finite, SumZero
<1> QED
  BY <1>1, <1>2, <1>4, <1>5, <1>6 DEF f

LEMMA TakesChange ==
    ASSUME NEW tk \in [Tasks -> TaskType], NEW tk2 \in [Tasks -> TaskType], NEW q,
           NEW t \in Tasks, \A s \in Tasks \ {t} : tk2[s].trades = tk[s].trades
    PROVE  SumFunction(Takes(tk2, q)) = SumFunction(Takes(tk, q))
             - TakenFrom(tk[t].trades, q) + TakenFrom(tk2[t].trades, q)
<1> DEFINE f == Takes(tk, q)
           g == Takes(tk2, q)
<1>1. /\ \A s \in Tasks : f[s] = TakenFrom(tk[s].trades, q) /\ f[s] \in Nat
      /\ SumFunction(f) = SumFunctionOnSet(f, Tasks)
  BY TakesNat
<1>2. /\ \A s \in Tasks : g[s] = TakenFrom(tk2[s].trades, q) /\ g[s] \in Nat
      /\ SumFunction(g) = SumFunctionOnSet(g, Tasks)
  BY TakesNat
<1>3. \A s \in Tasks \ {t} : f[s] = g[s]
  BY <1>1, <1>2
<1> HIDE DEF f, g
<1>4. Ints(f, Tasks) /\ Ints(g, Tasks)
  BY <1>1, <1>2 DEF Ints
<1>5. SumFunctionOnSet(g, Tasks) = SumFunctionOnSet(f, Tasks) - f[t] + g[t]
  BY <1>3, <1>4, Finite, SumChange
<1> QED
  BY <1>1, <1>2, <1>5 DEF f, g

LEMMA TakesSame ==
    ASSUME NEW tk \in [Tasks -> TaskType], NEW tk2 \in [Tasks -> TaskType], NEW q,
           \A t \in Tasks : TakenFrom(tk2[t].trades, q) = TakenFrom(tk[t].trades, q)
    PROVE  SumFunction(Takes(tk2, q)) = SumFunction(Takes(tk, q))
<1> DEFINE f == Takes(tk, q)
           g == Takes(tk2, q)
<1>1. f = g
  BY DEF Takes
<1> QED
  BY Zenon, <1>1

LEMMA PendingIs ==
    ASSUME TypeInv, TypeInv', NEW q
    PROVE  /\ task \in [Tasks -> TaskType] /\ task' \in [Tasks -> TaskType]
           /\ Pending(q) = SumFunction(Takes(task, q)) /\ Pending(q)' = SumFunction(Takes(task', q))
           /\ Pending(q) \in Nat /\ Pending(q)' \in Nat
<1>1. task \in [Tasks -> TaskType] /\ task' \in [Tasks -> TaskType]
  BY DEF TypeInv
<1>2. Pending(q) = SumFunction(Takes(task, q)) /\ Pending(q)' = SumFunction(Takes(task', q))
  BY DEF Pending, Takes
<1>3. SumFunction(Takes(task, q)) \in Nat
  BY <1>1, TakesNat
<1>4. SumFunction(Takes(task', q)) \in Nat
  BY <1>1, TakesNat
<1> QED
  BY <1>1, <1>2, <1>3, <1>4

\* What the invariant says of a desk order.
RowGood(q) == rows[q] # NoRow => QuoteRow(rows[q])
SumGood(q) ==
    q \in used => QuoteRow(View(q)) /\ left[q] + Pending(q) + View(q).filled = LevelSize

LEMMA QuoteStays ==
    ASSUME TypeInv, TypeInv', TaskInv, NEW q \in Quotes, RowGood(q), SumGood(q),
           rows'[q] = rows[q], View(q)' = View(q), q \in used' => q \in used,
           left'[q] + Pending(q)' = left[q] + Pending(q)
    PROVE  RowGood(q)' /\ SumGood(q)'
<1>1. RowGood(q)'
  BY DEF RowGood
<1>2. SumGood(q)'
  <2> SUFFICES ASSUME q \in used'
               PROVE  QuoteRow(View(q)') /\ left'[q] + Pending(q)' + View(q)'.filled = LevelSize
    BY DEF SumGood, QuoteRow
  <2>1. QuoteRow(View(q)) /\ left[q] + Pending(q) + View(q).filled = LevelSize
    BY DEF SumGood
  <2> QED
    BY <2>1
<1> QED
  BY <1>1, <1>2

LEMMA QuoteNow ==
    ASSUME TypeInv, QuoteInv, NEW q \in Quotes, q \notin lost
    PROVE  RowGood(q) /\ SumGood(q)
BY DEF QuoteInv, RowGood, SumGood

\* Steps in which no order trades and no trade is settled.
LEMMA QuoteCalm ==
    ASSUME TypeInv, TaskInv, TypeInv', QuoteInv, lost \subseteq lost',
           NEW q \in Quotes, q \notin lost', Unmoved(q), left'[q] = left[q], used' = used,
           \A t \in Tasks : TakenFrom(task'[t].trades, q) = TakenFrom(task[t].trades, q)
    PROVE  RowGood(q)' /\ SumGood(q)'
<1>1. RowGood(q) /\ SumGood(q)
  BY QuoteNow
<1>2. Pending(q)' = Pending(q)
  BY PendingIs, TakesSame
<1> QED
  BY <1>1, <1>2, QuoteStays DEF Unmoved

\* A desk order that is put on the book again is settled for as far as it was
\* taken only if some fill of it is lost.
LEMMA QuoteAgain ==
    ASSUME TypeInv, BookInv, TaskInv, UsedInv, QuoteInv, NEW d \in DeskTasks, NEW l \in Levels,
           NEW q \in Quotes, NEW n, AddAgain(d, l, q, n)
    PROVE  q \in lost'
<1> SUFFICES ASSUME q \notin lost' PROVE FALSE
  OBVIOUS
<1>0. d \in Tasks /\ q \in Orders
  BY OrderKinds DEF DeskTasks, Tasks
<1>1. Newest(q, OpenQuotes(d, l)) /\ Missing(q)
      /\ lost' = lost \cup Discarded(q, n) \cup {x \in {q} : \E t \in Tasks : x \in Unkept(t)}
  BY DEF AddAgain
<1>2. q \notin lost /\ \A t \in Tasks : q \notin Unkept(t)
  BY <1>1
<1>3. \A t \in Tasks : task[t].draft[q] = NoRow /\ q \notin Makers(task[t].trades)
  BY <1>0, <1>2 DEF Unkept
<1>4. Visible(d, q).status \in Open
  BY <1>1 DEF Newest, OpenQuotes
<1>5. rows[q].status \in Open /\ View(q) = rows[q]
  BY <1>0, <1>3, <1>4, ViewIs DEF Visible
<1>6. q \in used
  BY <1>5 DEF UsedInv, Unused, NoRow, Open
<1>7. QuoteRow(View(q)) /\ left[q] + Pending(q) + View(q).filled = LevelSize
  BY <1>2, <1>6 DEF QuoteInv
<1>8. task \in [Tasks -> TaskType] /\ Pending(q) = SumFunction(Takes(task, q))
  BY DEF TypeInv, Pending, Takes
<1>9. Pending(q) = 0
  BY <1>3, <1>8, TakesNat
<1>10. left[q] = 0
  BY <1>0, <1>1 DEF Missing, OnBook, TypeInv
<1>11. View(q) \in RowType
  BY <1>0, ViewIs
<1>12. View(q).filled = LevelSize
  BY <1>7, <1>9, <1>10, <1>11 DEF RowType
<1>13. View(q).status = "FILLED"
  BY <1>7, <1>12, DeskAssumption DEF QuoteRow, StatusOf
<1> QED
  BY <1>5, <1>13 DEF Open

\* A run puts an order on the book.
LEMMA QuoteSold ==
    ASSUME TypeInv, BookInv, TaskInv, UsedInv, QuoteInv, TypeInv', TaskInv', Next,
           NEW d \in DeskTasks, NEW x \in Quotes, NEW n \in Nat, x[1] \in Levels,
           AddAgain(d, x[1], x, n) \/ Place(d, x[1], x, n), NEW q \in Quotes, q \notin lost'
    PROVE  RowGood(q)' /\ SumGood(q)'
<1>1. lost \subseteq lost' /\ Discarded(x, n) \subseteq lost'
  BY LostNext DEF AddAgain, Place
<1>2. left[x] = 0 /\ Sell(x, LevelSize, n)
  BY RunSells
<1>3. /\ left'[x] = LevelSize - Traded(TradesOf(book.buy, LevelSize, n))
      /\ n = 0 => Traded(TradesOf(book.buy, LevelSize, n)) = 0
      /\ \A y \in Quotes \ {x} : left'[y] = left[y]
  BY <1>2, SellEffect
<1>4. \A t \in Tasks : task'[t].trades = task[t].trades
  <2>1. Alone(d) /\ task'[d].trades = task[d].trades
    BY LevelTask, PlaceTask DEF NowAt
  <2> QED
    BY <2>1 DEF Alone
<1>5. ASSUME q # x, Unmoved(q), used' \subseteq used \cup {x} PROVE RowGood(q)' /\ SumGood(q)'
  <2>1. RowGood(q) /\ SumGood(q)
    BY <1>1, QuoteNow
  <2>2. left'[q] = left[q]
    BY <1>3, <1>5
  <2>3. Pending(q)' = Pending(q)
    BY <1>4, PendingIs, TakesSame
  <2>4. q \in used' => q \in used
    BY <1>5
  <2> QED
    BY <1>5, <2>1, <2>2, <2>3, <2>4, QuoteStays DEF Unmoved
<1>6. ASSUME AddAgain(d, x[1], x, n) PROVE RowGood(q)' /\ SumGood(q)'
  <2>1. q # x
    BY <1>6, QuoteAgain
  <2>2. QuietStep
    BY <1>6 DEF QuietStep
  <2>3. Unmoved(q)
    BY <2>2, QuietMoves, OrderKinds
  <2>4. used' = used
    BY <1>6 DEF AddAgain
  <2> QED
    BY <1>5, <2>1, <2>3, <2>4
<1>7. ASSUME Place(d, x[1], x, n) PROVE RowGood(q)' /\ SumGood(q)'
  <2>1. /\ rows' = rows /\ \A o \in Orders \ {x} : Unmoved(o)
        /\ View(x) = NoRow /\ View(x)' = NewRow /\ x \notin used
    BY <1>7, PlaceMoves
  <2>2. used' = used \cup {x}
    BY <1>7 DEF Place
  <2>3. ASSUME q # x PROVE RowGood(q)' /\ SumGood(q)'
    BY <1>5, <2>1, <2>2, <2>3, OrderKinds
  <2>4. ASSUME q = x PROVE RowGood(q)' /\ SumGood(q)'
    <3>1. n = 0
      BY <1>1, <2>4 DEF Discarded
    <3>2. Unused(q)
      BY <2>1, <2>4 DEF UsedInv
    <3>3. Pending(q)' = 0
      <4>1. \A t \in Tasks : q \notin Makers(task'[t].trades)
        BY <1>4, <3>2 DEF Unused
      <4>2. task' \in [Tasks -> TaskType] /\ Pending(q)' = SumFunction(Takes(task', q))
        BY PendingIs
      <4> QED
        BY <4>1, <4>2, TakesNat
    <3>4. left'[q] = LevelSize /\ LevelSize \in Nat \ {0}
      BY <1>3, <2>4, <3>1, DeskAssumption
    <3>5. View(q)' = NewRow /\ rows'[q] = NoRow
      BY <2>1, <2>4, <3>2 DEF Unused
    <3>6. NewRow.status = "OPEN" /\ NewRow.filled = 0 /\ NewRow.settled = 0
      BY DEF NewRow
    <3>7. QuoteRow(NewRow)
      BY <3>4, <3>6 DEF QuoteRow, StatusOf
    <3>8. RowGood(q)'
      BY <3>5 DEF RowGood
    <3>9. SumGood(q)'
      <4> SUFFICES QuoteRow(View(q)') /\ left'[q] + Pending(q)' + View(q)'.filled = LevelSize
        BY DEF SumGood, QuoteRow
      <4>1. QuoteRow(View(q)')
        BY <3>5, <3>7
      <4> QED
        BY <3>3, <3>4, <3>5, <3>6, <4>1
    <3> QED
      BY <3>8, <3>9
  <2> QED
    BY <2>3, <2>4
<1> QED
  BY <1>6, <1>7

\* A client's order takes desk orders.
LEMMA QuoteTaken ==
    ASSUME TypeInv, BookInv, TaskInv, UsedInv, QuoteInv, TypeInv', TaskInv', Next,
           NEW p \in Placements, Reserve(p), NEW q \in Quotes, q \notin lost'
    PROVE  RowGood(q)' /\ SumGood(q)'
<1> DEFINE o == task[p].cur
<1>1. o \in Clients /\ SizeOf(o) \in Nat /\ left[o] = 0 /\ o \in Orders
  BY ReserveBuys, OrderKinds
<1>2. PICK n \in Nat : ReserveAndMatch(p, o, n) /\ Buy(o, SizeOf(o), n)
  BY ReserveBuys
<1> DEFINE trades == TradesOf(book.sell, SizeOf(o), n)
<1>3. /\ task[p].stage = "reserve" /\ Alone(p)
      /\ NowAt(p, "insert", o, trades, task[p].todo)
  BY <1>2, ReserveTask DEF Reserve
<1>4. left'[q] = left[q] - TakenFrom(trades, q) /\ TakenFrom(trades, q) \in Nat
      /\ left[q] \in Nat
  <2>1. left'[q] = left[q] - TakenFrom(trades, q) /\ TakenFrom(trades, q) \in Nat
    BY <1>1, <1>2, BuyEffect
  <2>2. left[q] \in Nat
    BY OrderKinds DEF TypeInv
  <2> QED
    BY <2>1, <2>2
<1>5. task[p].trades = <<>> /\ TakenFrom(task[p].trades, q) = 0
  BY <1>3, NoTrades DEF TaskInv, PlacementShape
<1>6. \A s \in Tasks \ {p} : task'[s].trades = task[s].trades
  BY <1>3 DEF Alone
<1>7. task'[p].trades = trades /\ p \in Tasks
  BY <1>3 DEF NowAt, Alone
<1>8. Pending(q)' = Pending(q) + TakenFrom(trades, q)
  <2>1. /\ task \in [Tasks -> TaskType] /\ task' \in [Tasks -> TaskType]
        /\ Pending(q) = SumFunction(Takes(task, q)) /\ Pending(q)' = SumFunction(Takes(task', q))
        /\ Pending(q) \in Nat
    BY PendingIs
  <2>2. SumFunction(Takes(task', q)) = SumFunction(Takes(task, q))
             - TakenFrom(task[p].trades, q) + TakenFrom(task'[p].trades, q)
    BY <1>6, <1>7, <2>1, TakesChange
  <2> HIDE DEF trades
  <2> QED
    BY <1>4, <1>5, <1>7, <2>1, <2>2
<1>9. Unmoved(q)
  <2>1. \A x \in Orders \ {o} : Unmoved(x)
    BY ReserveMoves
  <2> QED
    BY <1>1, <2>1, OrderKinds
<1>10. RowGood(q) /\ SumGood(q) /\ used' = used
  BY QuoteNow DEF Reserve
<1>11. Pending(q) \in Nat
  BY PendingIs
<1> HIDE DEF trades, o
<1>12. left'[q] + Pending(q)' = left[q] + Pending(q)
  BY <1>4, <1>8, <1>11
<1> QED
  BY <1>9, <1>10, <1>12, QuoteStays DEF Unmoved

\* A trade is settled.
LEMMA QuoteSettled ==
    ASSUME TypeInv, BookInv, TaskInv, UsedInv, QuoteInv, TypeInv', TaskInv', Next,
           NEW p \in Placements, Settle(p), NEW q \in Quotes, q \notin lost'
    PROVE  RowGood(q)' /\ SumGood(q)'
<1>0. p \in Tasks /\ q \in Orders /\ UserOf(q) = Desk
  BY OrderKinds DEF Tasks
<1>1. lost' = lost /\ used' = used /\ left' = left /\ rows' = rows
  BY DEF Settle, memoryVars, dbVars
<1>2. RowGood(q) /\ SumGood(q)
  BY <1>1, QuoteNow
<1> DEFINE trades == task[p].trades
<1>3. /\ Alone(p) /\ trades # <<>> /\ task'[p].trades = Tail(trades)
  <2>1. Alone(p) /\ trades # <<>> /\ After(p, Tail(trades))
    BY SettleTask
  <2> QED
    BY <2>1 DEF After, NowAt
<1>4. trades \in AnyTrades(Quotes)
  <2>1. task[p] \in TaskType
    BY <1>0 DEF TypeInv
  <2> QED
    BY <2>1 DEF TaskType, AnyTrades, TradeType
<1>5. PICK m, n : m = Head(trades).maker /\ n = Head(trades).quantity
  OBVIOUS
<1>6. PICK o : o = task[p].cur
  OBVIOUS
<1>7. /\ \A x \in Orders \ {o, m} : Unmoved(x)
      /\ o \in Clients /\ m \in Quotes /\ n \in Nat \ {0}
      /\ View(m)' = SettledRow(View(m), n, LevelSize) /\ View(m) # NoRow
  BY <1>5, <1>6, SettleMoves
<1>8. /\ TakenFrom(trades, q) = (IF m = q THEN n ELSE 0) + TakenFrom(Tail(trades), q)
      /\ Tail(trades) \in AnyTrades(Quotes) /\ m \in Makers(trades)
  BY <1>3, <1>4, <1>5, FirstTrade
<1>9. TakenFrom(trades, q) \in Nat /\ TakenFrom(Tail(trades), q) \in Nat
  BY <1>4, <1>8, TradesNat
<1>10. /\ task \in [Tasks -> TaskType] /\ task' \in [Tasks -> TaskType]
       /\ Pending(q) = SumFunction(Takes(task, q)) /\ Pending(q)' = SumFunction(Takes(task', q))
       /\ Pending(q) \in Nat /\ Pending(q)' \in Nat
  BY PendingIs
<1>11. Pending(q)' = Pending(q) - TakenFrom(trades, q) + TakenFrom(Tail(trades), q)
  <2>1. \A s \in Tasks \ {p} : task'[s].trades = task[s].trades
    BY <1>3 DEF Alone
  <2> QED
    BY <1>0, <1>3, <1>10, <2>1, TakesChange
<1> HIDE DEF trades
<1>12. ASSUME q # m PROVE RowGood(q)' /\ SumGood(q)'
  <2>1. Unmoved(q)
    BY <1>0, <1>7, <1>12, OrderKinds
  <2>2. Pending(q)' = Pending(q)
    BY <1>8, <1>9, <1>10, <1>11, <1>12
  <2> QED
    BY <1>1, <1>2, <2>1, <2>2, QuoteStays DEF Unmoved
<1>13. ASSUME q = m PROVE RowGood(q)' /\ SumGood(q)'
  <2>1. Pending(q)' = Pending(q) - n
    BY <1>7, <1>8, <1>9, <1>10, <1>11, <1>13
  <2>2. q \in used
    <3>1. q \in Makers(task[p].trades)
      BY <1>8, <1>13 DEF trades
    <3> QED
      BY <1>0, <3>1 DEF UsedInv, Unused
  <2>3. QuoteRow(View(q)) /\ left[q] + Pending(q) + View(q).filled = LevelSize
    BY <1>2, <2>2 DEF SumGood
  <2>4. left[q] \in Nat /\ LevelSize \in Nat \ {0} /\ View(q) \in RowType
    BY <1>0, DeskAssumption, ViewIs DEF TypeInv
  <2>5. View(q).filled \in Nat /\ View(q).settled \in Nat
    BY <2>4 DEF RowType
  <2> DEFINE row == SettledRow(View(q), n, LevelSize)
  <2>6. /\ row.filled = View(q).filled + n /\ row.settled = View(q).settled + n
        /\ row.status = StatusOf(View(q).filled + n, LevelSize)
    BY <1>7, <2>4, SettledFields
  <2>7. View(q)' = row
    BY <1>7, <1>13
  <2> HIDE DEF row
  <2>8. View(q).filled + n <= LevelSize
    BY <1>7, <1>10, <2>1, <2>3, <2>4, <2>5
  <2>9. QuoteRow(row)
    BY <1>7, <2>3, <2>5, <2>6, <2>8 DEF QuoteRow
  <2>10. left[q] + Pending(q)' + row.filled = LevelSize
    BY <1>7, <1>10, <2>1, <2>3, <2>4, <2>5, <2>6
  <2>11. SumGood(q)'
    <3> SUFFICES QuoteRow(View(q)') /\ left'[q] + Pending(q)' + View(q)'.filled = LevelSize
      BY DEF SumGood, QuoteRow
    <3>1. QuoteRow(View(q)')
      BY <2>7, <2>9
    <3>2. left'[q] + Pending(q)' + View(q)'.filled = LevelSize
      BY <1>1, <2>7, <2>10
    <3> QED
      BY <3>1, <3>2
  <2>12. RowGood(q)'
    BY <1>1, <1>2 DEF RowGood
  <2> QED
    BY <2>11, <2>12
<1> QED
  BY <1>12, <1>13

\* The end of a task.
LEMMA QuoteEnded ==
    ASSUME TypeInv, BookInv, TaskInv, UsedInv, QuoteInv, TypeInv', TaskInv', Next,
           NEW t \in Tasks, Finish(t) \/ Abort(t), NEW q \in Quotes, q \notin lost'
    PROVE  RowGood(q)' /\ SumGood(q)'
<1>0. q \in Orders /\ UserOf(q) = Desk /\ Desk \in Holders
  BY OrderKinds DEF Holders
<1>1. lost \subseteq lost' /\ used' = used /\ left' = left
  BY LostNext DEF Finish, Commit, Abort, memoryVars
<1>2. RowGood(q) /\ SumGood(q)
  BY <1>1, QuoteNow
<1>3. Alone(t) /\ EndedTask(t)
  <2>1. Finish(t) => Alone(t) /\ EndedTask(t)
    <3> SUFFICES ASSUME Finish(t) PROVE Alone(t) /\ EndedTask(t)
      OBVIOUS
    <3>1. PICK stage \in {"ready", "done"} : (stage = "ready" <=> t = Tick) /\ Commit(t, stage)
      BY DEF Finish
    <3> QED
      BY <3>1, CommitTask
  <2> QED
    BY <2>1, AbortTask
<1>4. TakenFrom(task[t].trades, q) = 0
  <2>1. ASSUME Finish(t) PROVE task[t].trades = <<>>
    <3>1. t \in DeskTasks => task[t].trades = <<>>
      BY DEF TaskInv, DeskShape
    <3>2. t \in Placements => task[t].trades = <<>>
      BY <2>1, NameAssumption DEF TaskInv, PlacementShape, Finish
    <3> QED
      BY <3>1, <3>2 DEF Tasks, DeskTasks
  <2>2. ASSUME Abort(t) PROVE q \notin Makers(task[t].trades)
    BY <2>2 DEF Abort, Unkept
  <2>3. task[t].trades \in AnyTrades(Quotes)
    <3>1. task[t] \in TaskType
      BY DEF TypeInv
    <3> QED
      BY <3>1 DEF TaskType, AnyTrades, TradeType
  <2> QED
    BY <2>1, <2>2, <2>3, TradesNat, NoTrades
<1>5. Pending(q)' = Pending(q)
  <2>1. TakenFrom(task'[t].trades, q) = 0
    BY <1>3, NoTrades DEF EndedTask, Idle
  <2>2. \A s \in Tasks : TakenFrom(task'[s].trades, q) = TakenFrom(task[s].trades, q)
    BY <1>3, <1>4, <2>1 DEF Alone
  <2> QED
    BY <2>2, PendingIs, TakesSame
<1>6. ASSUME Still(Desk) PROVE RowGood(q)' /\ SumGood(q)'
  BY <1>0, <1>1, <1>2, <1>5, <1>6, QuoteStays DEF Still, Unmoved
<1>7. ASSUME Finish(t), Saved(Desk) PROVE RowGood(q)' /\ SumGood(q)'
  <2>1. rows'[q] = View(q) /\ View(q)' = View(q)
    BY <1>0, <1>7 DEF Saved
  <2>2. SumGood(q)'
    <3> SUFFICES ASSUME q \in used'
                 PROVE  QuoteRow(View(q)') /\ left'[q] + Pending(q)' + View(q)'.filled = LevelSize
      BY DEF SumGood, QuoteRow
    <3>1. QuoteRow(View(q)) /\ left[q] + Pending(q) + View(q).filled = LevelSize
      BY <1>1, <1>2 DEF SumGood
    <3> QED
      BY <1>1, <1>5, <2>1, <3>1
  <2>3. RowGood(q)'
    <3> SUFFICES ASSUME View(q) # NoRow PROVE QuoteRow(View(q))
      BY <2>1 DEF RowGood, QuoteRow
    <3>1. q \in used
      <4> SUFFICES ASSUME q \notin used PROVE FALSE
        OBVIOUS
      <4>1. rows[q] = NoRow /\ \A s \in Tasks : task[s].draft[q] = NoRow
        BY DEF UsedInv, Unused
      <4> QED
        BY <1>0, <4>1, ViewIs
    <3> QED
      BY <1>2, <3>1 DEF SumGood
  <2> QED
    BY <2>2, <2>3
<1>8. ASSUME Abort(t), Dropped(Desk), holder[Desk] = t PROVE RowGood(q)' /\ SumGood(q)'
  <2>1. rows'[q] = rows[q] /\ View(q)' = rows[q]
    BY <1>0, <1>8 DEF Dropped
  <2>2. task[t].draft[q] = NoRow
    BY <1>0, <1>8 DEF Abort, Unkept
  <2>3. View(q) = rows[q]
    BY <1>0, <1>8, <2>2, ViewIs DEF Free, Visible
  <2> QED
    BY <1>1, <1>2, <1>5, <2>1, <2>3, QuoteStays
<1> QED
  BY <1>0, <1>6, <1>7, <1>8, FinishMoves, AbortMoves

LEMMA QuoteRestarted ==
    ASSUME TypeInv, BookInv, TaskInv, UsedInv, QuoteInv, TypeInv', TaskInv', Next,
           Restart, NEW q \in Quotes, q \notin lost'
    PROVE  RowGood(q)' /\ SumGood(q)'
<1>0. q \in Orders /\ UserOf(q) = Desk /\ Desk \in Holders
  BY OrderKinds DEF Holders
<1>1. lost \subseteq lost' /\ used' = used /\ left'[q] = 0
  BY <1>0, LostNext DEF Restart
<1>2. RowGood(q) /\ SumGood(q)
  BY <1>1, QuoteNow
<1>3. ~OnBook(q) /\ \A t \in Tasks : q \notin Unkept(t)
  <2> DEFINE S == {Unkept(t) : t \in Tasks}
             B == {x \in Quotes : OnBook(x)}
  <2>1. lost' = lost \cup (UNION S) \cup B
    BY DEF Restart
  <2>2. \A t \in Tasks : Unkept(t) \in S
    OBVIOUS
  <2>3. OnBook(q) => q \in B
    OBVIOUS
  <2> HIDE DEF S, B
  <2> QED
    BY <2>1, <2>2, <2>3
<1>4. \A t \in Tasks : task[t].draft[q] = NoRow /\ q \notin Makers(task[t].trades)
  BY <1>0, <1>3 DEF Unkept
<1>5. left[q] = 0
  BY <1>0, <1>3 DEF OnBook, TypeInv
<1>6. View(q) = rows[q]
  BY <1>0, <1>4, ViewIs
<1>7. rows'[q] = rows[q] /\ View(q)' = rows[q]
  <2>1. Dropped(Desk)
    BY <1>0, RestartMoves
  <2> QED
    BY <1>0, <2>1 DEF Dropped
<1>8. \A t \in Tasks : TakenFrom(task[t].trades, q) = 0
  <2>1. \A t \in Tasks : task[t].trades \in AnyTrades(Quotes)
    BY DEF TypeInv, TaskType, AnyTrades, TradeType
  <2> QED
    BY <1>4, <2>1, TradesNat
<1>9. \A t \in Tasks : TakenFrom(task'[t].trades, q) = 0
  <2>1. \A t \in Tasks : task'[t].trades = task[t].trades \/ task'[t].trades = <<>>
    <3> SUFFICES ASSUME NEW t \in Tasks
                 PROVE  task'[t].trades = task[t].trades \/ task'[t].trades = <<>>
      OBVIOUS
    <3>1. EndedTask(t) \/ task'[t] = task[t]
      BY RestartTask
    <3> QED
      BY <3>1 DEF EndedTask, Idle
  <2> QED
    BY <1>8, <2>1, NoTrades
<1>10. Pending(q)' = Pending(q)
  BY <1>8, <1>9, PendingIs, TakesSame
<1> QED
  BY <1>1, <1>2, <1>5, <1>6, <1>7, <1>10, QuoteStays

\* The steps that touch no desk order.
LEMMA QuoteAside ==
    ASSUME TypeInv, BookInv, TaskInv, UsedInv, QuoteInv, TypeInv', TaskInv', Next,
           NEW q \in Quotes, q \notin lost',
           \/ \E d \in DeskTasks : StartRun(d) \/ TopUp(d)
           \/ \E d \in DeskTasks, l \in Levels : Satisfied(d, l) \/ Miss(d, l)
           \/ \E p \in Placements : Begin(p) \/ SkipPoor(p) \/ Insert(p) \/ SkipViolated(p)
           \/ \E p \in Placements, r \in Relations : SkipCopy(p, r) \/ Copy(p, r)
           \/ \E o \in Clients : CancelOrder(o)
           \/ \E r \in Relations : FollowLook(r) \/ FollowCommit(r) \/ Unfollow(r)
    PROVE  RowGood(q)' /\ SumGood(q)'
<1> DEFINE Goal == RowGood(q)' /\ SumGood(q)'
<1>0. q \in Orders /\ q \notin Clients
  BY OrderKinds
<1>1. lost \subseteq lost'
  BY LostNext
<1>2. ASSUME Unmoved(q), left'[q] = left[q], used' = used,
             \A t \in Tasks : TakenFrom(task'[t].trades, q) = TakenFrom(task[t].trades, q)
      PROVE  Goal
  BY <1>1, <1>2, QuoteCalm
<1>3. ASSUME Unmoved(q), left'[q] = left[q], used' = used, NEW t \in Tasks, Alone(t),
             task'[t].trades = task[t].trades
      PROVE  Goal
  BY <1>2, <1>3 DEF Alone
<1>4. ASSUME NEW d \in DeskTasks, StartRun(d) \/ TopUp(d) PROVE Goal
  <2>1. Unmoved(q)
    BY <1>0, <1>4, QuietMoves, TopUpMoves DEF QuietStep
  <2>2. Alone(d) /\ task'[d].trades = task[d].trades
    BY <1>4, StartRunTask, TopUpTask DEF NowAt
  <2>3. left' = left /\ used' = used
    BY <1>4 DEF StartRun, TopUp, memoryVars
  <2> QED
    BY <1>3, <2>1, <2>2, <2>3 DEF Alone
<1>5. ASSUME NEW d \in DeskTasks, NEW l \in Levels, Satisfied(d, l) \/ Miss(d, l) PROVE Goal
  <2>1. Unmoved(q)
    BY <1>0, <1>5, QuietMoves DEF QuietStep
  <2>2. Alone(d) /\ task'[d].trades = task[d].trades
    BY <1>5, LevelTask, MissTask DEF NowAt
  <2>3. left' = left /\ used' = used
    BY <1>5 DEF Satisfied, Miss, memoryVars
  <2> QED
    BY <1>3, <2>1, <2>2, <2>3 DEF Alone
<1>6. ASSUME NEW p \in Placements, Begin(p) \/ SkipPoor(p) PROVE Goal
  <2>1. Unmoved(q)
    BY <1>0, <1>6, QuietMoves DEF QuietStep
  <2>2. Alone(p) /\ task'[p].trades = task[p].trades
    BY <1>6, BeginTask, SkipPoorTask DEF NowAt
  <2>3. left' = left /\ used' = used
    BY <1>6 DEF Begin, SkipPoor, memoryVars
  <2> QED
    BY <1>3, <2>1, <2>2, <2>3 DEF Alone
<1>7. ASSUME NEW p \in Placements, Insert(p) PROVE Goal
  <2>1. task[p].stage = "insert" /\ Alone(p) /\ After(p, task[p].trades)
    BY <1>7, InsertTask
  <2>2. task[p].cur \in Clients
    BY <2>1, PlacementCur DEF Running
  <2>3. PICK o : o = task[p].cur
    OBVIOUS
  <2>4. Unmoved(q)
    BY <1>0, <1>7, <2>2, <2>3, InsertMoves
  <2>5. left' = left /\ used' = used
    BY <1>7 DEF Insert, memoryVars
  <2> QED
    BY <1>3, <2>1, <2>4, <2>5 DEF Alone, After, NowAt
<1>8. ASSUME NEW p \in Placements, SkipViolated(p) PROVE Goal
  <2>1. Unmoved(q)
    BY <1>0, <1>8, QuietMoves DEF QuietStep
  <2>2. Alone(p) /\ task'[p].trades = <<>>
    BY <1>8, SkipViolatedTask DEF NowAt
  <2>3. left' = left /\ used' = used /\ q \notin Makers(task[p].trades)
    BY <1>8 DEF SkipViolated, memoryVars
  <2>4. task[p].trades \in AnyTrades(Quotes)
    <3>1. task[p] \in TaskType
      BY <2>2 DEF TypeInv, Alone
    <3> QED
      BY <3>1 DEF TaskType, AnyTrades, TradeType
  <2>5. TakenFrom(task[p].trades, q) = 0 /\ TakenFrom(task'[p].trades, q) = 0
    BY <2>2, <2>3, <2>4, TradesNat, NoTrades
  <2>6. \A t \in Tasks : TakenFrom(task'[t].trades, q) = TakenFrom(task[t].trades, q)
    BY <2>2, <2>5 DEF Alone
  <2> QED
    BY <1>2, <2>1, <2>3, <2>6
<1>9. ASSUME NEW p \in Placements, NEW r \in Relations, SkipCopy(p, r) \/ Copy(p, r) PROVE Goal
  <2>1. Unmoved(q)
    BY <1>0, <1>9, QuietMoves DEF QuietStep
  <2>2. Alone(p) /\ task'[p].trades = task[p].trades
    BY <1>9, SkipCopyTask, CopyTask DEF NowAt
  <2>3. left' = left /\ used' = used
    BY <1>9 DEF SkipCopy, Copy, memoryVars
  <2> QED
    BY <1>3, <2>1, <2>2, <2>3 DEF Alone
<1>10. ASSUME NEW o \in Clients, CancelOrder(o) PROVE Goal
  <2>1. PICK u, w : u = UserOf(o) /\ w = Released(wallet[u], ReserveOf(o, SizeOf(o) - rows[o].filled))
    OBVIOUS
  <2>2. Unmoved(q)
    BY <1>0, <1>10, <2>1, CancelMoves
  <2>3. left'[q] = left[q]
    BY <1>0, <1>10, CancelEffect
  <2>4. used' = used /\ task' = task
    BY <1>10 DEF CancelOrder
  <2> QED
    BY <1>2, <2>2, <2>3, <2>4
<1>11. ASSUME NEW r \in Relations, FollowLook(r) \/ FollowCommit(r) \/ Unfollow(r) PROVE Goal
  <2>1. Unmoved(q)
    BY <1>0, <1>11, QuietMoves DEF QuietStep
  <2>2. left' = left /\ used' = used /\ task' = task
    BY <1>11 DEF FollowLook, FollowCommit, Unfollow, memoryVars
  <2> QED
    BY <1>2, <2>1, <2>2
<1> HIDE DEF Goal
<1>12. Goal
  BY <1>4, <1>5, <1>6, <1>7, <1>8, <1>9, <1>10, <1>11
<1> QED
  BY <1>12 DEF Goal

LEMMA QuoteNext ==
    ASSUME TypeInv, BookInv, TaskInv, UsedInv, QuoteInv, TypeInv', TaskInv', Next
    PROVE  QuoteInv'
<1>1. ASSUME NEW q \in Quotes, q \notin lost' PROVE RowGood(q)' /\ SumGood(q)'
  <2> DEFINE Goal == RowGood(q)' /\ SumGood(q)'
  <2>1. \A d \in DeskTasks, x \in Quotes, n \in Nat :
          q[1] \in Levels /\ x[1] \in Levels /\ (AddAgain(d, x[1], x, n) \/ Place(d, x[1], x, n)) => Goal
    BY <1>1, QuoteSold
  <2>2. \A p \in Placements : Reserve(p) => Goal
    BY <1>1, QuoteTaken
  <2>3. \A p \in Placements : Settle(p) => Goal
    BY <1>1, QuoteSettled
  <2>4. \A t \in Tasks : Finish(t) \/ Abort(t) => Goal
    BY <1>1, QuoteEnded
  <2>5. Restart => Goal
    BY <1>1, QuoteRestarted
  <2>6. \/ \E d \in DeskTasks : StartRun(d) \/ TopUp(d)
        \/ \E d \in DeskTasks, l \in Levels : Satisfied(d, l) \/ Miss(d, l)
        \/ \E p \in Placements : Begin(p) \/ SkipPoor(p) \/ Insert(p) \/ SkipViolated(p)
        \/ \E p \in Placements, r \in Relations : SkipCopy(p, r) \/ Copy(p, r)
        \/ \E o \in Clients : CancelOrder(o)
        \/ \E r \in Relations : FollowLook(r) \/ FollowCommit(r) \/ Unfollow(r)
        => Goal
    BY <1>1, QuoteAside
  <2>7. q[1] \in Levels
    BY DEF Quotes
  <2> HIDE DEF Goal
  <2>8. Goal
    BY <2>1, <2>2, <2>3, <2>4, <2>5, <2>6, <2>7, Steps
  <2> QED
    BY <2>8 DEF Goal
<1> QED
  BY <1>1 DEF QuoteInv, RowGood, SumGood

-----------------------------------------------------------------------------
(* What clients have locked.                                               *)

RowTerm(u)  == [o \in Orders |-> IF UserOf(o) = u THEN RowNeed(o) ELSE 0]
ViewTerm(u) == [o \in Orders |-> IF UserOf(o) = u THEN ViewNeed(o) ELSE 0]

LEMMA ReserveIs ==
    ClientReserve <=> \A u \in Users :
      /\ committed[u].locked = SumFunctionOnSet(RowTerm(u), Orders)
      /\ wallet[u].locked = SumFunctionOnSet(ViewTerm(u), Orders)
<1>1. \A u : DOMAIN RowTerm(u) = Orders /\ DOMAIN ViewTerm(u) = Orders
  BY DEF RowTerm, ViewTerm
<1>2. \A u : /\ SumFunction(RowTerm(u)) = SumFunctionOnSet(RowTerm(u), Orders)
             /\ SumFunction(ViewTerm(u)) = SumFunctionOnSet(ViewTerm(u), Orders)
  BY <1>1, SumWhole
<1> QED
  BY <1>2 DEF ClientReserve, RowTerm, ViewTerm

LEMMA NeededNat ==
    ASSUME NEW o \in Clients, NEW row \in RowType, ClientRow(row, o)
    PROVE  /\ Needed(row, o) \in Nat /\ OpenPart(row, o) \in Nat
           /\ row.status \in Open => ReserveOf(o, SizeOf(o) - row.filled) <= Needed(row, o)
<1>1. /\ row.filled \in Nat /\ row.settled \in Nat /\ row.paid \in Nat /\ SizeOf(o) \in Nat
      /\ row.settled <= row.filled /\ row.filled <= SizeOf(o)
      /\ row.paid <= ReserveOf(o, row.settled) /\ o \notin Quotes
  BY SizeNat, OrderKinds DEF ClientRow, RowType
<1>2. row.filled - row.settled \in Nat /\ SizeOf(o) - row.filled \in Nat
  BY <1>1
<1>3. /\ ReserveOf(o, row.filled - row.settled) = ReserveOf(o, row.filled) - ReserveOf(o, row.settled)
      /\ ReserveOf(o, row.filled) \in Nat /\ ReserveOf(o, row.settled) \in Nat
      /\ ReserveOf(o, row.filled - row.settled) \in Nat
      /\ ReserveOf(o, SizeOf(o) - row.filled) \in Nat
  BY <1>1, <1>2, ReserveFacts
<1>4. OpenPart(row, o) \in Nat
      /\ (row.status \in Open => OpenPart(row, o) = ReserveOf(o, SizeOf(o) - row.filled))
  BY <1>3 DEF OpenPart
<1>5. Needed(row, o) = OpenPart(row, o) + (ReserveOf(o, row.filled) - row.paid)
  BY <1>1 DEF Needed, Took
<1>6. ReserveOf(o, row.filled) - row.paid \in Nat
  BY <1>1, <1>3
<1> QED
  BY <1>4, <1>5, <1>6

\* Clients' rows as they are seen are as good as the committed ones.
LEMMA ViewGood ==
    ASSUME TypeInv, TaskInv, FillInv, NEW o \in Clients
    PROVE  ClientRow(View(o), o) /\ ClientRow(rows[o], o)
<1>0. o \in Orders
  BY OrderKinds
<1>1. ASSUME NEW t \in Tasks, task[t].draft[o] # NoRow PROVE ClientRow(View(o), o)
  <2>1. t \in Placements
    BY <1>1 DEF TaskInv, DeskShape, Tasks, DeskTasks
  <2>2. View(o) = task[t].draft[o]
    BY <1>0, <1>1, ViewIs
  <2> QED
    BY <1>1, <2>1, <2>2 DEF FillInv
<1>2. CASE \A t \in Tasks : task[t].draft[o] = NoRow
  <2>1. View(o) = rows[o]
    BY <1>0, <1>2, ViewIs
  <2> QED
    BY <2>1 DEF FillInv
<1> QED
  BY <1>1, <1>2 DEF FillInv

LEMMA UserClients == \A o \in Orders : UserOf(o) \in Users => o \in Clients
BY OrderKinds, NameAssumption DEF Orders

LEMMA NeedsNat ==
    ASSUME TypeInv, TaskInv, FillInv, NEW o \in Orders, UserOf(o) \in Users
    PROVE  RowNeed(o) \in Nat /\ ViewNeed(o) \in Nat
<1>1. o \in Clients
  BY UserClients
<1>2. rows[o] \in RowType /\ View(o) \in RowType
  BY ViewIs DEF TypeInv
<1>3. ClientRow(View(o), o) /\ ClientRow(rows[o], o)
  BY <1>1, ViewGood
<1>4. Needed(View(o), o) \in Nat /\ Needed(rows[o], o) \in Nat /\ ReserveOf(o, SizeOf(o)) \in Nat
  BY <1>1, <1>2, <1>3, NeededNat, SizeNat, ReserveFacts
<1> QED
  BY <1>4 DEF RowNeed, ViewNeed

LEMMA TermsNat ==
    ASSUME TypeInv, TaskInv, FillInv, NEW u \in Users
    PROVE  \A o \in Orders : RowTerm(u)[o] \in Nat /\ ViewTerm(u)[o] \in Nat
BY NeedsNat DEF RowTerm, ViewTerm

LEMMA ClientLocks ==
    ASSUME TypeInv, TaskInv, FillInv, ClientReserve, NEW u \in Users
    PROVE  /\ wallet[u].locked \in Nat /\ committed[u].locked \in Nat
           /\ \A o \in Orders : UserOf(o) = u =>
                ViewNeed(o) <= wallet[u].locked /\ RowNeed(o) <= committed[u].locked
<1>1. /\ committed[u].locked = SumFunctionOnSet(RowTerm(u), Orders)
      /\ wallet[u].locked = SumFunctionOnSet(ViewTerm(u), Orders)
  BY ReserveIs
<1>2. /\ SumFunctionOnSet(RowTerm(u), Orders) \in Nat
      /\ \A o \in Orders : RowTerm(u)[o] <= SumFunctionOnSet(RowTerm(u), Orders)
  BY Finite, TermsNat, SumNat
<1>3. /\ SumFunctionOnSet(ViewTerm(u), Orders) \in Nat
      /\ \A o \in Orders : ViewTerm(u)[o] <= SumFunctionOnSet(ViewTerm(u), Orders)
  BY Finite, TermsNat, SumNat
<1>4. \A o \in Orders : UserOf(o) = u => RowTerm(u)[o] = RowNeed(o) /\ ViewTerm(u)[o] = ViewNeed(o)
  BY DEF RowTerm, ViewTerm
<1> QED
  BY <1>1, <1>2, <1>3, <1>4

\* What a cancelled order releases was locked for it.
LEMMA CancelReleases ==
    ASSUME TypeInv, TaskInv, FillInv, ClientReserve, NEW o \in Clients, NEW u, u = UserOf(o),
           rows[o].status \in Open, View(o) = rows[o], ~Inserting(o)
    PROVE  LET n == ReserveOf(o, SizeOf(o) - rows[o].filled) IN
           /\ n \in Nat /\ n <= wallet[u].locked
           /\ Released(wallet[u], n) =
                [available |-> wallet[u].available + n, locked |-> wallet[u].locked - n]
<1> DEFINE n == ReserveOf(o, SizeOf(o) - rows[o].filled)
<1>0. o \in Orders /\ u \in Users
  BY OrderKinds
<1>1. wallet[u].locked \in Nat /\ ViewNeed(o) <= wallet[u].locked
  BY <1>0, ClientLocks
<1>2. ClientRow(rows[o], o) /\ rows[o] \in RowType
  BY <1>0, ViewGood DEF TypeInv
<1>3. OpenPart(rows[o], o) = n /\ n \in Nat /\ n <= Needed(rows[o], o) /\ Needed(rows[o], o) \in Nat
  BY <1>0, <1>2, NeededNat DEF OpenPart
<1>4. ViewNeed(o) = Needed(rows[o], o)
  BY DEF ViewNeed, Inserting
<1> HIDE DEF n
<1>5. n \in Nat /\ n <= wallet[u].locked
  BY <1>1, <1>3, <1>4
<1>6. Released(wallet[u], n) =
        [available |-> wallet[u].available + n, locked |-> wallet[u].locked - n]
  <2>1. (IF n < wallet[u].locked THEN n ELSE wallet[u].locked) = n
    BY <1>1, <1>5
  <2> QED
    BY <2>1 DEF Released
<1> QED
  BY <1>5, <1>6 DEF n

-----------------------------------------------------------------------------
(* The wallets.                                                            *)

WalletGood(u) ==
    /\ holder[u] = None => wallet[u] = committed[u]
    /\ wallet[u].available >= 0 /\ committed[u].available >= 0
    /\ u = Desk => /\ wallet[u].available <= DeskTarget /\ committed[u].available <= DeskTarget
                   /\ wallet[u].locked >= 0 /\ committed[u].locked >= 0

LEMMA WalletSplit ==
    WalletInv <=> \A u \in Holders : WalletGood(u)
<1>1. Desk \in Holders
  BY DEF Holders
<1> QED
  BY <1>1 DEF WalletInv, WalletGood

LEMMA WalletKept ==
    ASSUME TypeInv, TaskInv, WalletInv, NEW u \in Holders
    PROVE  /\ Still(u) /\ (holder'[u] = None => holder[u] = None) => WalletGood(u)'
           /\ Saved(u) => WalletGood(u)'
           /\ Dropped(u) => WalletGood(u)'
<1>1. WalletGood(u)
  BY WalletSplit
<1> QED
  BY <1>1 DEF WalletGood, Still, Saved, Dropped

\* The holders of wallets in steps that end no task.
LEMMA Locked ==
    ASSUME TypeInv, NEW t \in Tasks, NEW v \in Holders, Lock(t, v)
    PROVE  /\ holder'[v] # None
           /\ \A u \in Holders : holder'[u] = None => holder[u] = None
BY LockType, NameAssumption

LEMMA QuietLocks ==
    ASSUME TypeInv, TaskInv, QuietStep, NEW u \in Holders
    PROVE  holder'[u] = None => holder[u] = None
<1>0. Desk \in Holders /\ Placements \subseteq Tasks
  BY DEF Holders, Tasks
<1>1. ASSUME NEW p \in Placements, SkipViolated(p) PROVE holder'[u] = None => holder[u] = None
  <2>1. Lock(p, Desk)
    BY <1>1 DEF SkipViolated
  <2> QED
    BY <1>0, <2>1, Locked
<1>2. \A d \in DeskTasks : StartRun(d) => holder' = holder
  BY DEF StartRun, walletVars
<1>3. \A d \in DeskTasks, l \in Levels : Satisfied(d, l) \/ Miss(d, l) => holder' = holder
  BY DEF Satisfied, Miss, walletVars
<1>4. \A d \in DeskTasks, q \in Quotes, n \in Nat : AddAgain(d, q[1], q, n) => holder' = holder
  BY DEF AddAgain, walletVars
<1>5. \A p \in Placements : Begin(p) \/ SkipPoor(p) => holder' = holder
  BY DEF Begin, SkipPoor, walletVars
<1>6. \A p \in Placements, r \in Relations : SkipCopy(p, r) \/ Copy(p, r) => holder' = holder
  BY DEF SkipCopy, Copy, walletVars
<1>7. \A r \in Relations : FollowLook(r) \/ FollowCommit(r) \/ Unfollow(r) => holder' = holder
  BY DEF FollowLook, FollowCommit, Unfollow, walletVars
<1> QED
  BY <1>1, <1>2, <1>3, <1>4, <1>5, <1>6, <1>7 DEF QuietStep

\* The steps again, as what they do to wallets.
LEMMA WalletMoves ==
    ASSUME TypeInv, TaskInv, Next
    PROVE  \/ QuietStep
           \/ \E d \in DeskTasks : TopUp(d)
           \/ \E d \in DeskTasks, q \in Quotes, n \in Nat : q[1] \in Levels /\ Place(d, q[1], q, n)
           \/ \E p \in Placements : Insert(p) \/ Settle(p) \/ Reserve(p)
           \/ \E t \in Tasks : Abort(t)
           \/ \E t \in Tasks : Finish(t)
           \/ \E o \in Clients : CancelOrder(o)
           \/ Restart
BY Steps DEF QuietStep

LEMMA WalletNext ==
    ASSUME TypeInv, BookInv, TaskInv, UsedInv, FillInv, WalletInv, ClientReserve, TypeInv', TaskInv',
           Next
    PROVE  WalletInv'
<1>0. Desk \in Holders /\ Placements \subseteq Tasks /\ DeskTasks \subseteq Tasks
  BY DEF Holders, Tasks, DeskTasks
<1> SUFFICES ASSUME NEW u \in Holders PROVE WalletGood(u)'
  <2>1. \A v \in Holders : WalletGood(v)'
    OBVIOUS
  <2> QED
    BY <1>0, <2>1 DEF WalletInv, WalletGood
<1> DEFINE Goal == WalletGood(u)'
<1>1. WalletGood(u) /\ wallet[u] \in Ledger /\ committed[u] \in Ledger
  BY WalletSplit DEF TypeInv
<1>2. ASSUME QuietStep PROVE Goal
  BY <1>2, QuietMoves, QuietLocks, WalletKept
<1>3. ASSUME NEW d \in DeskTasks, TopUp(d) PROVE Goal
  <2>1. /\ committed' = committed
        /\ wallet' = [wallet EXCEPT ![Desk] = RaisedBalance(wallet[Desk])]
        /\ \A o \in Orders : Unmoved(o)
    BY <1>3, TopUpMoves
  <2>2. Lock(d, Desk)
    BY <1>3 DEF TopUp
  <2>3. holder'[Desk] # None /\ (holder'[u] = None => holder[u] = None)
    BY <1>0, <2>2, Locked
  <2>4. ASSUME u # Desk PROVE Goal
    <3>1. Still(u)
      BY <2>1, <2>4 DEF Still, TypeInv
    <3> QED
      BY <2>3, <3>1, WalletKept
  <2>5. ASSUME u = Desk PROVE Goal
    <3>1. wallet'[u].available = DeskTarget /\ wallet'[u].locked = wallet[u].locked
      BY <1>1, <2>1, <2>5 DEF RaisedBalance, Ledger, TypeInv
    <3> QED
      BY <1>1, <2>1, <2>3, <2>5, <3>1, DeskAssumption DEF WalletGood
  <2> QED
    BY <2>4, <2>5
<1>4. ASSUME NEW d \in DeskTasks, NEW q \in Quotes, NEW n \in Nat, q[1] \in Levels, Place(d, q[1], q, n)
      PROVE  Goal
  <2>1. /\ committed' = committed
        /\ wallet' = [wallet EXCEPT ![Desk] = Reserved(wallet[Desk], LevelSize)]
        /\ \A o \in Orders \ {q} : Unmoved(o)
    BY <1>4, PlaceMoves
  <2>2. Lock(d, Desk) /\ wallet[Desk].available >= LevelSize
    BY <1>4 DEF Place
  <2>3. holder'[Desk] # None /\ (holder'[u] = None => holder[u] = None)
    BY <1>0, <2>2, Locked
  <2>4. ASSUME u # Desk PROVE Goal
    <3>1. Still(u)
      BY <2>1, <2>4, OrderKinds DEF Still, TypeInv
    <3> QED
      BY <2>3, <3>1, WalletKept
  <2>5. ASSUME u = Desk PROVE Goal
    <3>1. /\ wallet'[u].available = wallet[u].available - LevelSize
          /\ wallet'[u].locked = wallet[u].locked + LevelSize
      BY <1>1, <2>1, <2>5 DEF Reserved, TypeInv
    <3>2. LevelSize \in Nat /\ DeskTarget \in Nat
      BY DeskAssumption
    <3> QED
      BY <1>1, <2>1, <2>2, <2>3, <2>5, <3>1, <3>2 DEF WalletGood, Ledger
  <2> QED
    BY <2>4, <2>5
<1>5. ASSUME NEW p \in Placements, Reserve(p) PROVE Goal
  <2>1. PICK o : o = task[p].cur
    OBVIOUS
  <2>2. o \in Clients /\ UserOf(o) \in Holders /\ UserOf(o) # Desk
        /\ ReserveOf(o, SizeOf(o)) \in Nat
    BY <1>5, <2>1, ReserveBuys, OrderKinds, NameAssumption, ReserveFacts DEF Holders
  <2>3. /\ committed' = committed
        /\ wallet' = [wallet EXCEPT ![UserOf(o)] = Reserved(wallet[UserOf(o)], ReserveOf(o, SizeOf(o)))]
        /\ wallet[UserOf(o)].available >= ReserveOf(o, SizeOf(o))
        /\ \A x \in Orders \ {o} : Unmoved(x)
    BY <1>5, <2>1, ReserveMoves
  <2>4. Lock(p, UserOf(o))
    BY <1>5, <2>1 DEF Reserve, ReserveAndMatch
  <2>5. holder'[UserOf(o)] # None /\ (holder'[u] = None => holder[u] = None)
    BY <1>0, <2>2, <2>4, Locked
  <2>6. ASSUME u # UserOf(o) PROVE Goal
    <3>1. Still(u)
      BY <2>3, <2>6 DEF Still, TypeInv
    <3> QED
      BY <2>5, <3>1, WalletKept
  <2>7. ASSUME u = UserOf(o) PROVE Goal
    <3>1. wallet'[u].available = wallet[u].available - ReserveOf(o, SizeOf(o))
      BY <1>1, <2>3, <2>7 DEF Reserved, TypeInv
    <3> QED
      BY <1>1, <2>2, <2>3, <2>5, <2>7, <3>1 DEF WalletGood, Ledger
  <2> QED
    BY <2>6, <2>7
<1>6. ASSUME NEW p \in Placements, Insert(p) PROVE Goal
  <2>1. wallet' = wallet /\ committed' = committed /\ holder' = holder
    BY <1>6 DEF Insert, dbVars, walletVars
  <2> QED
    BY <1>1, <2>1 DEF WalletGood
<1>7. ASSUME NEW p \in Placements, Settle(p) PROVE Goal
  <2> DEFINE v == UserOf(task[p].cur)
             n == Head(task[p].trades).quantity
  <2>1. /\ wallet' \in [Holders -> Ledger]
        /\ \A w \in Holders \ {v, Desk} : wallet'[w] = wallet[w]
        /\ \A w \in Holders : wallet'[w].available = wallet[w].available
        /\ wallet'[Desk].locked = wallet[Desk].locked - n
    BY <1>7, SettleWallet
  <2>2. committed' = committed /\ Lock(p, Desk)
    BY <1>7 DEF Settle, dbVars
  <2>3. holder'[Desk] # None /\ (holder'[u] = None => holder[u] = None)
    BY <1>0, <2>2, Locked
  <2>4. wallet[Desk].locked >= n /\ n \in Nat
    BY <1>7, SettleTask DEF TradeType
  <2>5. /\ task[p].stage = "settle" /\ Running(p) /\ Alone(p) /\ task[p].draft[task[p].cur] # NoRow
    BY <1>7, SettleTask
  <2>6. task[p].cur \in Orders /\ v \in Holders /\ v # Desk
    BY <2>5, PlacementCur
  <2>7. holder[v] = p /\ p # None
    BY <1>0, <2>5, <2>6, ViewIs, NameAssumption
  <2>8. holder'[v] = p
    BY <1>0, <2>2, <2>6, <2>7, LockType
  <2> HIDE DEF v, n
  <2>9. holder'[u] = None => wallet'[u] = committed'[u]
    BY <1>1, <2>1, <2>2, <2>3, <2>7, <2>8 DEF WalletGood
  <2>10. u = Desk => wallet'[u].locked >= 0
    BY <1>1, <2>1, <2>4 DEF Ledger
  <2> QED
    BY <1>1, <2>1, <2>2, <2>9, <2>10 DEF WalletGood
<1>8. ASSUME NEW t \in Tasks, Abort(t) PROVE Goal
  BY <1>8, AbortMoves, WalletKept
<1>9. ASSUME NEW t \in Tasks, Finish(t) PROVE Goal
  BY <1>9, FinishMoves, WalletKept
<1>10. ASSUME NEW o \in Clients, CancelOrder(o) PROVE Goal
  <2>1. PICK v, w : v = UserOf(o) /\ w = Released(wallet[v], ReserveOf(o, SizeOf(o) - rows[o].filled))
    OBVIOUS
  <2>0. /\ wallet' = [wallet EXCEPT ![v] = w] /\ committed' = [committed EXCEPT ![v] = w]
        /\ holder[v] = None /\ v \in Users /\ v \in Holders /\ v # Desk
        /\ rows[o].status \in Open /\ rows'[o] = [rows[o] EXCEPT !.status = "CANCELLED"]
        /\ View(o) = rows[o] /\ View(o)' = rows'[o] /\ ~Inserting(o) /\ ~Inserting(o)'
        /\ \A x \in Orders \ {o} : Unmoved(x)
        /\ \A x \in Holders \ {v} : Still(x)
    BY <1>10, <2>1, CancelMoves
  <2>2. /\ wallet' = [wallet EXCEPT ![v] = w] /\ committed' = [committed EXCEPT ![v] = w]
        /\ v \in Users /\ v \in Holders /\ v # Desk
        /\ \A x \in Holders \ {v} : Still(x)
    BY <2>0
  <2>3. holder' = holder
    BY <1>10 DEF CancelOrder
  <2>4. ASSUME u # v PROVE Goal
    BY <2>2, <2>3, <2>4, WalletKept
  <2>5. ASSUME u = v PROVE Goal
    <3>1. wallet'[u] = w /\ committed'[u] = w
      BY <2>2, <2>5 DEF TypeInv
    <3>2. w = [available |-> wallet[v].available + ReserveOf(o, SizeOf(o) - rows[o].filled),
               locked |-> wallet[v].locked - ReserveOf(o, SizeOf(o) - rows[o].filled)]
          /\ ReserveOf(o, SizeOf(o) - rows[o].filled) \in Nat
      BY <2>0, <2>1, CancelReleases
    <3>4. w.available >= 0
      BY <1>1, <2>5, <3>2 DEF WalletGood, Ledger
    <3> QED
      BY <2>2, <2>5, <3>1, <3>4 DEF WalletGood
  <2> QED
    BY <2>4, <2>5
<1>11. ASSUME Restart PROVE Goal
  BY <1>11, RestartMoves, WalletKept
<1> HIDE DEF Goal
<1>12. Goal
  BY <1>2, <1>3, <1>4, <1>5, <1>6, <1>7, <1>8, <1>9, <1>10, <1>11, WalletMoves
<1> QED
  BY <1>12 DEF Goal

-----------------------------------------------------------------------------
(* Reserves, step by step.                                                 *)

\* What u has locked is what his orders need.
Covered(u) ==
    /\ committed[u].locked = SumFunctionOnSet(RowTerm(u), Orders)
    /\ wallet[u].locked = SumFunctionOnSet(ViewTerm(u), Orders)

LEMMA NeededInt ==
    ASSUME NEW o \in Orders, NEW row \in RowType
    PROVE  Needed(row, o) \in Int
<1>1. /\ row.filled \in Nat /\ Took(row, o) \in Int /\ SizeOf(o) \in Nat
  BY SizeNat DEF RowType, Took
<1>2. SizeOf(o) - row.filled \in Int
  BY <1>1
<1>3. ReserveOf(o, row.filled) \in Int /\ ReserveOf(o, SizeOf(o) - row.filled) \in Int
  BY <1>1, <1>2, ReserveFacts
<1> QED
  BY <1>1, <1>3 DEF Needed, OpenPart

LEMMA NeedsInt ==
    ASSUME TypeInv, TaskInv, NEW o \in Orders
    PROVE  RowNeed(o) \in Int /\ ViewNeed(o) \in Int
<1>1. rows[o] \in RowType /\ View(o) \in RowType /\ SizeOf(o) \in Nat
  BY ViewIs, SizeNat DEF TypeInv
<1>2. \A row \in RowType : Needed(row, o) \in Int
  BY <1>1, NeededInt
<1>3. ReserveOf(o, SizeOf(o)) \in Int
  BY <1>1, ReserveFacts
<1> QED
  BY <1>1, <1>2, <1>3 DEF RowNeed, ViewNeed

LEMMA TermsAre ==
    ASSUME TypeInv, TaskInv, NEW u
    PROVE  /\ \A o \in Orders :
                /\ UserOf(o) = u => RowTerm(u)[o] = RowNeed(o) /\ ViewTerm(u)[o] = ViewNeed(o)
                /\ UserOf(o) # u => RowTerm(u)[o] = 0 /\ ViewTerm(u)[o] = 0
           /\ Ints(RowTerm(u), Orders) /\ Ints(ViewTerm(u), Orders)
<1>1. \A o \in Orders :
        /\ UserOf(o) = u => RowTerm(u)[o] = RowNeed(o) /\ ViewTerm(u)[o] = ViewNeed(o)
        /\ UserOf(o) # u => RowTerm(u)[o] = 0 /\ ViewTerm(u)[o] = 0
  BY DEF RowTerm, ViewTerm
<1> QED
  BY <1>1, NeedsInt DEF Ints

LEMMA TermsNext ==
    ASSUME TypeInv', TaskInv', NEW u
    PROVE  /\ \A o \in Orders :
                /\ UserOf(o) = u => RowTerm(u)'[o] = RowNeed(o)' /\ ViewTerm(u)'[o] = ViewNeed(o)'
                /\ UserOf(o) # u => RowTerm(u)'[o] = 0 /\ ViewTerm(u)'[o] = 0
           /\ Ints(RowTerm(u)', Orders) /\ Ints(ViewTerm(u)', Orders)
<1>1. \A o \in Orders :
        /\ UserOf(o) = u => RowTerm(u)'[o] = RowNeed(o)' /\ ViewTerm(u)'[o] = ViewNeed(o)'
        /\ UserOf(o) # u => RowTerm(u)'[o] = 0 /\ ViewTerm(u)'[o] = 0
  BY DEF RowTerm, ViewTerm
<1>2. ASSUME NEW o \in Orders PROVE RowNeed(o)' \in Int /\ ViewNeed(o)' \in Int
  <2>1. rows'[o] \in RowType /\ SizeOf(o) \in Nat /\ UserOf(o) \in Holders
    BY ViewIs, SizeNat, OrderKinds DEF TypeInv, Orders, Holders
  <2>2. View(o)' \in RowType
    <3>1. holder'[UserOf(o)] \in Tasks \cup {None}
      BY <2>1 DEF TypeInv
    <3>2. \A t \in Tasks : task'[t].draft[o] \in RowType
      BY DEF TypeInv, TaskType
    <3> QED
      BY <2>1, <3>1, <3>2 DEF View, Visible
  <2>3. \A row \in RowType : Needed(row, o) \in Int
    BY NeededInt
  <2>4. RowNeed(o)' = Needed(rows'[o], o)
    BY DEF RowNeed, Needed, OpenPart, Took, ReserveOf
  <2>5. ViewNeed(o)' = ReserveOf(o, SizeOf(o)) \/ ViewNeed(o)' = Needed(View(o)', o)
    BY DEF ViewNeed, Needed, OpenPart, Took, ReserveOf
  <2>6. ReserveOf(o, SizeOf(o)) \in Int
    BY <2>1, ReserveFacts
  <2> QED
    BY <2>1, <2>2, <2>3, <2>4, <2>5, <2>6
<1> QED
  BY <1>1, <1>2 DEF Ints

LEMMA NeedsAre ==
    ASSUME NEW o
    PROVE  /\ RowNeed(o)' = Needed(rows'[o], o)
           /\ Inserting(o)' => ViewNeed(o)' = ReserveOf(o, SizeOf(o))
           /\ ~Inserting(o)' => ViewNeed(o)' = Needed(View(o)', o)
           /\ Inserting(o) => ViewNeed(o) = ReserveOf(o, SizeOf(o))
           /\ ~Inserting(o) => ViewNeed(o) = Needed(View(o), o)
<1>1. RowNeed(o)' = Needed(rows'[o], o)
  BY DEF RowNeed, Needed, OpenPart, Took, ReserveOf
<1>2. Inserting(o)' => ViewNeed(o)' = ReserveOf(o, SizeOf(o))
  BY DEF ViewNeed, Inserting
<1>3. ~Inserting(o)' => ViewNeed(o)' = Needed(View(o)', o)
  BY DEF ViewNeed, Inserting, Needed, OpenPart, Took, ReserveOf
<1>4. Inserting(o) => ViewNeed(o) = ReserveOf(o, SizeOf(o))
  BY DEF ViewNeed, Inserting
<1>5. ~Inserting(o) => ViewNeed(o) = Needed(View(o), o)
  BY DEF ViewNeed, Inserting
<1> QED
  BY <1>1, <1>2, <1>3, <1>4, <1>5

LEMMA UnmovedNeeds ==
    ASSUME NEW o, Unmoved(o)
    PROVE  RowNeed(o)' = RowNeed(o) /\ ViewNeed(o)' = ViewNeed(o)
<1>1. RowNeed(o)' = RowNeed(o)
  BY NeedsAre DEF Unmoved, RowNeed
<1>2. CASE Inserting(o)
  BY <1>1, <1>2, NeedsAre DEF Unmoved
<1>3. CASE ~Inserting(o)
  BY <1>1, <1>3, NeedsAre DEF Unmoved
<1> QED
  BY <1>2, <1>3

LEMMA StillSums ==
    ASSUME TypeInv, TaskInv, TypeInv', TaskInv', NEW u, Covered(u), Still(u)
    PROVE  Covered(u)'
<1>1. \A o \in Orders : RowTerm(u)[o] = RowTerm(u)'[o] /\ ViewTerm(u)[o] = ViewTerm(u)'[o]
  <2> SUFFICES ASSUME NEW o \in Orders
               PROVE  RowTerm(u)[o] = RowTerm(u)'[o] /\ ViewTerm(u)[o] = ViewTerm(u)'[o]
    OBVIOUS
  <2>1. CASE UserOf(o) = u
    BY <2>1, UnmovedNeeds, TermsAre, TermsNext DEF Still
  <2>2. CASE UserOf(o) # u
    BY <2>2, TermsAre, TermsNext
  <2> QED
    BY <2>1, <2>2
<1>2. SumFunctionOnSet(RowTerm(u), Orders) = SumFunctionOnSet(RowTerm(u)', Orders)
  BY <1>1, TermsAre, Finite, SumSame
<1>3. SumFunctionOnSet(ViewTerm(u), Orders) = SumFunctionOnSet(ViewTerm(u)', Orders)
  BY <1>1, TermsAre, Finite, SumSame
<1> QED
  BY <1>2, <1>3 DEF Covered, Still

LEMMA SavedSums ==
    ASSUME TypeInv, TaskInv, TypeInv', TaskInv', NEW u, Covered(u), Saved(u)
    PROVE  Covered(u)'
<1>1. \A o \in Orders : ViewTerm(u)[o] = RowTerm(u)'[o] /\ ViewTerm(u)[o] = ViewTerm(u)'[o]
  <2> SUFFICES ASSUME NEW o \in Orders
               PROVE  ViewTerm(u)[o] = RowTerm(u)'[o] /\ ViewTerm(u)[o] = ViewTerm(u)'[o]
    OBVIOUS
  <2>1. CASE UserOf(o) = u
    <3>1. rows'[o] = View(o) /\ View(o)' = View(o) /\ ~Inserting(o) /\ ~Inserting(o)'
      BY <2>1 DEF Saved
    <3>2. ViewNeed(o) = RowNeed(o)' /\ ViewNeed(o) = ViewNeed(o)'
      BY <3>1, NeedsAre
    <3> QED
      BY <2>1, <3>2, TermsAre, TermsNext
  <2>2. CASE UserOf(o) # u
    BY <2>2, TermsAre, TermsNext
  <2> QED
    BY <2>1, <2>2
<1>2. SumFunctionOnSet(ViewTerm(u), Orders) = SumFunctionOnSet(RowTerm(u)', Orders)
  BY <1>1, TermsAre, Finite, SumSame
<1>3. SumFunctionOnSet(ViewTerm(u), Orders) = SumFunctionOnSet(ViewTerm(u)', Orders)
  BY <1>1, TermsAre, Finite, SumSame
<1> QED
  BY <1>2, <1>3 DEF Covered, Saved

LEMMA DroppedSums ==
    ASSUME TypeInv, TaskInv, TypeInv', TaskInv', NEW u, Covered(u), Dropped(u)
    PROVE  Covered(u)'
<1>1. \A o \in Orders : RowTerm(u)[o] = RowTerm(u)'[o] /\ RowTerm(u)[o] = ViewTerm(u)'[o]
  <2> SUFFICES ASSUME NEW o \in Orders
               PROVE  RowTerm(u)[o] = RowTerm(u)'[o] /\ RowTerm(u)[o] = ViewTerm(u)'[o]
    OBVIOUS
  <2>1. CASE UserOf(o) = u
    <3>1. rows'[o] = rows[o] /\ View(o)' = rows[o] /\ ~Inserting(o)'
      BY <2>1 DEF Dropped
    <3>2. RowNeed(o) = RowNeed(o)' /\ RowNeed(o) = ViewNeed(o)'
      BY <3>1, NeedsAre DEF RowNeed
    <3> QED
      BY <2>1, <3>2, TermsAre, TermsNext
  <2>2. CASE UserOf(o) # u
    BY <2>2, TermsAre, TermsNext
  <2> QED
    BY <2>1, <2>2
<1>2. SumFunctionOnSet(RowTerm(u), Orders) = SumFunctionOnSet(RowTerm(u)', Orders)
  BY <1>1, TermsAre, Finite, SumSame
<1>3. SumFunctionOnSet(RowTerm(u), Orders) = SumFunctionOnSet(ViewTerm(u)', Orders)
  BY <1>1, TermsAre, Finite, SumSame
<1> QED
  BY <1>2, <1>3 DEF Covered, Dropped

\* Only one of the user's orders moves.
LEMMA MovedSums ==
    ASSUME TypeInv, TaskInv, TypeInv', TaskInv', NEW u, NEW o \in Orders, UserOf(o) = u,
           \A x \in Orders \ {o} : UserOf(x) = u => Unmoved(x)
    PROVE  /\ SumFunctionOnSet(RowTerm(u)', Orders) =
                SumFunctionOnSet(RowTerm(u), Orders) - RowNeed(o) + RowNeed(o)'
           /\ SumFunctionOnSet(ViewTerm(u)', Orders) =
                SumFunctionOnSet(ViewTerm(u), Orders) - ViewNeed(o) + ViewNeed(o)'
<1>1. ASSUME NEW x \in Orders \ {o}
      PROVE  RowTerm(u)[x] = RowTerm(u)'[x] /\ ViewTerm(u)[x] = ViewTerm(u)'[x]
  <2>1. CASE UserOf(x) = u
    BY <2>1, UnmovedNeeds, TermsAre, TermsNext
  <2>2. CASE UserOf(x) # u
    BY <2>2, TermsAre, TermsNext
  <2> QED
    BY <2>1, <2>2
<1>2. /\ RowTerm(u)[o] = RowNeed(o) /\ ViewTerm(u)[o] = ViewNeed(o)
      /\ RowTerm(u)'[o] = RowNeed(o)' /\ ViewTerm(u)'[o] = ViewNeed(o)'
  BY TermsAre, TermsNext
<1>3. /\ Ints(RowTerm(u), Orders) /\ Ints(ViewTerm(u), Orders)
      /\ Ints(RowTerm(u)', Orders) /\ Ints(ViewTerm(u)', Orders)
  BY TermsAre, TermsNext
<1>4. SumFunctionOnSet(RowTerm(u)', Orders) =
        SumFunctionOnSet(RowTerm(u), Orders) - RowTerm(u)[o] + RowTerm(u)'[o]
  BY <1>1, <1>3, Finite, SumChange
<1>5. SumFunctionOnSet(ViewTerm(u)', Orders) =
        SumFunctionOnSet(ViewTerm(u), Orders) - ViewTerm(u)[o] + ViewTerm(u)'[o]
  BY <1>1, <1>3, Finite, SumChange
<1> QED
  BY <1>2, <1>4, <1>5

LEMMA SumsInt ==
    ASSUME TypeInv, TaskInv, NEW u
    PROVE  /\ SumFunctionOnSet(RowTerm(u), Orders) \in Int
           /\ SumFunctionOnSet(ViewTerm(u), Orders) \in Int
BY TermsAre, Finite, SumInt

LEMMA ReserveSums ==
    ASSUME TypeInv, BookInv, TaskInv, TypeInv', TaskInv', NEW p \in Placements, Reserve(p),
           NEW u \in Users, Covered(u)
    PROVE  Covered(u)'
<1>1. PICK o : o = task[p].cur
  OBVIOUS
<1>2. o \in Clients /\ o \in Orders /\ ReserveOf(o, SizeOf(o)) \in Nat /\ UserOf(o) \in Users
      /\ UserOf(o) \in Holders /\ wallet \in [Holders -> Ledger]
  BY <1>1, ReserveBuys, OrderKinds, ReserveFacts DEF Holders, TypeInv
<1>3. /\ committed' = committed /\ rows' = rows
      /\ wallet' = [wallet EXCEPT ![UserOf(o)] = Reserved(wallet[UserOf(o)], ReserveOf(o, SizeOf(o)))]
      /\ \A x \in Orders \ {o} : Unmoved(x)
  BY <1>1, ReserveMoves
<1>4. rows[o] = NoRow /\ View(o) = NoRow /\ View(o)' = NoRow /\ ~Inserting(o) /\ Inserting(o)'
  BY <1>1, ReserveMoves
<1>5. ASSUME u # UserOf(o) PROVE Covered(u)'
  <2>1. u \in Holders
    BY DEF Holders
  <2>2. Still(u)
    BY <1>2, <1>3, <1>5, <2>1 DEF Still
  <2> QED
    BY <2>2, StillSums
<1>6. ASSUME u = UserOf(o) PROVE Covered(u)'
  <2>1. /\ SumFunctionOnSet(RowTerm(u)', Orders) =
             SumFunctionOnSet(RowTerm(u), Orders) - RowNeed(o) + RowNeed(o)'
        /\ SumFunctionOnSet(ViewTerm(u)', Orders) =
             SumFunctionOnSet(ViewTerm(u), Orders) - ViewNeed(o) + ViewNeed(o)'
    BY <1>2, <1>3, <1>6, MovedSums
  <2>2. Needed(NoRow, o) = 0
    BY ReserveFacts DEF Needed, OpenPart, Took, NoRow, Open
  <2>3. ViewNeed(o) = 0 /\ ViewNeed(o)' = ReserveOf(o, SizeOf(o)) /\ RowNeed(o) = 0 /\ RowNeed(o)' = 0
    BY <1>3, <1>4, <2>2, NeedsAre DEF RowNeed
  <2>4. wallet'[u].locked = wallet[u].locked + ReserveOf(o, SizeOf(o))
    BY <1>2, <1>3, <1>6 DEF Reserved
  <2>5. /\ SumFunctionOnSet(RowTerm(u), Orders) \in Int
        /\ SumFunctionOnSet(ViewTerm(u), Orders) \in Int
    BY SumsInt
  <2>6. SumFunctionOnSet(ViewTerm(u)', Orders) = wallet'[u].locked
    BY <1>2, <2>1, <2>3, <2>4, <2>5 DEF Covered
  <2>7. SumFunctionOnSet(RowTerm(u)', Orders) = committed'[u].locked
    BY <1>3, <2>1, <2>3, <2>5 DEF Covered
  <2> QED
    BY <2>6, <2>7 DEF Covered
<1> QED
  BY <1>5, <1>6

\* The row that is inserted needs what was reserved.
LEMMA InsertSums ==
    ASSUME TypeInv, TaskInv, FillInv, TypeInv', TaskInv', NEW p \in Placements, Insert(p),
           NEW u \in Users, Covered(u)
    PROVE  Covered(u)'
<1>1. PICK o : o = task[p].cur
  OBVIOUS
<1>2. wallet' = wallet /\ committed' = committed /\ rows' = rows
      /\ \A x \in Orders \ {o} : Unmoved(x)
  BY <1>1, InsertMoves
<1>3. o \in Clients /\ Inserting(o) /\ ~Inserting(o)' /\ View(o)' = EngineRow(o)
  BY <1>1, InsertMoves
<1>4. o \in Orders
  BY <1>3, OrderKinds
<1>5. ASSUME u # UserOf(o) PROVE Covered(u)'
  <2>1. Still(u)
    BY <1>2, <1>5 DEF Still
  <2> QED
    BY <2>1, StillSums
<1>6. ASSUME u = UserOf(o) PROVE Covered(u)'
  <2>1. /\ SumFunctionOnSet(RowTerm(u)', Orders) =
             SumFunctionOnSet(RowTerm(u), Orders) - RowNeed(o) + RowNeed(o)'
        /\ SumFunctionOnSet(ViewTerm(u)', Orders) =
             SumFunctionOnSet(ViewTerm(u), Orders) - ViewNeed(o) + ViewNeed(o)'
    BY <1>2, <1>4, <1>6, MovedSums
  <2>2. Needed(EngineRow(o), o) = ReserveOf(o, SizeOf(o))
    <3>1. /\ fill[o] \in Nat /\ SizeOf(o) \in Nat /\ fill[o] <= SizeOf(o) /\ o \notin Quotes
      BY <1>3, FirstRow, OrderKinds
    <3>2. EngineRow(o).status = StatusOf(fill[o], SizeOf(o)) /\ EngineRow(o).filled = fill[o]
          /\ Took(EngineRow(o), o) = 0
      BY <3>1 DEF EngineRow, Took
    <3>3. /\ ReserveOf(o, fill[o]) \in Int /\ ReserveOf(o, SizeOf(o)) \in Int
          /\ ReserveOf(o, SizeOf(o) - fill[o]) = ReserveOf(o, SizeOf(o)) - ReserveOf(o, fill[o])
      BY <3>1, ReserveFacts
    <3>4. Needed(EngineRow(o), o) = OpenPart(EngineRow(o), o) + (ReserveOf(o, fill[o]) - 0)
      BY <3>2 DEF Needed
    <3>5. CASE fill[o] = SizeOf(o)
      <4>1. OpenPart(EngineRow(o), o) = 0
        BY <3>1, <3>2, <3>5 DEF OpenPart, StatusOf, Open
      <4> QED
        BY <3>3, <3>4, <3>5, <4>1
    <3>6. CASE fill[o] # SizeOf(o)
      <4>1. OpenPart(EngineRow(o), o) = ReserveOf(o, SizeOf(o) - fill[o])
        BY <3>1, <3>2, <3>6 DEF OpenPart, StatusOf, Open
      <4> QED
        BY <3>3, <3>4, <4>1
    <3> QED
      BY <3>5, <3>6
  <2>3. ViewNeed(o) = ReserveOf(o, SizeOf(o)) /\ ViewNeed(o)' = ReserveOf(o, SizeOf(o)) /\ RowNeed(o)' = RowNeed(o)
    BY <1>2, <1>3, <2>2, NeedsAre DEF RowNeed
  <2>4. RowNeed(o) \in Int /\ ViewNeed(o) \in Int
    BY <1>4, NeedsInt
  <2>5. /\ SumFunctionOnSet(RowTerm(u), Orders) \in Int
        /\ SumFunctionOnSet(ViewTerm(u), Orders) \in Int
    BY SumsInt
  <2>6. SumFunctionOnSet(ViewTerm(u)', Orders) = SumFunctionOnSet(ViewTerm(u), Orders)
    BY <2>1, <2>3, <2>4, <2>5
  <2>7. SumFunctionOnSet(RowTerm(u)', Orders) = SumFunctionOnSet(RowTerm(u), Orders)
    BY <2>1, <2>3, <2>4, <2>5
  <2> QED
    BY <1>2, <2>6, <2>7 DEF Covered
<1> QED
  BY <1>5, <1>6

LEMMA SettleSums ==
    ASSUME TypeInv, TaskInv, TypeInv', TaskInv', NEW p \in Placements, Settle(p),
           NEW u \in Users, Covered(u)
    PROVE  Covered(u)'
<1>1. PICK o, m, n, k : /\ o = task[p].cur /\ m = Head(task[p].trades).maker
                        /\ n = Head(task[p].trades).quantity
                        /\ k = CostOf(Head(task[p].trades))
  OBVIOUS
<1>2. /\ committed' = committed /\ rows' = rows
      /\ \A x \in Orders \ {o, m} : Unmoved(x)
      /\ o \in Clients /\ ~Inserting(o) /\ ~Inserting(o)'
      /\ View(o) = task[p].draft[o] /\ View(o) # NoRow
      /\ View(o)' = Bought(View(o), n, k) /\ k \in Nat
      /\ m \in Quotes /\ n \in Nat \ {0} /\ View(m) = Visible(p, m) /\ View(m) # NoRow
      /\ View(m)' = SettledRow(View(m), n, LevelSize)
  <2>1. /\ o \in Clients /\ Head(task[p].trades) \in TradeType
    BY <1>1, SettleTask
  <2>2. k \in Nat
    BY <1>1, <2>1, CostBound
  <2> QED
    BY <1>1, <2>2, SettleMoves
<1>3. LET c == UserOf(task[p].cur)
          h == Head(task[p].trades)
      IN  /\ wallet' \in [Holders -> Ledger]
          /\ \A v \in Holders \ {c, Desk} : wallet'[v] = wallet[v]
          /\ \A v \in Holders : wallet'[v].available = wallet[v].available
          /\ wallet'[c].locked = wallet[c].locked - CostOf(h)
          /\ wallet'[Desk].locked = wallet[Desk].locked - h.quantity
  BY SettleWallet
<1>4. /\ \A v \in Holders \ {UserOf(o), Desk} : wallet'[v] = wallet[v]
      /\ wallet'[UserOf(o)].locked = wallet[UserOf(o)].locked - k
  BY <1>1, <1>3
<1>5. o \in Orders /\ UserOf(m) = Desk /\ Desk \notin Users /\ u \in Holders
  BY <1>2, OrderKinds, NameAssumption DEF Holders
<1>6. ASSUME u # UserOf(o) PROVE Covered(u)'
  <2>1. wallet'[u] = wallet[u]
    BY <1>4, <1>5, <1>6
  <2>2. Still(u)
    BY <1>2, <1>5, <1>6, <2>1 DEF Still
  <2> QED
    BY <2>2, StillSums
<1>7. ASSUME u = UserOf(o) PROVE Covered(u)'
  <2>1. /\ SumFunctionOnSet(RowTerm(u)', Orders) =
             SumFunctionOnSet(RowTerm(u), Orders) - RowNeed(o) + RowNeed(o)'
        /\ SumFunctionOnSet(ViewTerm(u)', Orders) =
             SumFunctionOnSet(ViewTerm(u), Orders) - ViewNeed(o) + ViewNeed(o)'
    <3>1. \A x \in Orders \ {o} : UserOf(x) = u => Unmoved(x)
      BY <1>2, <1>5
    <3> QED
      BY <1>5, <1>7, <3>1, MovedSums
  <2>2. View(o) \in RowType /\ SizeOf(o) \in Nat /\ o \notin Quotes
    BY <1>2, <1>5, ViewIs, SizeNat, OrderKinds
  <2>3. Needed(View(o)', o) = Needed(View(o), o) - k
    <3>1. /\ View(o)'.status = View(o).status /\ View(o)'.filled = View(o).filled
          /\ View(o)'.paid = View(o).paid + k
      <4>1. PICK b, e : b = View(o) /\ e = View(o)'
        OBVIOUS
      <4>2. b \in RowType /\ n \in Nat /\ k \in Nat /\ e = Bought(b, n, k)
        BY <1>2, <2>2, <4>1
      <4>3. e.status = b.status /\ e.filled = b.filled /\ e.paid = b.paid + k
        BY <4>2, BoughtFields
      <4> QED
        BY <4>1, <4>3
    <3>2. View(o).paid \in Nat /\ View(o).filled \in Nat
      BY <2>2 DEF RowType
    <3>3. SizeOf(o) - View(o).filled \in Int
      BY <2>2, <3>2
    <3>4. ReserveOf(o, View(o).filled) \in Int /\ ReserveOf(o, SizeOf(o) - View(o).filled) \in Int
      BY <3>2, <3>3, ReserveFacts
    <3>5. OpenPart(View(o)', o) = OpenPart(View(o), o) /\ OpenPart(View(o), o) \in Int
      BY <3>1, <3>4 DEF OpenPart
    <3>6. Needed(View(o)', o) = OpenPart(View(o), o) + (ReserveOf(o, View(o).filled) - View(o)'.paid)
      BY <2>2, <3>1, <3>5 DEF Needed, Took
    <3>7. Needed(View(o), o) = OpenPart(View(o), o) + (ReserveOf(o, View(o).filled) - View(o).paid)
      BY <2>2 DEF Needed, Took
    <3> QED
      BY <1>2, <3>1, <3>2, <3>4, <3>5, <3>6, <3>7
  <2>4. ViewNeed(o)' = ViewNeed(o) - k /\ RowNeed(o)' = RowNeed(o)
    BY <1>2, <2>3, NeedsAre DEF RowNeed
  <2>5. RowNeed(o) \in Int /\ ViewNeed(o) \in Int
    BY <1>5, NeedsInt
  <2>6. /\ SumFunctionOnSet(RowTerm(u), Orders) \in Int
        /\ SumFunctionOnSet(ViewTerm(u), Orders) \in Int
    BY SumsInt
  <2>7. SumFunctionOnSet(ViewTerm(u)', Orders) = SumFunctionOnSet(ViewTerm(u), Orders) - k
    BY <1>2, <2>1, <2>4, <2>5, <2>6
  <2>8. SumFunctionOnSet(RowTerm(u)', Orders) = SumFunctionOnSet(RowTerm(u), Orders)
    BY <2>1, <2>4, <2>5, <2>6
  <2> QED
    BY <1>2, <1>4, <1>7, <2>7, <2>8 DEF Covered
<1> QED
  BY <1>6, <1>7

LEMMA CancelSums ==
    ASSUME TypeInv, TaskInv, FillInv, ClientReserve, WalletInv, TypeInv', TaskInv',
           NEW o \in Clients, CancelOrder(o), NEW u \in Users, Covered(u)
    PROVE  Covered(u)'
<1>1. PICK v, w, n : /\ v = UserOf(o) /\ n = ReserveOf(o, SizeOf(o) - rows[o].filled)
                     /\ w = Released(wallet[v], n)
  OBVIOUS
<1>2. /\ wallet' = [wallet EXCEPT ![v] = w] /\ committed' = [committed EXCEPT ![v] = w]
      /\ holder[v] = None /\ v \in Users /\ v \in Holders /\ v # Desk
      /\ rows[o].status \in Open /\ rows'[o] = [rows[o] EXCEPT !.status = "CANCELLED"]
      /\ View(o) = rows[o] /\ View(o)' = rows'[o] /\ ~Inserting(o) /\ ~Inserting(o)'
      /\ \A x \in Orders \ {o} : Unmoved(x)
      /\ \A x \in Holders \ {v} : Still(x)
  BY <1>1, CancelMoves
<1>3. o \in Orders /\ u \in Holders
  BY OrderKinds DEF Holders
<1>4. ASSUME u # v PROVE Covered(u)'
  BY <1>2, <1>3, <1>4, StillSums
<1>5. ASSUME u = v PROVE Covered(u)'
  <2>1. n \in Nat /\ w = [available |-> wallet[v].available + n, locked |-> wallet[v].locked - n]
    BY <1>1, <1>2, CancelReleases
  <2>2. /\ SumFunctionOnSet(RowTerm(u)', Orders) =
             SumFunctionOnSet(RowTerm(u), Orders) - RowNeed(o) + RowNeed(o)'
        /\ SumFunctionOnSet(ViewTerm(u)', Orders) =
             SumFunctionOnSet(ViewTerm(u), Orders) - ViewNeed(o) + ViewNeed(o)'
    BY <1>1, <1>2, <1>3, <1>5, MovedSums
  <2>3. rows[o] \in RowType /\ SizeOf(o) \in Nat
    BY <1>3, SizeNat DEF TypeInv
  <2>4. Needed(rows'[o], o) = Needed(rows[o], o) - n
    <3>1. /\ rows'[o].status = "CANCELLED" /\ rows'[o].filled = rows[o].filled
          /\ Took(rows'[o], o) = Took(rows[o], o)
      BY <1>2, <2>3 DEF RowType, Took
    <3>2. OpenPart(rows'[o], o) = 0 /\ OpenPart(rows[o], o) = n
      BY <1>1, <1>2, <3>1 DEF OpenPart, Open
    <3>3. rows[o].filled \in Nat /\ Took(rows[o], o) \in Nat
      BY <2>3 DEF RowType, Took
    <3>4. ReserveOf(o, rows[o].filled) \in Int
      BY <3>3, ReserveFacts
    <3>5. Needed(rows'[o], o) = 0 + (ReserveOf(o, rows[o].filled) - Took(rows[o], o))
      BY <3>1, <3>2 DEF Needed
    <3>6. Needed(rows[o], o) = n + (ReserveOf(o, rows[o].filled) - Took(rows[o], o))
      BY <3>2 DEF Needed
    <3> QED
      BY <2>1, <3>3, <3>4, <3>5, <3>6
  <2>5. RowNeed(o)' = RowNeed(o) - n /\ ViewNeed(o)' = ViewNeed(o) - n
    BY <1>2, <2>4, NeedsAre DEF RowNeed
  <2>6. RowNeed(o) \in Int /\ ViewNeed(o) \in Int
    BY <1>3, NeedsInt
  <2>7. /\ SumFunctionOnSet(RowTerm(u), Orders) \in Int
        /\ SumFunctionOnSet(ViewTerm(u), Orders) \in Int
    BY SumsInt
  <2>8. /\ SumFunctionOnSet(RowTerm(u)', Orders) = SumFunctionOnSet(RowTerm(u), Orders) - n
        /\ SumFunctionOnSet(ViewTerm(u)', Orders) = SumFunctionOnSet(ViewTerm(u), Orders) - n
    BY <2>1, <2>2, <2>5, <2>6, <2>7
  <2>9. wallet[u] = committed[u]
    BY <1>2, <1>5 DEF WalletInv
  <2>10. wallet'[u].locked = wallet[u].locked - n /\ committed'[u].locked = wallet[u].locked - n
    BY <1>2, <1>5, <2>1 DEF TypeInv
  <2> QED
    BY <2>8, <2>9, <2>10 DEF Covered
<1> QED
  BY <1>4, <1>5

LEMMA ClientNext ==
    ASSUME TypeInv, BookInv, TaskInv, UsedInv, FillInv, ClientReserve, WalletInv, TypeInv', TaskInv',
           Next
    PROVE  ClientReserve'
<1>1. \A u \in Users : Covered(u)
  BY ReserveIs DEF Covered
<1>2. ASSUME NEW u \in Users PROVE Covered(u)'
  <2> DEFINE Goal == Covered(u)'
  <2>0. Covered(u) /\ u \in Holders /\ u # Desk
    BY <1>1, NameAssumption DEF Holders
  <2>1. ASSUME Still(u) \/ Saved(u) \/ Dropped(u) PROVE Goal
    BY <2>0, <2>1, StillSums, SavedSums, DroppedSums
  <2>2. ASSUME QuietStep PROVE Goal
    BY <2>0, <2>1, <2>2, QuietMoves
  <2>3. ASSUME NEW d \in DeskTasks, TopUp(d) PROVE Goal
    <3>1. /\ committed' = committed
          /\ wallet' = [wallet EXCEPT ![Desk] = RaisedBalance(wallet[Desk])]
          /\ \A o \in Orders : Unmoved(o)
      BY <2>3, TopUpMoves
    <3>2. Still(u)
      BY <2>0, <3>1 DEF Still, TypeInv
    <3> QED
      BY <2>1, <3>2
  <2>4. ASSUME NEW d \in DeskTasks, NEW q \in Quotes, NEW n \in Nat, q[1] \in Levels,
               Place(d, q[1], q, n)
        PROVE  Goal
    <3>1. /\ committed' = committed
          /\ wallet' = [wallet EXCEPT ![Desk] = Reserved(wallet[Desk], LevelSize)]
          /\ \A o \in Orders \ {q} : Unmoved(o)
      BY <2>4, PlaceMoves
    <3>2. Still(u)
      BY <2>0, <3>1, OrderKinds DEF Still, TypeInv
    <3> QED
      BY <2>1, <3>2
  <2>5. ASSUME NEW p \in Placements, Insert(p) \/ Settle(p) \/ Reserve(p) PROVE Goal
    BY <2>0, <2>5, InsertSums, SettleSums, ReserveSums
  <2>6. ASSUME NEW t \in Tasks, Abort(t) PROVE Goal
    BY <2>0, <2>1, <2>6, AbortMoves
  <2>7. ASSUME NEW t \in Tasks, Finish(t) PROVE Goal
    BY <2>0, <2>1, <2>7, FinishMoves
  <2>8. ASSUME NEW o \in Clients, CancelOrder(o) PROVE Goal
    BY <2>0, <2>8, CancelSums
  <2>9. ASSUME Restart PROVE Goal
    BY <2>0, <2>1, <2>9, RestartMoves
  <2> HIDE DEF Goal
  <2>10. Goal
    BY <2>2, <2>3, <2>4, <2>5, <2>6, <2>7, <2>8, <2>9, WalletMoves
  <2> QED
    BY <2>10 DEF Goal
<1>3. \A u : DOMAIN RowTerm(u)' = Orders /\ DOMAIN ViewTerm(u)' = Orders
  BY DEF RowTerm, ViewTerm
<1>4. \A u : /\ SumFunction(RowTerm(u)') = SumFunctionOnSet(RowTerm(u)', Orders)
             /\ SumFunction(ViewTerm(u)') = SumFunctionOnSet(ViewTerm(u)', Orders)
  BY <1>3, SumWhole
<1> QED
  BY <1>2, <1>4 DEF Covered, ClientReserve, RowTerm, ViewTerm

-----------------------------------------------------------------------------
(* The desk's reserve.  Of orders with no lost fills all that is filled is *)
(* settled.                                                                *)

DeskCovered == lost \cap Quotes = {} => Covered(Desk)

LEMMA DeskIs ==
    TypeInv /\ TaskInv /\ UsedInv /\ QuoteInv => (DeskReserve <=> DeskCovered)
<1> SUFFICES ASSUME TypeInv, TaskInv, UsedInv, QuoteInv, lost \cap Quotes = {}
             PROVE  (/\ committed[Desk].locked =
                          SumFunction([o \in Orders |-> IF UserOf(o) = Desk THEN OpenPart(rows[o], o) ELSE 0])
                     /\ wallet[Desk].locked =
                          SumFunction([o \in Orders |-> IF UserOf(o) = Desk THEN OpenPart(View(o), o) ELSE 0]))
                    <=> Covered(Desk)
  BY DEF DeskReserve, DeskCovered
<1>1. \A o \in Orders : UserOf(o) = Desk => o \in Quotes
  BY OrderKinds, NameAssumption DEF Orders
<1>2. \A o : Needed(NoRow, o) = 0 /\ OpenPart(NoRow, o) = 0
  BY ReserveFacts DEF OpenPart, Needed, Took, NoRow, Open
<1>3. ASSUME NEW o \in Quotes, NEW row \in RowType, row = NoRow \/ QuoteRow(row)
      PROVE  Needed(row, o) = OpenPart(row, o)
  <2>1. CASE row = NoRow
    BY <1>2, <2>1
  <2>2. CASE QuoteRow(row)
    <3>1. row.filled \in Nat /\ row.settled = row.filled /\ SizeOf(o) \in Nat
      BY <2>2, OrderKinds, DeskAssumption DEF QuoteRow, RowType
    <3>2. ReserveOf(o, row.filled) - Took(row, o) = 0
      BY <3>1, ReserveFacts DEF Took
    <3>3. OpenPart(row, o) \in Int
      BY <3>1, ReserveFacts DEF OpenPart
    <3> QED
      BY <3>2, <3>3 DEF Needed
  <2> QED
    BY <1>3, <2>1, <2>2
<1>4. ASSUME NEW o \in Orders, UserOf(o) = Desk
      PROVE  RowNeed(o) = OpenPart(rows[o], o) /\ ViewNeed(o) = OpenPart(View(o), o)
  <2>1. o \in Quotes /\ o \notin lost /\ o \notin Clients
    BY <1>1, <1>4, OrderKinds
  <2>2. rows[o] \in RowType /\ View(o) \in RowType
    BY ViewIs DEF TypeInv
  <2>3. rows[o] = NoRow \/ QuoteRow(rows[o])
    BY <2>1 DEF QuoteInv
  <2>4. View(o) = NoRow \/ QuoteRow(View(o))
    <3>1. CASE o \in used
      BY <2>1, <3>1 DEF QuoteInv
    <3>2. CASE o \notin used
      BY <2>1, <3>2, ViewIs DEF UsedInv, Unused
    <3> QED
      BY <3>1, <3>2
  <2>5. ~Inserting(o)
    BY <2>1, WhoInserts
  <2> QED
    BY <1>3, <2>1, <2>2, <2>3, <2>4, <2>5, NeedsAre DEF RowNeed
<1>5. /\ [o \in Orders |-> IF UserOf(o) = Desk THEN OpenPart(rows[o], o) ELSE 0] = RowTerm(Desk)
      /\ [o \in Orders |-> IF UserOf(o) = Desk THEN OpenPart(View(o), o) ELSE 0] = ViewTerm(Desk)
  BY <1>4 DEF RowTerm, ViewTerm
<1>6. DOMAIN RowTerm(Desk) = Orders /\ DOMAIN ViewTerm(Desk) = Orders
  BY DEF RowTerm, ViewTerm
<1>7. /\ SumFunction(RowTerm(Desk)) = SumFunctionOnSet(RowTerm(Desk), Orders)
      /\ SumFunction(ViewTerm(Desk)) = SumFunctionOnSet(ViewTerm(Desk), Orders)
  BY <1>6, SumWhole
<1> QED
  BY <1>5, <1>7 DEF Covered

LEMMA DeskIsNext ==
    TypeInv' /\ TaskInv' /\ UsedInv' /\ QuoteInv' => (DeskReserve' <=> DeskCovered')
BY DeskIs, PTL

LEMMA QuoteNeeds ==
    ASSUME NEW q \in Quotes, NEW row \in RowType, QuoteRow(row)
    PROVE  Needed(row, q) = LevelSize - row.filled
<1>1. row.filled \in Nat /\ row.filled <= LevelSize /\ row.settled = row.filled
      /\ row.status = StatusOf(row.filled, LevelSize) /\ LevelSize \in Nat \ {0} /\ SizeOf(q) = LevelSize
  BY OrderKinds, DeskAssumption DEF QuoteRow, RowType
<1>2. /\ Took(row, q) = row.filled /\ ReserveOf(q, row.filled) = row.filled
      /\ ReserveOf(q, SizeOf(q) - row.filled) = LevelSize - row.filled
  BY <1>1, ReserveFacts DEF Took
<1>3. CASE row.filled = LevelSize
  BY <1>1, <1>2, <1>3 DEF Needed, OpenPart, StatusOf, Open
<1>4. CASE row.filled < LevelSize
  BY <1>1, <1>2, <1>4 DEF Needed, OpenPart, StatusOf, Open
<1> QED
  BY <1>1, <1>3, <1>4

LEMMA PlaceSums ==
    ASSUME TypeInv, TaskInv, UsedInv, TypeInv', TaskInv', NEW d \in DeskTasks, NEW q \in Quotes,
           NEW n \in Nat, q[1] \in Levels, Place(d, q[1], q, n), Covered(Desk)
    PROVE  Covered(Desk)'
<1>1. /\ committed' = committed /\ rows' = rows
      /\ wallet' = [wallet EXCEPT ![Desk] = Reserved(wallet[Desk], LevelSize)]
      /\ \A o \in Orders \ {q} : Unmoved(o)
      /\ View(q) = NoRow /\ View(q)' = NewRow /\ q \notin used /\ d \in Tasks
  BY PlaceMoves
<1>2. q \in Orders /\ q \notin Clients /\ UserOf(q) = Desk /\ SizeOf(q) = LevelSize
      /\ Desk \in Holders /\ LevelSize \in Nat
  BY OrderKinds, DeskAssumption DEF Holders
<1>3. ~Inserting(q) /\ ~Inserting(q)'
  <2>1. ~Inserting(q)
    BY <1>2, WhoInserts
  <2>2. ~Inserting(q)'
    <3> SUFFICES ASSUME Inserting(q)' PROVE FALSE
      OBVIOUS
    <3>1. PICK t \in Placements : task'[t].stage = "insert" /\ task'[t].cur = q
      BY DEF Inserting
    <3>2. Running(t)'
      BY <3>1 DEF Running
    <3>3. q \in Own(t)'
      BY <3>1, <3>2 DEF TaskInv, PlacementShape
    <3>4. Own(t)' \subseteq All(t)
      BY DEF Own, All, CopiedTo
    <3> QED
      BY <1>2, <3>3, <3>4, AllClients
  <2> QED
    BY <2>1, <2>2
<1>4. /\ SumFunctionOnSet(RowTerm(Desk)', Orders) =
           SumFunctionOnSet(RowTerm(Desk), Orders) - RowNeed(q) + RowNeed(q)'
      /\ SumFunctionOnSet(ViewTerm(Desk)', Orders) =
           SumFunctionOnSet(ViewTerm(Desk), Orders) - ViewNeed(q) + ViewNeed(q)'
  BY <1>1, <1>2, MovedSums
<1>5. Needed(NoRow, q) = 0 /\ Needed(NewRow, q) = LevelSize
  <2>1. \A k : ReserveOf(q, k) = k
    BY ReserveFacts
  <2> QED
    BY <1>2, <2>1 DEF Needed, OpenPart, Took, NoRow, NewRow, Open
<1>6. ViewNeed(q) = 0 /\ ViewNeed(q)' = LevelSize /\ RowNeed(q)' = RowNeed(q)
  BY <1>1, <1>3, <1>5, NeedsAre DEF RowNeed
<1>7. RowNeed(q) \in Int /\ ViewNeed(q) \in Int
  BY <1>2, NeedsInt
<1>8. /\ SumFunctionOnSet(RowTerm(Desk), Orders) \in Int
      /\ SumFunctionOnSet(ViewTerm(Desk), Orders) \in Int
  BY SumsInt
<1>9. /\ SumFunctionOnSet(RowTerm(Desk)', Orders) = SumFunctionOnSet(RowTerm(Desk), Orders)
      /\ SumFunctionOnSet(ViewTerm(Desk)', Orders) = SumFunctionOnSet(ViewTerm(Desk), Orders) + LevelSize
  BY <1>2, <1>4, <1>6, <1>7, <1>8
<1>10. wallet'[Desk].locked = wallet[Desk].locked + LevelSize
  BY <1>1, <1>2 DEF Reserved, TypeInv
<1> QED
  BY <1>1, <1>9, <1>10 DEF Covered

LEMMA DeskSettleSums ==
    ASSUME TypeInv, TaskInv, UsedInv, QuoteInv, lost \cap Quotes = {}, TypeInv', TaskInv', QuoteInv',
           NEW p \in Placements, Settle(p), Covered(Desk)
    PROVE  Covered(Desk)'
<1>1. PICK o, m, n : /\ o = task[p].cur /\ m = Head(task[p].trades).maker
                     /\ n = Head(task[p].trades).quantity
  OBVIOUS
<1>2. /\ committed' = committed /\ rows' = rows
      /\ \A x \in Orders \ {o, m} : Unmoved(x)
      /\ o \in Clients /\ m \in Quotes /\ n \in Nat \ {0} /\ View(m) # NoRow
      /\ View(m)' = SettledRow(View(m), n, LevelSize)
  BY <1>1, SettleMoves
<1>3. wallet'[Desk].locked = wallet[Desk].locked - n
  <2>1. LET c == UserOf(task[p].cur)
            k == Head(task[p].trades)
        IN  /\ wallet' \in [Holders -> Ledger]
            /\ \A v \in Holders \ {c, Desk} : wallet'[v] = wallet[v]
            /\ \A v \in Holders : wallet'[v].available = wallet[v].available
            /\ wallet'[c].locked = wallet[c].locked - CostOf(k)
            /\ wallet'[Desk].locked = wallet[Desk].locked - k.quantity
    BY SettleWallet
  <2> QED
    BY <1>1, <2>1
<1>4. m \in Orders /\ m \notin Clients /\ UserOf(m) = Desk /\ UserOf(o) # Desk /\ SizeOf(m) = LevelSize
      /\ LevelSize \in Nat \ {0} /\ m \notin lost
  BY <1>2, OrderKinds, NameAssumption, DeskAssumption
<1>5. ~Inserting(m) /\ ~Inserting(m)'
  <2>1. ~Inserting(m)
    BY <1>4, WhoInserts
  <2>2. ~Inserting(m)'
    <3> SUFFICES ASSUME Inserting(m)' PROVE FALSE
      OBVIOUS
    <3>1. PICK t \in Placements : task'[t].stage = "insert" /\ task'[t].cur = m
      BY DEF Inserting
    <3>2. Running(t)'
      BY <3>1 DEF Running
    <3>3. m \in Own(t)'
      BY <3>1, <3>2 DEF TaskInv, PlacementShape
    <3>4. Own(t)' \subseteq All(t)
      BY DEF Own, All, CopiedTo
    <3> QED
      BY <1>4, <3>3, <3>4, AllClients
  <2> QED
    BY <2>1, <2>2
<1>6. /\ SumFunctionOnSet(RowTerm(Desk)', Orders) =
           SumFunctionOnSet(RowTerm(Desk), Orders) - RowNeed(m) + RowNeed(m)'
      /\ SumFunctionOnSet(ViewTerm(Desk)', Orders) =
           SumFunctionOnSet(ViewTerm(Desk), Orders) - ViewNeed(m) + ViewNeed(m)'
  <2>1. \A x \in Orders \ {m} : UserOf(x) = Desk => Unmoved(x)
    BY <1>2, <1>4
  <2> QED
    BY <1>4, <2>1, MovedSums
<1>7. m \in used
  BY <1>2, <1>4, ViewIs DEF UsedInv, Unused
<1>8. QuoteRow(View(m)) /\ View(m) \in RowType
  BY <1>2, <1>4, <1>7, ViewIs DEF QuoteInv
<1>9. QuoteRow(View(m)')
  <2>1. m \in used' \ lost'
    BY <1>4, <1>7 DEF Settle
  <2> QED
    BY <1>2, <2>1 DEF QuoteInv, QuoteRow
<1> DEFINE row == View(m)
           new == SettledRow(row, n, LevelSize)
<1>10. new \in RowType /\ new.filled = row.filled + n
  BY <1>2, <1>4, <1>8, SettledFields
<1>11. View(m)' = new /\ QuoteRow(new)
  BY <1>2, <1>9
<1>12. Needed(row, m) = LevelSize - row.filled
  BY <1>2, <1>4, <1>8, QuoteNeeds
<1>13. Needed(new, m) = LevelSize - new.filled
  BY <1>2, <1>4, <1>10, <1>11, QuoteNeeds
<1>14. ViewNeed(m) = Needed(row, m) /\ ViewNeed(m)' = Needed(new, m) /\ RowNeed(m)' = RowNeed(m)
  BY <1>2, <1>5, <1>11, NeedsAre DEF RowNeed
<1>15. row.filled \in Nat
  BY <1>8 DEF RowType
<1> HIDE DEF row, new
<1>16. ViewNeed(m)' = ViewNeed(m) - n
  BY <1>2, <1>4, <1>10, <1>12, <1>13, <1>14, <1>15
<1>17. RowNeed(m) \in Int /\ ViewNeed(m) \in Int
  BY <1>4, NeedsInt
<1>18. /\ SumFunctionOnSet(RowTerm(Desk), Orders) \in Int
       /\ SumFunctionOnSet(ViewTerm(Desk), Orders) \in Int
  BY SumsInt
<1>19. /\ SumFunctionOnSet(RowTerm(Desk)', Orders) = SumFunctionOnSet(RowTerm(Desk), Orders)
       /\ SumFunctionOnSet(ViewTerm(Desk)', Orders) = SumFunctionOnSet(ViewTerm(Desk), Orders) - n
  BY <1>2, <1>6, <1>14, <1>16, <1>17, <1>18
<1> QED
  BY <1>2, <1>3, <1>19 DEF Covered

LEMMA DeskReserveNext ==
    ASSUME TypeInv, BookInv, TaskInv, UsedInv, QuoteInv, DeskReserve,
           TypeInv', TaskInv', UsedInv', QuoteInv', Next
    PROVE  DeskReserve'
<1>1. DeskCovered
  BY DeskIs
<1>2. DeskCovered'
  <2> SUFFICES ASSUME lost' \cap Quotes = {} PROVE Covered(Desk)'
    BY DEF DeskCovered
  <2> DEFINE Goal == Covered(Desk)'
  <2>0. lost \cap Quotes = {} /\ Covered(Desk) /\ Desk \in Holders /\ Desk \notin Users
    BY <1>1, LostNext, NameAssumption DEF Holders, DeskCovered
  <2>1. ASSUME Still(Desk) \/ Saved(Desk) \/ Dropped(Desk) PROVE Goal
    BY <2>0, <2>1, StillSums, SavedSums, DroppedSums
  <2>2. ASSUME QuietStep PROVE Goal
    BY <2>0, <2>1, <2>2, QuietMoves
  <2>3. ASSUME NEW d \in DeskTasks, TopUp(d) PROVE Goal
    <3>1. /\ committed' = committed
          /\ wallet' = [wallet EXCEPT ![Desk] = RaisedBalance(wallet[Desk])]
          /\ \A o \in Orders : Unmoved(o)
      BY <2>3, TopUpMoves
    <3>2. wallet'[Desk].locked = wallet[Desk].locked
      BY <2>0, <3>1 DEF RaisedBalance, TypeInv, Ledger
    <3>3. \A o \in Orders : RowTerm(Desk)[o] = RowTerm(Desk)'[o] /\ ViewTerm(Desk)[o] = ViewTerm(Desk)'[o]
      BY <3>1, UnmovedNeeds, TermsAre, TermsNext
    <3>4. SumFunctionOnSet(RowTerm(Desk), Orders) = SumFunctionOnSet(RowTerm(Desk)', Orders)
      BY <3>3, TermsAre, Finite, SumSame
    <3>5. SumFunctionOnSet(ViewTerm(Desk), Orders) = SumFunctionOnSet(ViewTerm(Desk)', Orders)
      BY <3>3, TermsAre, Finite, SumSame
    <3> QED
      BY <2>0, <3>1, <3>2, <3>4, <3>5 DEF Covered
  <2>4. ASSUME NEW d \in DeskTasks, NEW q \in Quotes, NEW n \in Nat, q[1] \in Levels,
               Place(d, q[1], q, n)
        PROVE  Goal
    BY <2>0, <2>4, PlaceSums
  <2>5. ASSUME NEW p \in Placements, Insert(p) PROVE Goal
    <3>1. PICK o : o = task[p].cur
      OBVIOUS
    <3>2. wallet' = wallet /\ committed' = committed /\ o \in Clients
          /\ \A x \in Orders \ {o} : Unmoved(x)
      BY <2>5, <3>1, InsertMoves
    <3>3. Still(Desk)
      BY <2>0, <3>2, OrderKinds DEF Still
    <3> QED
      BY <2>1, <3>3
  <2>6. ASSUME NEW p \in Placements, Settle(p) PROVE Goal
    BY <2>0, <2>6, DeskSettleSums
  <2>7. ASSUME NEW p \in Placements, Reserve(p) PROVE Goal
    <3>1. PICK o : o = task[p].cur
      OBVIOUS
    <3>2. /\ committed' = committed
          /\ wallet' = [wallet EXCEPT ![UserOf(o)] = Reserved(wallet[UserOf(o)], ReserveOf(o, SizeOf(o)))]
          /\ \A x \in Orders \ {o} : Unmoved(x)
      BY <2>7, <3>1, ReserveMoves
    <3>3. UserOf(o) # Desk /\ o \in Clients
      BY <2>0, <2>7, <3>1, ReserveBuys, OrderKinds
    <3>4. Still(Desk)
      BY <2>0, <3>2, <3>3 DEF Still, TypeInv
    <3> QED
      BY <2>1, <3>4
  <2>8. ASSUME NEW t \in Tasks, Abort(t) PROVE Goal
    BY <2>0, <2>1, <2>8, AbortMoves
  <2>9. ASSUME NEW t \in Tasks, Finish(t) PROVE Goal
    BY <2>0, <2>1, <2>9, FinishMoves
  <2>10. ASSUME NEW o \in Clients, CancelOrder(o) PROVE Goal
    <3>1. PICK v, w : v = UserOf(o) /\ w = Released(wallet[v], ReserveOf(o, SizeOf(o) - rows[o].filled))
      OBVIOUS
    <3>2. v # Desk /\ \A x \in Holders \ {v} : Still(x)
      BY <2>10, <3>1, CancelMoves
    <3> QED
      BY <2>0, <2>1, <3>2
  <2>11. ASSUME Restart PROVE Goal
    BY <2>0, <2>1, <2>11, RestartMoves
  <2> HIDE DEF Goal
  <2>12. Goal
    BY <2>2, <2>3, <2>4, <2>5, <2>6, <2>7, <2>8, <2>9, <2>10, <2>11, WalletMoves
  <2> QED
    BY <2>12 DEF Goal
<1>3. DeskReserve' <=> DeskCovered'
  BY DeskIsNext
<1> QED
  BY <1>2, <1>3

-----------------------------------------------------------------------------
(* The first state, and steps that change nothing.                         *)

LEMMA FirstRest ==
    ASSUME Init, Order
    PROVE  FillInv /\ QuoteInv /\ ClientReserve /\ DeskReserve /\ WalletInv
<1>1. /\ \A o \in Orders : rows[o] = NoRow /\ left[o] = 0
      /\ \A o \in Clients : fill[o] = 0
      /\ \A u \in Holders : holder[u] = None
      /\ \A t \in Tasks : task[t].stage = "ready" /\ \A o \in Orders : task[t].draft[o] = NoRow
      /\ used = {} /\ wallet = committed
      /\ \A u \in Holders : committed[u] = [available |-> IF u = Desk THEN 0 ELSE Funds[u], locked |-> 0]
  <2>1. task = [t \in Tasks |-> Fresh]
    BY DEF Init
  <2>2. \A t \in Tasks : task[t].stage = "ready" /\ \A o \in Orders : task[t].draft[o] = NoRow
    BY <2>1 DEF Fresh
  <2>3. /\ \A o \in Orders : rows[o] = NoRow /\ left[o] = 0
        /\ \A o \in Clients : fill[o] = 0
        /\ \A u \in Holders : holder[u] = None
    BY DEF Init
  <2>4. used = {} /\ wallet = committed
        /\ \A u \in Holders : committed[u] = [available |-> IF u = Desk THEN 0 ELSE Funds[u], locked |-> 0]
    BY DEF Init
  <2> QED
    BY <2>2, <2>3, <2>4
<1>2. NoRow.status = "NONE" /\ NoRow.filled = 0 /\ NoRow.settled = 0 /\ NoRow.paid = 0
  BY DEF NoRow
<1>3. FillInv
  <2>1. ASSUME NEW o \in Clients
        PROVE  /\ left[o] + fill[o] <= SizeOf(o)
               /\ ClientRow(rows[o], o)
               /\ rows[o].filled = rows[o].settled
    <3>1. o \in Orders /\ SizeOf(o) \in Nat
      BY OrderKinds, SizeNat
    <3> QED
      BY <1>1, <1>2, <3>1, ReserveFacts DEF ClientRow
  <2>2. \A t \in Placements : t \in Tasks /\ \A o \in Clients : o \in Orders
    BY OrderKinds DEF Tasks
  <2> QED
    BY <1>1, <2>1, <2>2 DEF FillInv
<1>4. QuoteInv
  BY <1>1, OrderKinds DEF QuoteInv
<1>5. \A o \in Orders : UserOf(o) \in Holders
  BY OrderKinds DEF Orders, Holders
<1>6. \A o : Needed(NoRow, o) = 0 /\ OpenPart(NoRow, o) = 0
  BY <1>2, ReserveFacts DEF Needed, OpenPart, Took, Open
<1>7. \A o \in Orders : /\ RowNeed(o) = 0 /\ ViewNeed(o) = 0
                        /\ OpenPart(rows[o], o) = 0 /\ OpenPart(View(o), o) = 0
  <2>1. \A o \in Orders : View(o) = NoRow
    BY <1>1, <1>5 DEF View
  <2>2. \A t \in Placements : t \in Tasks
    BY DEF Tasks
  <2> QED
    BY <1>1, <1>6, <2>1, <2>2 DEF RowNeed, ViewNeed
<1>8. \A f : DOMAIN f = Orders /\ (\A o \in Orders : f[o] = 0) => SumFunction(f) = 0
  BY Finite, SumWhole, SumZero
<1>9. \A u \in Holders : committed[u].locked = 0 /\ wallet[u].locked = 0
                         /\ committed[u].available >= 0
  <2> SUFFICES ASSUME NEW u \in Holders
               PROVE  /\ committed[u].locked = 0 /\ wallet[u].locked = 0
                      /\ committed[u].available >= 0
    OBVIOUS
  <2>1. PICK n : n = IF u = Desk THEN 0 ELSE Funds[u]
    OBVIOUS
  <2>2. n \in Nat
    BY <2>1, ClientAssumption DEF Holders
  <2>3. committed[u] = [available |-> n, locked |-> 0]
    BY <1>1, <2>1
  <2>4. wallet[u] = committed[u]
    BY <1>1
  <2> QED
    BY <2>2, <2>3, <2>4
<1>10. ClientReserve
  <2> SUFFICES ASSUME NEW u \in Users
               PROVE  /\ SumFunction([o \in Orders |-> IF UserOf(o) = u THEN RowNeed(o) ELSE 0]) = 0
                      /\ SumFunction([o \in Orders |-> IF UserOf(o) = u THEN ViewNeed(o) ELSE 0]) = 0
    <3>1. \A u \in Users : committed[u].locked = 0 /\ wallet[u].locked = 0
      BY <1>9 DEF Holders
    <3> QED
      BY <3>1 DEF ClientReserve
  <2> DEFINE f == [o \in Orders |-> IF UserOf(o) = u THEN RowNeed(o) ELSE 0]
             g == [o \in Orders |-> IF UserOf(o) = u THEN ViewNeed(o) ELSE 0]
  <2>1. DOMAIN f = Orders /\ \A o \in Orders : f[o] = 0
    BY <1>7
  <2>2. DOMAIN g = Orders /\ \A o \in Orders : g[o] = 0
    BY <1>7
  <2> HIDE DEF f, g
  <2>3. SumFunction(f) = 0 /\ SumFunction(g) = 0
    BY <1>8, <2>1, <2>2
  <2> QED
    BY <2>3 DEF f, g
<1>11. DeskReserve
  <2> DEFINE f == [o \in Orders |-> IF UserOf(o) = Desk THEN OpenPart(rows[o], o) ELSE 0]
             g == [o \in Orders |-> IF UserOf(o) = Desk THEN OpenPart(View(o), o) ELSE 0]
  <2>1. DOMAIN f = Orders /\ \A o \in Orders : f[o] = 0
    BY <1>7
  <2>2. DOMAIN g = Orders /\ \A o \in Orders : g[o] = 0
    BY <1>7
  <2> HIDE DEF f, g
  <2>3. SumFunction(f) = 0 /\ SumFunction(g) = 0
    BY <1>8, <2>1, <2>2
  <2>4. committed[Desk].locked = 0 /\ wallet[Desk].locked = 0
    BY <1>9 DEF Holders
  <2>5. committed[Desk].locked = SumFunction(f) /\ wallet[Desk].locked = SumFunction(g)
    BY <2>3, <2>4
  <2> QED
    BY <2>5 DEF f, g, DeskReserve
<1>12. WalletInv
  <2>0. Desk \in Holders
    BY DEF Holders
  <2>3. committed[Desk] = [available |-> 0, locked |-> 0]
    BY <1>1, <2>0
  <2>1. Desk \in Holders /\ committed[Desk].available = 0 /\ committed[Desk].locked = 0
    BY <2>0, <2>3
  <2>2. wallet = committed
    BY <1>1
  <2> QED
    BY <1>9, <2>1, <2>2, DeskAssumption DEF WalletInv
<1> QED
  BY <1>3, <1>4, <1>10, <1>11, <1>12

LEMMA Stutter ==
    ASSUME HouseInv, UNCHANGED vars
    PROVE  HouseInv'
<1>1. /\ book' = book /\ left' = left /\ fill' = fill /\ rows' = rows /\ wallet' = wallet
      /\ committed' = committed /\ opened' = opened /\ holder' = holder /\ task' = task
      /\ used' = used /\ relation' = relation /\ asking' = asking /\ lost' = lost
      /\ crowded' = crowded /\ raced' = raced
  BY DEF vars, memoryVars, dbVars, walletVars, followVars
<1>2. TypeInv' /\ BookInv'
  BY <1>1 DEF HouseInv, TypeInv, BookInv, Once, On
<1>3. /\ \A t \in Tasks : Running(t)' = Running(t) /\ Idle(t)' = Idle(t) /\ Written(t)' = Written(t)
      /\ \A p \in Placements : Own(p)' = Own(p) /\ ToMake(p)' = ToMake(p) /\ CopiedTo(p)' = CopiedTo(p)
      /\ \A o \in Orders : View(o)' = View(o)
  BY <1>1 DEF Running, Idle, Written, Own, ToMake, CopiedTo, All, View, Visible
<1>4. TaskInv'
  <2>1. \A p \in Placements : PlacementShape(p)' = PlacementShape(p)
    BY <1>1 DEF PlacementShape, Running, Own, ToMake, CopiedTo, All
  <2>2. \A d \in DeskTasks : DeskShape(d)' = DeskShape(d)
    BY <1>1 DEF DeskShape
  <2> QED
    BY <1>1, <1>3, <2>1, <2>2 DEF HouseInv, TaskInv
<1>5. UsedInv' /\ FollowInv'
  BY <1>1 DEF HouseInv, UsedInv, Unused, FollowInv, Makers
<1>6. LimitInv'
  <2>1. \A u \in Users : Promised(u)' = Promised(u)
    BY <1>1 DEF Promised, Coming
  <2> QED
    BY <2>1 DEF HouseInv, LimitInv
<1>7. FillInv'
  <2>1. \A t, o : ToSettle(t, o)' = ToSettle(t, o)
    BY <1>1 DEF ToSettle
  <2> QED
    BY <1>1, <2>1 DEF HouseInv, FillInv
<1>8. QuoteInv'
  <2>1. \A q : Pending(q)' = Pending(q)
    BY <1>1 DEF Pending
  <2> QED
    BY <1>1, <1>3, <2>1, OrderKinds DEF HouseInv, QuoteInv, QuoteRow
<1>9. ClientReserve' /\ DeskReserve'
  <2>1. \A o \in Orders : RowNeed(o)' = RowNeed(o) /\ ViewNeed(o)' = ViewNeed(o)
    BY <1>1 DEF RowNeed, ViewNeed, Needed, OpenPart, Took, ReserveOf, View, Visible
  <2>2. \A o \in Orders : OpenPart(rows[o], o)' = OpenPart(rows[o], o)
                          /\ OpenPart(View(o), o)' = OpenPart(View(o), o)
    BY <1>1 DEF OpenPart, ReserveOf, View, Visible
  <2> QED
    BY <1>1, <2>1, <2>2 DEF HouseInv, ClientReserve, DeskReserve
<1>10. WalletInv'
  BY <1>1 DEF HouseInv, WalletInv
<1> QED
  BY <1>2, <1>4, <1>5, <1>6, <1>7, <1>8, <1>9, <1>10 DEF HouseInv

LEMMA HouseNext == ASSUME HouseInv, Next PROVE HouseInv'
<1>1. Order /\ FillInv /\ QuoteInv /\ ClientReserve /\ DeskReserve /\ WalletInv
  BY DEF HouseInv, Order
<1>2. Order'
  BY <1>1, OrderNext
<1>3. /\ TypeInv /\ BookInv /\ TaskInv /\ UsedInv
      /\ TypeInv' /\ BookInv' /\ TaskInv' /\ UsedInv'
  BY <1>1, <1>2 DEF Order
<1>4. FillInv'
  BY <1>1, <1>3, FillNext
<1>5. QuoteInv'
  BY <1>1, <1>3, QuoteNext
<1>6. ClientReserve'
  BY <1>1, <1>3, ClientNext
<1>7. DeskReserve'
  BY <1>1, <1>3, <1>5, DeskReserveNext
<1>8. WalletInv'
  BY <1>1, <1>3, WalletNext
<1> QED
  BY <1>2, <1>4, <1>5, <1>6, <1>7, <1>8 DEF HouseInv, Order

-----------------------------------------------------------------------------
(* What holds in every state.                                              *)

\* The inductive invariant: every step of the desk, of an order and its copies,
\* of a cancel, a follow, a failure and a restart keeps it.
THEOREM HouseInvariant == Spec => []HouseInv
<1>1. Init => HouseInv
  BY FirstOrder, FirstRest DEF HouseInv, Order
<1>2. HouseInv /\ [Next]_vars => HouseInv'
  BY HouseNext, Stutter
<1> QED
  BY <1>1, <1>2, PTL DEF Spec

\* No balance of a client or of the desk is ever negative, whatever the desk's
\* runs, copies, rollbacks and restarts do to it (models/wallet.py:20).
THEOREM BalancesNatural == Spec => []TypeOK
<1>1. ASSUME HouseInv PROVE TypeOK
  <2>1. TypeInv /\ TaskInv /\ FillInv /\ ClientReserve /\ WalletInv
    BY <1>1 DEF HouseInv
  <2>2. ASSUME NEW u \in Holders PROVE wallet[u] \in Balance /\ committed[u] \in Balance
    <3>1. wallet[u] \in Ledger /\ committed[u] \in Ledger
          /\ wallet[u].available >= 0 /\ committed[u].available >= 0
      BY <2>1 DEF TypeInv, WalletInv
    <3>2. wallet[u].locked >= 0 /\ committed[u].locked >= 0
      <4>1. CASE u = Desk
        BY <2>1, <4>1 DEF WalletInv
      <4>2. CASE u \in Users
        BY <2>1, <4>2, ClientLocks
      <4> QED
        BY <4>1, <4>2 DEF Holders
    <3> QED
      BY <3>1, <3>2 DEF Ledger, Balance
  <2>3. wallet \in [Holders -> Balance] /\ committed \in [Holders -> Balance]
    BY <2>1, <2>2 DEF TypeInv
  <2>4. \A o \in Orders : rows[o].status \in Open \cup {"NONE", "FILLED", "CANCELLED"}
    BY <2>1 DEF TypeInv, RowType
  <2>5. committed[Desk].available <= DeskTarget
    BY <2>1 DEF WalletInv
  <2> QED
    BY <2>1, <2>3, <2>4, <2>5 DEF TypeOK, TypeInv
<1> QED
  BY <1>1, HouseInvariant, PTL

\* A client has locked all that he reserved for the open rests of his orders and,
\* of what he reserved for their fills, what trades have not taken: nothing is
\* missing, and the improvement of his price stays.  The desk's reserve is exact
\* unless a fill of its own was lost (wallet_service.py:71 and 166,
\* trading.py:368, copy_trading_service.py:164, demo.py:174).
THEOREM ReservesAreKept == Spec => []ReservesKept
<1>1. ASSUME HouseInv PROVE ReservesKept
  <2>1. TypeInv /\ TaskInv /\ ClientReserve /\ DeskReserve
    BY <1>1 DEF HouseInv
  <2> DEFINE f(u) == [o \in Orders |-> IF UserOf(o) = u /\ rows[o].status \in Open
                                       THEN ReserveOf(o, SizeOf(o) - rows[o].filled) ELSE 0]
             g(u) == [o \in Orders |-> IF UserOf(o) = u THEN ReserveOf(o, rows[o].filled) - rows[o].paid
                                       ELSE 0]
             h(u) == [o \in Orders |-> IF UserOf(o) = u THEN RowNeed(o) ELSE 0]
  <2>2. ASSUME NEW o \in Orders
        PROVE  /\ ReserveOf(o, SizeOf(o) - rows[o].filled) \in Int
               /\ ReserveOf(o, rows[o].filled) - rows[o].paid \in Int
    <3>1. rows[o] \in RowType /\ SizeOf(o) \in Nat
      BY <2>1, SizeNat DEF TypeInv
    <3>2. rows[o].filled \in Nat /\ rows[o].paid \in Nat /\ SizeOf(o) - rows[o].filled \in Int
      BY <3>1 DEF RowType
    <3> QED
      BY <3>2, ReserveFacts
  <2>3. \A u : Ints(f(u), Orders) /\ Ints(g(u), Orders)
    BY <2>2 DEF Ints
  <2>4. \A u \in Users : \A o \in Orders : h(u)[o] = f(u)[o] + g(u)[o]
    <3> SUFFICES ASSUME NEW u \in Users, NEW o \in Orders, UserOf(o) = u
                 PROVE  h(u)[o] = f(u)[o] + g(u)[o]
      OBVIOUS
    <3>1. o \notin Quotes
      BY UserClients, OrderKinds
    <3>2. RowNeed(o) = OpenPart(rows[o], o) + (ReserveOf(o, rows[o].filled) - rows[o].paid)
      BY <3>1 DEF RowNeed, Needed, Took
    <3>3. f(u)[o] = OpenPart(rows[o], o)
      BY DEF OpenPart
    <3> QED
      BY <3>2, <3>3
  <2>5. \A u : /\ OpenRest(u) = SumFunction(f(u)) /\ Untaken(u) = SumFunction(g(u))
               /\ DOMAIN f(u) = Orders /\ DOMAIN g(u) = Orders /\ DOMAIN h(u) = Orders
    BY DEF OpenRest, Untaken
  <2>6. \A u \in Users : committed[u].locked = SumFunction(h(u))
    BY <2>1 DEF ClientReserve
  <2>7. f(Desk) = [o \in Orders |-> IF UserOf(o) = Desk THEN OpenPart(rows[o], o) ELSE 0]
    BY DEF OpenPart
  <2>8. lost \cap Quotes = {} => committed[Desk].locked = SumFunction(f(Desk))
    BY <2>1, <2>7 DEF DeskReserve
  <2> HIDE DEF f, g, h
  <2>9. ASSUME NEW u \in Users PROVE committed[u].locked = OpenRest(u) + Untaken(u)
    <3>1. SumFunctionOnSet(h(u), Orders) = SumFunctionOnSet(f(u), Orders) + SumFunctionOnSet(g(u), Orders)
      BY <2>3, <2>4, Finite, SumPlus
    <3>2. /\ SumFunction(f(u)) = SumFunctionOnSet(f(u), Orders)
          /\ SumFunction(g(u)) = SumFunctionOnSet(g(u), Orders)
          /\ SumFunction(h(u)) = SumFunctionOnSet(h(u), Orders)
      BY <2>5, SumWhole
    <3> QED
      BY <2>5, <2>6, <3>1, <3>2
  <2> QED
    BY <2>5, <2>8, <2>9 DEF ReservesKept
<1> QED
  BY <1>1, HouseInvariant, PTL

\* The row of an order without lost fills says what was settled of it, and no
\* more than was asked for (demo.py:271).
THEOREM RowsAreExact == Spec => []RowsExact
<1>1. ASSUME HouseInv, NEW o \in Orders \ lost
      PROVE  rows[o].filled = rows[o].settled /\ rows[o].filled <= SizeOf(o)
  <2>1. FillInv /\ QuoteInv
    BY <1>1 DEF HouseInv
  <2>2. CASE o \in Clients
    BY <2>1, <2>2 DEF FillInv, ClientRow
  <2>3. CASE o \in Quotes /\ rows[o] # NoRow
    BY <2>1, <2>3, OrderKinds DEF QuoteInv, QuoteRow
  <2>4. CASE rows[o] = NoRow
    BY <2>4, SizeNat DEF NoRow
  <2> QED
    BY <2>2, <2>3, <2>4 DEF Orders
<1>2. HouseInv => RowsExact
  BY <1>1 DEF RowsExact
<1> QED
  BY <1>2, HouseInvariant, PTL

\* An order is copied only to followers of its own user, and to one of them
\* twice only by relations whose requests overlapped
\* (copy_trading_service.py:80, api/v1/copy_trading.py:88).
THEOREM CopiedOnce == Spec => []CopiesOnce
<1>1. ASSUME HouseInv, NEW p \in Placements, NEW r \in Relations, rows[<<p, r>>] # NoRow
      PROVE  Leader[r] = Owner[p] /\ relation[r] # "none"
  <2>1. <<p, r>> \in Own(p)
    BY <1>1 DEF HouseInv, TaskInv
  <2>2. <<p, r>> # p
    BY OrderKinds
  <2> QED
    BY <2>1, <2>2 DEF Own, CopiedTo
<1>2. ASSUME HouseInv PROVE CopiesOnce
  <2> SUFFICES ASSUME NEW p \in Placements, NEW r \in Relations, rows[<<p, r>>] # NoRow
               PROVE  /\ Leader[r] = Owner[p]
                      /\ \A s \in SamePair(r) \ {r} : rows[<<p, s>>] # NoRow => {r, s} \subseteq raced
    BY DEF CopiesOnce
  <2>1. \A s \in SamePair(r) : s \in Relations
    BY DEF SamePair
  <2> QED
    BY <1>1, <1>2, <2>1 DEF HouseInv, FollowInv
<1> QED
  BY <1>2, HouseInvariant, PTL

\* No client has more open orders than his limit, but for orders that were
\* checked while another of his was under way (risk_service.py:38).
THEOREM LimitIsKept == Spec => []LimitKept
<1>1. ASSUME HouseInv, NEW u \in Users
      PROVE  Cardinality({o \in Clients \ crowded : UserOf(o) = u /\ rows[o].status \in Open}) <= MaxOpen
  <2> DEFINE S == {o \in Clients \ crowded : UserOf(o) = u /\ rows[o].status \in Open}
  <2>1. S \subseteq Promised(u) /\ Promised(u) \subseteq Clients
    BY DEF Promised
  <2>2. IsFiniteSet(Promised(u))
    BY <2>1, Finite, FS_Subset
  <2>3. Cardinality(S) <= Cardinality(Promised(u)) /\ Cardinality(S) \in Nat
        /\ Cardinality(Promised(u)) \in Nat
    BY <2>1, <2>2, FS_Subset, FS_CardinalityType
  <2>4. Cardinality(Promised(u)) <= MaxOpen /\ MaxOpen \in Nat
    BY <1>1, ClientAssumption DEF HouseInv, LimitInv
  <2> HIDE DEF S
  <2>5. Cardinality(S) <= MaxOpen
    BY <2>3, <2>4
  <2> QED
    BY <2>5 DEF S
<1>2. HouseInv => LimitKept
  BY <1>1 DEF LimitKept
<1> QED
  BY <1>2, HouseInvariant, PTL
==============================================================================
