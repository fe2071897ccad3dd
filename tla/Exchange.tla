------------------------------- MODULE Exchange -------------------------------
(***************************************************************************)
(* What MarketMaker and CopyTrading act on: the engine's book of one pair, *)
(* the rows of table orders, the wallets, and the transactions of the      *)
(* tasks of the API process.  Trading has the same parts in full; here a   *)
(* trade is settled in one step once the desk's wallet is locked, and only *)
(* the wallets that orders reserve from are kept: each client's quote      *)
(* wallet, the desk's base wallet.  The desk sells, clients buy GTC at one *)
(* limit price; prices of the levels are at or below it.                   *)
(*                                                                         *)
(* The engine is memory of the process: a rollback does not undo it, and a *)
(* restart empties it.                                                     *)
(***************************************************************************)
EXTENDS Integers, Sequences, SequencesExt, FiniteSetsExt

CONSTANTS
    Users, Desk,         \* clients, and the liquidity user
    Tick, Boot,          \* periodic_market_maker; a POST /demo/bootstrap
    Placements,          \* limit orders to be placed; each is also its task
    Owner, Size,         \* Owner[p], Size[p]: who places p, and how much
    Relations,           \* follow requests in their order; each is also its row
    Follower, Leader,    \* Follower[r], Leader[r]
    Levels, LevelSize,   \* the ladder's asks, and the quantity of each
    DeskOrders,          \* how many orders the desk adds per level at most
    BidCost, AskCost,    \* with taker fee, a unit: at the clients' limit, and of a level
    DeskTarget, Funds,   \* LIQUIDITY_BALANCES, and Funds[u]: what a client has
    Allocation, MaxCopy, MinSize,   \* allocation_percentage, max_position_size, min_qty
    MaxOpen,             \* risk_limits.max_open_orders of every client
    MaxFaults,           \* bound on restarts and on tasks that fail by themselves
    None

Copies  == Placements \X Relations     \* client_order_id "copy:<order>:<relation>"
Quotes  == Levels \X (1 .. DeskOrders) \* the n-th order of client id "demo-liq:...:<level>"
Clients == Placements \cup Copies
Orders  == Clients \cup Quotes
Tasks   == {Tick, Boot} \cup Placements
Holders == Users \cup {Desk}

\* The top-up pays for the whole ladder.
ASSUME DeskAssumption ==
    /\ LevelSize \in Nat \ {0} /\ DeskOrders \in Nat
    /\ Levels \subseteq Nat /\ IsFiniteSet(Levels)
    /\ DeskTarget \in Nat /\ DeskTarget >= Cardinality(Levels) * LevelSize

ASSUME ClientAssumption ==
    /\ IsFiniteSet(Users) /\ IsFiniteSet(Placements)
    /\ Owner \in [Placements -> Users] /\ Size \in [Placements -> Nat \ {0}]
    /\ Funds \in [Users -> Nat] /\ MaxOpen \in Nat

ASSUME PriceAssumption == BidCost \in Nat /\ AskCost \in [Levels -> 0 .. BidCost]

ASSUME FollowAssumption ==
    /\ Relations \subseteq Nat /\ IsFiniteSet(Relations)
    /\ Follower \in [Relations -> Users] /\ Leader \in [Relations -> Users]
    /\ \A r \in Relations : Follower[r] # Leader[r]
    /\ Allocation \in Nat /\ MaxCopy \in Nat /\ MinSize \in Nat

\* The names of different things are different.
ASSUME NameAssumption ==
    /\ Desk \notin Users /\ Tick # Boot
    /\ Placements \cap (Copies \cup Quotes \cup {Tick, Boot}) = {} /\ Copies \cap Quotes = {}
    /\ None \notin Orders \cup Tasks \cup Holders

VARIABLES
    book,       \* book.buy, book.sell: the resting orders, best first
    left,       \* left[o]: what is left of a resting order; 0 of any other
    fill,       \* fill[o]: what the engine's object of a client's order has filled
    rows,       \* committed rows of table orders
    wallet,     \* rows of user_wallets, in place
    committed,  \* ... as last committed
    opened,     \* the desk's wallet row exists
    holder,     \* the task that has locked a wallet row
    task,       \* where each task stands and what it has written
    used,       \* desk orders that have been made
    relation,   \* relation[r]: the row of copy_trading_relations
    asking,     \* asking[r]: what the follow request has found
    faults,
    lost,       \* history: orders with fills that no transaction kept
    crowded,    \* history: orders checked while another of the user was under way
    raced       \* history: follow requests that overlapped another

memoryVars == <<book, left, fill>>
dbVars     == <<rows, committed, opened>>
walletVars == <<wallet, holder>>
followVars == <<relation, asking, raced>>
vars == <<memoryVars, dbVars, walletVars, task, used, followVars, faults, lost, crowded>>

\* settled and paid are history: of the fills, those that trades have settled,
\* and what these have cost the buyer.
NoRow == [status |-> "NONE", filled |-> 0, settled |-> 0, paid |-> 0]
Open  == {"OPEN", "PARTIALLY_FILLED"}

\* stage; the order being processed; its trades to be settled; the levels or
\* relations still to come; what a read has found; the rows written.
Fresh == [stage |-> "ready", cur |-> None, trades |-> <<>>, todo |-> {}, seen |-> None,
          draft |-> [o \in Orders |-> NoRow]]
Ended(stage) == [Fresh EXCEPT !.stage = stage]
Running(t) == task[t].stage \notin {"ready", "done", "failed"}

Visible(t, o) == IF task[t].draft[o] # NoRow THEN task[t].draft[o] ELSE rows[o]

CopySize(p) ==
    LET share == (Size[p] * Allocation) \div 100
        size  == IF share < MaxCopy THEN share ELSE MaxCopy
    IN  IF size < MinSize THEN 0 ELSE size

UserOf(o) == IF o \in Placements THEN Owner[o] ELSE IF o \in Copies THEN Follower[o[2]] ELSE Desk
SizeOf(o) == IF o \in Placements THEN Size[o] ELSE IF o \in Copies THEN CopySize(o[1]) ELSE LevelSize

\* What the owner of o reserves for a quantity n of it: a seller the quantity
\* itself, a buyer its worth at his limit.
ReserveOf(o, n) == IF o \in Quotes THEN n ELSE BidCost * n

-----------------------------------------------------------------------------
(* The engine.                                                             *)

Least(a, b) == IF a < b THEN a ELSE b

\* What the first n orders of a side offer.
Depth(side, n) == SumFunctionOnSet([i \in DOMAIN side |-> left[side[i]]], 1 .. n)

\* An order of quantity q trades with the first n orders of the other side.
Meets(side, q, n) ==
    /\ n \in 0 .. Len(side)
    /\ n > 0 => Depth(side, n - 1) < q
    /\ n < Len(side) => q <= Depth(side, n)

TradesOf(side, q, n) ==
    [i \in 1 .. n |-> [maker    |-> side[i],
                       quantity |-> Least(left[side[i]], q - Depth(side, i - 1))]]

\* What trades take, all together and from one maker.
Traded(trades) == SumFunction([i \in DOMAIN trades |-> trades[i].quantity])
TakenFrom(trades, o) ==
    SumFunction([i \in DOMAIN trades |-> IF trades[i].maker = o THEN trades[i].quantity ELSE 0])
Makers(trades) == {trades[i].maker : i \in DOMAIN trades}

\* The last of the n stays if it offers more than was left to take.
Untraded(side, q, n) ==
    SubSeq(side, IF Depth(side, n) > q THEN n ELSE n + 1, Len(side))

\* Asks by level, then by time; all clients bid at one price.
Rest(side, o, rest) ==
    IF rest = 0 THEN side
    ELSE IF o \in Clients THEN Append(side, o)
    ELSE InsertAt(side, 1 + Cardinality({i \in DOMAIN side : side[i][1] <= o[1]}), o)

OnBook(o) == left[o] > 0

\* What is left of each order after an order o of quantity q has made trades.
LeftAfter(o, q, trades) ==
    [x \in Orders |-> IF x = o THEN q - Traded(trades) ELSE left[x] - TakenFrom(trades, x)]

\* process_order of a client's buy.
Buy(o, q, n) ==
    LET trades == TradesOf(book.sell, q, n) IN
    /\ Meets(book.sell, q, n)
    /\ book' = [buy  |-> Rest(book.buy, o, q - Traded(trades)),
                sell |-> Untraded(book.sell, q, n)]
    /\ left' = LeftAfter(o, q, trades)
    /\ fill' = [fill EXCEPT ![o] = Traded(trades)]

\* ... and of a sell of the desk, which meets the clients' resting buys.
Sell(o, q, n) ==
    LET trades == TradesOf(book.buy, q, n) IN
    /\ Meets(book.buy, q, n)
    /\ book' = [sell |-> Rest(book.sell, o, q - Traded(trades)),
                buy  |-> Untraded(book.buy, q, n)]
    /\ left' = LeftAfter(o, q, trades)
    /\ fill' = [c \in Clients |-> fill[c] + TakenFrom(trades, c)]

-----------------------------------------------------------------------------
(* Transactions.                                                           *)

Free(t, u) == holder[u] \in {None, t}
Lock(t, u) == holder' = [holder EXCEPT ![u] = t]

\* reserve_order_funds and release_order_funds on a wallet.
Reserved(w, amount) == [available |-> w.available - amount, locked |-> w.locked + amount]
Released(w, amount) ==
    LET part == IF amount < w.locked THEN amount ELSE w.locked
    IN  [available |-> w.available + part, locked |-> w.locked - part]

Unlock(t) == holder' = [u \in Holders |-> IF holder[u] = t THEN None ELSE holder[u]]

\* get_db, or the run's own session: commit at the end.
Commit(t, stage) ==
    /\ rows' = [o \in Orders |-> Visible(t, o)]
    /\ committed' = [u \in Holders |-> IF holder[u] = t THEN wallet[u] ELSE committed[u]]
    /\ opened' = (opened \/ holder[Desk] = t)
    /\ Unlock(t)
    /\ task' = [task EXCEPT ![t] = Ended(stage)]
    /\ UNCHANGED <<memoryVars, wallet, used, followVars, faults, lost, crowded>>

\* Orders whose fills a transaction has made or settled and not committed.
Unkept(t) == {o \in Orders : task[t].draft[o] # NoRow} \cup Makers(task[t].trades)
AfterEnd(t) == IF t = Tick THEN Fresh ELSE Ended("failed")

\* session.rollback; the engine keeps what it has matched and what it holds.
Abort(t) ==
    /\ wallet' = [u \in Holders |-> IF holder[u] = t THEN committed[u] ELSE wallet[u]]
    /\ Unlock(t)
    /\ task' = [task EXCEPT ![t] = AfterEnd(t)]
    /\ lost' = lost \cup Unkept(t)
    /\ UNCHANGED <<memoryVars, dbVars, used, followVars, crowded>>

\* The task fails on its own: the database, Kafka, Redis, the client gone.
Fail(t) ==
    /\ Running(t)
    /\ faults < MaxFaults
    /\ faults' = faults + 1
    /\ Abort(t)

\* The process dies and starts with an empty book.
Restart ==
    /\ faults < MaxFaults
    /\ faults' = faults + 1
    /\ book' = [buy |-> <<>>, sell |-> <<>>]
    /\ left' = [o \in Orders |-> 0]
    /\ task' = [t \in Tasks |-> IF Running(t) THEN AfterEnd(t) ELSE task[t]]
    /\ wallet' = committed
    /\ holder' = [u \in Holders |-> None]
    /\ lost' = lost \cup (UNION {Unkept(t) : t \in Tasks})
                    \cup {q \in Quotes : OnBook(q)}
    /\ asking' = [r \in Relations |-> IF asking[r] = "idle" THEN "idle" ELSE "done"]
    /\ UNCHANGED <<fill, dbVars, used, relation, raced, crowded>>
=============================================================================
