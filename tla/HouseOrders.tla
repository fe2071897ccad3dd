----------------------------- MODULE HouseOrders -----------------------------
(***************************************************************************)
(* The liquidity desk and copy trading together: clients trade with the    *)
(* desk's ladder while runs of the desk fill it up, leaders' orders are    *)
(* copied, requests fail and the process restarts.                         *)
(***************************************************************************)
EXTENDS MarketMaker, CopyTrading

CONSTANTS
    FirstRelations,   \* the relations that are there and active at first
    Usual,            \* placements that do not count as complications
    MaxComplications  \* bound on the complications of a behaviour

ASSUME BoundsAssumption == Usual \subseteq Placements /\ MaxComplications \in Nat

\* The rows that are there at first were added one after the other.
ASSUME FirstAssumption ==
    /\ FirstRelations \subseteq Relations
    /\ \A r \in FirstRelations : SamePair(r) \cap FirstRelations = {r}

Init ==
    /\ book = [buy |-> <<>>, sell |-> <<>>]
    /\ left = [o \in Orders |-> 0]
    /\ fill = [o \in Clients |-> 0]
    /\ rows = [o \in Orders |-> NoRow]
    /\ committed = [u \in Holders |-> [available |-> IF u = Desk THEN 0 ELSE Funds[u], locked |-> 0]]
    /\ wallet = committed
    /\ opened = FALSE
    /\ holder = [u \in Holders |-> None]
    /\ task = [t \in Tasks |-> Fresh]
    /\ used = {}
    /\ relation = [r \in Relations |-> IF r \in FirstRelations THEN "active" ELSE "none"]
    /\ asking = [r \in Relations |-> "idle"]
    /\ faults = 0
    /\ lost = {} /\ crowded = {} /\ raced = {}

TickSteps == StartRun(Tick) \/ DeskStep(Tick)
TaskSteps == DeskStep(Boot) \/ \E p \in Placements : PlacementStep(p)

\* A fault, a bootstrap, an unusual order, a follow, an unfollow, a cancel.
Complications ==
    faults
    + Cardinality({t \in {Boot} \cup (Placements \ Usual) : task[t].stage # "ready"})
    + Cardinality({r \in Relations : asking[r] # "idle"})
    + Cardinality({r \in Relations : relation[r] = "inactive"})
    + Cardinality({o \in Clients : rows[o].status = "CANCELLED"})

Complicate ==
    \/ StartRun(Boot)
    \/ \E p \in Placements \ Usual : Begin(p)
    \/ \E o \in Clients : CancelOrder(o)
    \/ \E r \in Relations : FollowLook(r) \/ Unfollow(r)
    \/ \E t \in Tasks : Fail(t)
    \/ Restart

Next ==
    \/ TickSteps \/ TaskSteps
    \/ \E p \in Usual : Begin(p)
    \/ \E r \in Relations : FollowCommit(r)
    \/ Complications < MaxComplications /\ Complicate

\* The desk's task wakes up again and again, and requests that have started go
\* on; nobody has to ask.
Spec == Init /\ [][Next]_vars /\ WF_vars(TickSteps) /\ WF_vars(TaskSteps)

-----------------------------------------------------------------------------
(* Properties.                                                             *)

Balance == [available : Nat, locked : Nat]

\* Balances are never negative, in place or committed, and the desk is never
\* given more than its target (models/wallet.py, ck_wallet_*).
TypeOK ==
    /\ wallet \in [Holders -> Balance] /\ committed \in [Holders -> Balance]
    /\ committed[Desk].available <= DeskTarget
    /\ holder \in [Holders -> Tasks \cup {None}]
    /\ \A o \in Orders : rows[o].status \in Open \cup {"NONE", "FILLED", "CANCELLED"}
    /\ \A r \in Relations : relation[r] \in {"none", "active", "inactive"}
    /\ left \in [Orders -> Nat] /\ fill \in [Clients -> Nat]
    /\ book.buy \in Seq(Clients) /\ book.sell \in Seq(Quotes)

\* What u reserved for the open rests of his orders, and what he reserved for
\* their fills and no trade has taken.
OpenRest(u) ==
    SumFunction([o \in Orders |->
        IF UserOf(o) = u /\ rows[o].status \in Open
        THEN ReserveOf(o, SizeOf(o) - rows[o].filled) ELSE 0])
Untaken(u) ==
    SumFunction([o \in Orders |->
        IF UserOf(o) = u THEN ReserveOf(o, rows[o].filled) - rows[o].paid ELSE 0])

\* Of what a client reserved he has locked the part for the open rests of his
\* rows, all of it, and of the part for fills what trades have not taken: the
\* improvement of his price, and fills his row shows that no trade settled.  So
\* it is however desk orders meet his own, runs are rolled back under him and
\* the process dies.  The desk's reserve is exact as long as no fill of its own
\* was lost (wallet_service.py:71 and 166, trading.py:368, demo.py:174,
\* copy_trading_service.py:164).
ReservesKept ==
    /\ \A u \in Users : committed[u].locked = OpenRest(u) + Untaken(u)
    /\ lost \cap Quotes = {} => committed[Desk].locked = OpenRest(Desk)

\* Rows say what was settled and no more than was asked for, except of orders
\* with a fill that was lost: a desk order is overfilled only after it left the
\* book without its row knowing, and a client's row shows fills that were not
\* settled only for a desk order's or a failed copy's (demo.py:271).
RowsExact ==
    \A o \in Orders \ lost :
      /\ rows[o].filled = rows[o].settled
      /\ rows[o].filled <= SizeOf(o)

\* Copies go to followers of the order's own user, and to one twice only if two
\* of his follow requests overlapped (copy_trading_service.py:80,
\* api/v1/copy_trading.py:88).
CopiesOnce ==
    \A p \in Placements, r \in Relations : rows[<<p, r>>] # NoRow =>
      /\ Leader[r] = Owner[p]
      /\ \A s \in SamePair(r) \ {r} : rows[<<p, s>>] # NoRow => {r, s} \subseteq raced

\* A client has more open orders than his limit only by orders that were checked
\* while another of his was under way (risk_service.py:38).
LimitKept ==
    \A u \in Users :
      Cardinality({o \in Clients \ crowded : UserOf(o) = u /\ rows[o].status \in Open}) <= MaxOpen

Quoted(l) == \E q \in Quotes : q[1] = l /\ rows[q].status \in Open /\ OnBook(q)

\* The ladder heals: whatever was taken, failed or restarted, each level has an
\* order on the book again and again (main.py:58).
LadderHeals == \A l \in Levels : []<>Quoted(l)
=============================================================================
