----------------------------- MODULE CopyTrading -----------------------------
(***************************************************************************)
(* A client's limit order and its copies (place_limit_order and            *)
(* persist_result of api/v1/trading.py, services/copy_trading_service.py,  *)
(* services/risk_service.py), cancelling, and the follow requests of       *)
(* api/v1/copy_trading.py.  A leader's order and all copies of it are one  *)
(* transaction.  A copy that fails with an HTTPException is skipped with   *)
(* what it has done so far still in the transaction, and in the engine; a  *)
(* database error ends the transaction, whoever caught it.                 *)
(***************************************************************************)
EXTENDS Exchange

In(p, stage) == p \in Placements /\ task[p].stage = stage

\* enforce_pre_trade_limits: the rows this transaction sees, read without a lock.
OpenOf(p, u) == {o \in Clients : UserOf(o) = u /\ Visible(p, o).status \in Open}

\* Mutant of WithinLimits: one order too many.
AtLimit(p, u) == Cardinality(OpenOf(p, u)) <= MaxOpen

WithinLimits(p, u) == Cardinality(OpenOf(p, u)) < MaxOpen

\* Orders of u that other requests have checked and not committed.
UnderWay(p, u) ==
    \E t \in Placements \ {p} :
      Running(t) /\ (Owner[t] = u \/ \E r \in Relations : Follower[r] = u /\ Leader[r] = Owner[t])

Check(p, o) ==
    crowded' = IF UnderWay(p, UserOf(o)) THEN crowded \cup {o} ELSE crowded

Begin(p) ==
    /\ In(p, "ready")
    /\ WithinLimits(p, Owner[p])
    /\ Check(p, p)
    /\ task' = [task EXCEPT ![p].stage = "reserve", ![p].cur = p]
    /\ UNCHANGED <<memoryVars, dbVars, walletVars, used, followVars, faults, lost>>

\* The wallet is locked; reserving and matching are one slice.
ReserveAndMatch(p, o, n) ==
    /\ Free(p, UserOf(o))
    /\ wallet[UserOf(o)].available >= ReserveOf(o, SizeOf(o))
    /\ wallet' = [wallet EXCEPT ![UserOf(o)] = Reserved(@, ReserveOf(o, SizeOf(o)))]
    /\ Lock(p, UserOf(o))
    /\ Buy(o, SizeOf(o), n)
    /\ task' = [task EXCEPT ![p].stage = "insert",
                            ![p].trades = TradesOf(book.sell, SizeOf(o), n)]

Reserve(p) ==
    /\ In(p, "reserve")
    /\ \E n \in 0 .. Len(book.sell) : ReserveAndMatch(p, task[p].cur, n)
    /\ UNCHANGED <<dbVars, used, followVars, faults, lost, crowded>>

TooPoor(p) == LET o == task[p].cur
              IN  Free(p, UserOf(o)) /\ wallet[UserOf(o)].available < ReserveOf(o, SizeOf(o))

\* 400 to the client; a copy is passed over.
Refused(p) ==
    /\ In(p, "reserve") /\ TooPoor(p)
    /\ task[p].cur \in Placements
    /\ Abort(p)
    /\ UNCHANGED faults

SkipPoor(p) ==
    /\ In(p, "reserve") /\ TooPoor(p)
    /\ task[p].cur \in Copies
    /\ task' = [task EXCEPT ![p].stage = "copy"]
    /\ UNCHANGED <<memoryVars, dbVars, walletVars, used, followVars, faults, lost, crowded>>

-----------------------------------------------------------------------------
(* persist_result.                                                         *)

StatusOf(filled, size) ==
    IF filled >= size THEN "FILLED" ELSE IF filled > 0 THEN "PARTIALLY_FILLED" ELSE "OPEN"

\* The relations to copy to: a copy is not copied.
Active(o) == {r \in Relations : Leader[r] = UserOf(o) /\ relation[r] = "active"}

Copied(o) == IF o \in Copies THEN {} ELSE Active(o)

\* After its last trade an order is copied, or the next copy is taken up.
AfterTrades(tk) ==
    IF tk.trades # <<>> THEN [tk EXCEPT !.stage = "settle"]
    ELSE [tk EXCEPT !.stage = "copy", !.todo = tk.todo \cup Copied(tk.cur)]

\* The row takes what the engine's object says by now.  Fills that are not among
\* this task's trades, made by a desk order since, are nobody's to settle.
Insert(p) ==
    LET o   == task[p].cur
        row == [NoRow EXCEPT !.status = StatusOf(fill[o], SizeOf(o)), !.filled = fill[o]]
    IN  /\ In(p, "insert")
        /\ task' = [task EXCEPT ![p] = AfterTrades([task[p] EXCEPT !.draft[o] = row])]
        /\ UNCHANGED <<memoryVars, dbVars, walletVars, used, followVars, faults, lost, crowded>>

Deal(p) == Head(task[p].trades)

\* A maker's row of which a trade of quantity n is settled.
SettledRow(row, n, size) ==
    [row EXCEPT !.status = StatusOf(row.filled + n, size), !.filled = @ + n, !.settled = @ + n]

\* What a trade costs the buyer: the maker's price.
CostOf(x) == x.quantity * AskCost[x.maker[1]]

\* settle_trade and the maker's row, under the lock of the desk's wallet.  What
\* the buyer's limit was better than the price for stays locked.
Settle(p) ==
    LET tk == task[p]
        o  == tk.cur
        x  == Deal(p)
        m  == Visible(p, x.maker)
    IN  /\ In(p, "settle") /\ Free(p, Desk)
        /\ wallet[Desk].locked >= x.quantity
        /\ m # NoRow
        /\ wallet' = [wallet EXCEPT ![UserOf(o)].locked = @ - CostOf(x),
                                    ![Desk].locked = @ - x.quantity]
        /\ Lock(p, Desk)
        /\ task' = [task EXCEPT ![p] = AfterTrades(
             [tk EXCEPT !.trades = Tail(tk.trades),
                        !.draft[o].settled = @ + x.quantity,
                        !.draft[o].paid = @ + CostOf(x),
                        !.draft[x.maker] = SettledRow(m, x.quantity, SizeOf(x.maker))])]
        /\ UNCHANGED <<memoryVars, dbVars, used, followVars, faults, lost, crowded>>

\* The trade's foreign key finds no row of the maker: the desk's run was rolled
\* back.  Also a copy's failure of this kind ends the leader's transaction.
NoMaker(p) ==
    /\ In(p, "settle") /\ Free(p, Desk)
    /\ wallet[Desk].locked >= Deal(p).quantity
    /\ Visible(p, Deal(p).maker) = NoRow
    /\ Abort(p)
    /\ UNCHANGED faults

ReserveShort(p) == In(p, "settle") /\ Free(p, Desk) /\ wallet[Desk].locked < Deal(p).quantity

\* 409 "Seller reserve invariant violated"
Violated(p) ==
    /\ ReserveShort(p) /\ task[p].cur \in Placements
    /\ Abort(p)
    /\ UNCHANGED faults

\* ... which a copy is passed over for, its row and its reserve as they are.
SkipViolated(p) ==
    /\ ReserveShort(p) /\ task[p].cur \in Copies
    /\ task' = [task EXCEPT ![p].stage = "copy", ![p].trades = <<>>]
    /\ lost' = lost \cup {task[p].cur} \cup Makers(task[p].trades)
    /\ Lock(p, Desk)
    /\ UNCHANGED <<memoryVars, dbVars, wallet, used, followVars, faults, crowded>>

-----------------------------------------------------------------------------
(* replicate_leader_limit_order.                                           *)

NextCopy(p, r) == /\ In(p, "copy") /\ r \in task[p].todo

\* Too small, or the follower is at his limit: the next one.
SkipCopy(p, r) ==
    /\ NextCopy(p, r)
    /\ CopySize(p) = 0 \/ ~WithinLimits(p, Follower[r])
    /\ task' = [task EXCEPT ![p].todo = @ \ {r}]
    /\ UNCHANGED <<memoryVars, dbVars, walletVars, used, followVars, faults, lost, crowded>>

Copy(p, r) ==
    /\ NextCopy(p, r)
    /\ CopySize(p) > 0 /\ WithinLimits(p, Follower[r])
    /\ Check(p, <<p, r>>)
    /\ task' = [task EXCEPT ![p].todo = @ \ {r}, ![p].stage = "reserve", ![p].cur = <<p, r>>]
    /\ UNCHANGED <<memoryVars, dbVars, walletVars, used, followVars, faults, lost>>

\* The end of the request: a FILLED order has no remaining quantity to release.
EndPlacement(p) ==
    /\ In(p, "copy") /\ task[p].todo = {}
    /\ Commit(p, "done")

\* PostgreSQL ends one of the transactions that wait for each other.
WaitsFor(p) ==
    LET u == CASE In(p, "reserve") -> UserOf(task[p].cur)
               [] In(p, "settle")  -> Desk
               [] OTHER            -> None
    IN  IF u = None \/ Free(p, u) THEN {} ELSE {holder[u]}

Deadlocked(p) ==
    \E S \in SUBSET Placements :
      /\ p \in S
      /\ \A x \in S : WaitsFor(x) \cap S # {} /\ \E y \in S : x \in WaitsFor(y)

Victim(p) == Deadlocked(p) /\ Abort(p) /\ UNCHANGED faults

PlacementStep(p) ==
    \/ Reserve(p) \/ Refused(p) \/ SkipPoor(p)
    \/ Insert(p) \/ Settle(p) \/ NoMaker(p) \/ Violated(p) \/ SkipViolated(p)
    \/ \E r \in Relations : SkipCopy(p, r) \/ Copy(p, r)
    \/ EndPlacement(p)
    \/ Victim(p)

-----------------------------------------------------------------------------
(* Cancelling, following.                                                  *)

Without(side, o) ==
    IF OnBook(o) THEN RemoveAt(side, CHOOSE i \in DOMAIN side : side[i] = o) ELSE side

\* cancel_order, when nothing else has the client's wallet: the engine forgets
\* the order if it has it, and what the row says is open is released.
CancelOrder(o) ==
    LET u == UserOf(o)
        w == Released(wallet[u], ReserveOf(o, SizeOf(o) - rows[o].filled))
    IN  /\ o \in Clients
        /\ rows[o].status \in Open
        /\ holder[u] = None
        /\ book' = [book EXCEPT !.buy = Without(@, o)]
        /\ left' = [left EXCEPT ![o] = 0]
        /\ rows' = [rows EXCEPT ![o].status = "CANCELLED"]
        /\ wallet' = [wallet EXCEPT ![u] = w]
        /\ committed' = [committed EXCEPT ![u] = w]
        /\ UNCHANGED <<fill, opened, holder, task, used, followVars, faults, lost, crowded>>

SamePair(r) == {s \in Relations : Follower[s] = Follower[r] /\ Leader[s] = Leader[r]}
Found(r) == {s \in SamePair(r) : relation[s] # "none"}

\* Mutant of Adds: a request adds its row without looking.
AddsAlways(r) == TRUE

Adds(r) == Found(r) = {}

\* follow: SELECT, and for more than one row MultipleResultsFound.
FollowLook(r) ==
    /\ asking[r] = "idle" /\ relation[r] = "none"
    /\ \A s \in SamePair(r) : s < r => asking[s] # "idle" \/ relation[s] # "none"
    /\ Cardinality(Found(r)) <= 1
    /\ asking' = [asking EXCEPT ![r] = IF Adds(r) THEN "adds" ELSE "revives"]
    /\ raced' = IF \E s \in SamePair(r) : asking[s] \in {"adds", "revives"}
                THEN raced \cup {r} \cup {s \in SamePair(r) : asking[s] \in {"adds", "revives"}}
                ELSE raced
    /\ UNCHANGED <<memoryVars, dbVars, walletVars, task, used, relation, faults, lost, crowded>>

FollowCommit(r) ==
    /\ asking[r] \in {"adds", "revives"}
    /\ relation' = [s \in Relations |->
         IF (asking[r] = "adds" /\ s = r) \/ (asking[r] = "revives" /\ s \in Found(r))
         THEN "active" ELSE relation[s]]
    /\ asking' = [asking EXCEPT ![r] = "done"]
    /\ UNCHANGED <<memoryVars, dbVars, walletVars, task, used, raced, faults, lost, crowded>>

\* unfollow: with two rows for the pair it raises and changes nothing.
Unfollow(r) ==
    /\ Found(r) = {r}
    /\ relation' = [relation EXCEPT ![r] = "inactive"]
    /\ UNCHANGED <<memoryVars, dbVars, walletVars, task, used, asking, raced, faults, lost, crowded>>
=============================================================================
