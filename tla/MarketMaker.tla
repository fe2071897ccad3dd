----------------------------- MODULE MarketMaker -----------------------------
(***************************************************************************)
(* The liquidity desk: periodic_market_maker of main.py and bootstrap_demo *)
(* of api/v1/demo.py, which do the same with no lock between them.  A run  *)
(* is one transaction: it tops the desk's balance up and goes through the  *)
(* ladder, adding an order for each level that has none.  What the engine  *)
(* matches a desk order with on arrival is thrown away.                    *)
(***************************************************************************)
EXTENDS Exchange

DeskTasks == {Tick, Boot}

At(d, stage) == d \in DeskTasks /\ task[d].stage = stage

\* topup_liquidity_balance reads the wallet without a lock, and leaves a
\* balance that is high enough as it is.
StartRun(d) ==
    /\ At(d, "ready")
    /\ task' = [task EXCEPT ![d] =
         IF opened /\ committed[Desk].available >= DeskTarget
         THEN [@ EXCEPT !.stage = "look", !.todo = Levels]
         ELSE [@ EXCEPT !.stage = "topup", !.seen = IF opened THEN "low" ELSE "absent"]]
    /\ UNCHANGED <<memoryVars, dbVars, walletVars, used, followVars, faults, lost, crowded>>

\* Mutants of RaisedBalance: the wallet is reset as a whole; the target is added.
ResetBalance(w) == [available |-> DeskTarget, locked |-> 0]
RaiseByTarget(w) == [w EXCEPT !.available = @ + DeskTarget]

\* available is set; locked is not in the UPDATE.
RaisedBalance(w) == [w EXCEPT !.available = DeskTarget]

TopUp(d) ==
    /\ At(d, "topup")
    /\ Free(d, Desk)
    /\ task[d].seen = "absent" => ~opened
    /\ wallet' = [wallet EXCEPT ![Desk] = RaisedBalance(@)]
    /\ Lock(d, Desk)
    /\ task' = [task EXCEPT ![d].stage = "look", ![d].todo = Levels, ![d].seen = None]
    /\ UNCHANGED <<memoryVars, dbVars, used, followVars, faults, lost, crowded>>

\* uq_user_wallet_asset: another run has inserted the wallet first.
WalletTaken(d) ==
    /\ At(d, "topup") /\ task[d].seen = "absent" /\ opened
    /\ Abort(d)
    /\ UNCHANGED faults

-----------------------------------------------------------------------------
(* ensure_liquidity_order.                                                 *)

NextLevel(d, l) == l \in task[d].todo /\ \A m \in task[d].todo : l <= m

\* The newest open row of the level, if there is one.
OpenQuotes(d, l) == {q \in Quotes : q[1] = l /\ Visible(d, q).status \in Open}
Newest(q, quotes) == q \in quotes /\ \A p \in quotes : p[2] <= q[2]

Step(d, l) == [task EXCEPT ![d].todo = @ \ {l}]

\* Mutants of Missing: an order is put on the book again whether it is there
\* or not; a row is enough for the level not to be missed.
Always(q) == TRUE
Never(q) == FALSE

Missing(q) == ~OnBook(q)

\* The level has an order on the book.
Satisfied(d, l) ==
    /\ At(d, "look") /\ NextLevel(d, l)
    /\ \E q \in Quotes : Newest(q, OpenQuotes(d, l)) /\ ~Missing(q)
    /\ task' = Step(d, l)
    /\ UNCHANGED <<memoryVars, dbVars, walletVars, used, followVars, faults, lost, crowded>>

\* The orders in the n trades of a desk order's arrival, which nobody settles.
Discarded(q, n) ==
    IF n = 0 THEN {} ELSE {q} \cup Makers(TradesOf(book.buy, LevelSize, n))

\* It has a row and no order on the book: the engine gets the order again, with
\* the ladder's quantity and no new reserve, although what took it off the book
\* may be settled by a transaction that has not committed yet.
AddAgain(d, l, q, n) ==
    /\ At(d, "look") /\ NextLevel(d, l)
    /\ Newest(q, OpenQuotes(d, l))
    /\ Missing(q)
    /\ Sell(q, LevelSize, n)
    /\ task' = Step(d, l)
    /\ lost' = lost \cup Discarded(q, n) \cup {x \in {q} : \E t \in Tasks : x \in Unkept(t)}
    /\ UNCHANGED <<dbVars, walletVars, used, followVars, faults, crowded>>

\* It has none: up to the wallet's lock.
Miss(d, l) ==
    /\ At(d, "look") /\ NextLevel(d, l)
    /\ OpenQuotes(d, l) = {}
    /\ task' = [task EXCEPT ![d].stage = "place"]
    /\ UNCHANGED <<memoryVars, dbVars, walletVars, used, followVars, faults, lost, crowded>>

\* The next order of the level, within the model's bound.
NewQuote(l, q) == q[1] = l /\ q \notin used /\ \A p \in Quotes \ used : p[1] = l => q[2] <= p[2]

Place(d, l, q, n) ==
    /\ At(d, "place") /\ NextLevel(d, l) /\ NewQuote(l, q)
    /\ Free(d, Desk)
    /\ wallet[Desk].available >= LevelSize
    /\ wallet' = [wallet EXCEPT ![Desk] = Reserved(@, LevelSize)]
    /\ Lock(d, Desk)
    /\ Sell(q, LevelSize, n)
    /\ used' = used \cup {q}
    /\ task' = [task EXCEPT ![d].todo = @ \ {l}, ![d].stage = "look",
                            ![d].draft[q] = [NoRow EXCEPT !.status = "OPEN"]]
    /\ lost' = lost \cup Discarded(q, n)
    /\ UNCHANGED <<dbVars, followVars, faults, crowded>>

\* 400 "Insufficient available balance": the whole run is rolled back.
DeskShort(d) ==
    /\ At(d, "place") /\ Free(d, Desk)
    /\ wallet[Desk].available < LevelSize
    /\ Abort(d)
    /\ UNCHANGED faults

EndRun(d) ==
    /\ At(d, "look") /\ task[d].todo = {}
    /\ Commit(d, IF d = Tick THEN "ready" ELSE "done")

DeskStep(d) ==
    \/ TopUp(d) \/ WalletTaken(d)
    \/ \E l \in Levels : Satisfied(d, l) \/ Miss(d, l)
    \/ \E q \in Quotes, n \in 0 .. Len(book.buy) : AddAgain(d, q[1], q, n) \/ Place(d, q[1], q, n)
    \/ DeskShort(d) \/ EndRun(d)
=============================================================================
