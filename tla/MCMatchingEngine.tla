-------------------------- MODULE MCMatchingEngine --------------------------
(***************************************************************************)
(* Small instances of MatchingEngine for TLC.                              *)
(***************************************************************************)
EXTENDS MatchingEngine

CONSTANTS a, b, c, d, none

Limit(side, price, quantity, tif, peak) ==
    [Blank EXCEPT !.side = side, !.price = price, !.quantity = quantity,
                  !.time_in_force = tif, !.iceberg_peak = peak, !.status = "PENDING"]

Market(side, quantity, quote) ==
    [Blank EXCEPT !.order_type = "MARKET", !.side = side, !.quantity = quantity,
                  !.quote_quantity = quote, !.status = "PENDING"]

Stop(type, side, stop, price, quantity, tif) ==
    [Blank EXCEPT !.order_type = type, !.side = side, !.stop_price = stop, !.price = price,
                  !.quantity = quantity, !.time_in_force = tif, !.status = "PENDING"]

\* Limit orders of every time in force, with and without an iceberg peak, at
\* two prices; one GTD order carries an expiry time.
LimitRequests ==
         {Limit(side, p, 2, "GTC", 0) : side \in Sides, p \in {1, 2}}
    \cup {Limit("BUY", 1, 1, "GTC", 0), Limit("SELL", 2, 1, "GTC", 0)}
    \cup {Limit("BUY", 1, 2, "FOK", 0), Limit("SELL", 1, 2, "FOK", 0)}
    \cup {Limit("SELL", 1, 2, "IOC", 0)}
    \cup {Limit("SELL", 2, 3, "GTC", 2)}
    \cup {[Limit("BUY", 1, 1, "GTD", 0) EXCEPT !.expires = TRUE]}

\* Resting orders on both sides, market orders of each kind and stop orders
\* that the trades trigger.
StopRequests ==
         {Limit("SELL", p, q, "GTC", 0) : p \in {1, 2}, q \in {2}}
    \cup {Limit("BUY", p, 2, "GTC", 0) : p \in {1, 2}}
    \cup {Market("BUY", 0, 3), Market("SELL", 1, 0), Market("SELL", 1, 4)}
    \cup {Stop("STOP_MARKET", "SELL", 2, NoPrice, 1, "GTC"),
          Stop("STOP_MARKET", "BUY", 1, NoPrice, 2, "FOK"),
          Stop("STOP_LIMIT", "SELL", 1, 1, 1, "GTC")}

AllRequests == LimitRequests \cup StopRequests

\* Orders of only one of the two sets.
StopOnly(ord)  == ord.status # "UNUSED" /\ (ord.order_type # "LIMIT" \/ ord.stop_price # NoPrice)
LimitOnly(ord) == /\ ord.status # "UNUSED" /\ ~StopOnly(ord)
                  /\ ord.time_in_force # "GTC" \/ ord.iceberg_peak > 0 \/ ord.quantity = 1

\* A behaviour takes its orders from one of the two sets.
OneFamily == ~\E x, y \in OrderIds : LimitOnly(order[x]) /\ StopOnly(order[y])
=============================================================================
