----------------------------- MODULE MCTrading -----------------------------
(***************************************************************************)
(* Small instances of Trading for TLC: a seller, a buyer and one pair.     *)
(***************************************************************************)
EXTENDS Trading, TLC

CONSTANTS o1, o2, o3, alice, bob

Ord(type, side, price, stop, quantity, quote) ==
    [Engine!Blank EXCEPT !.order_type = type, !.side = side, !.price = price,
        !.stop_price = stop, !.quantity = quantity, !.quote_quantity = quote,
        !.status = "PENDING"]

Limit(side, price, quantity) == Ord("LIMIT", side, price, 0, quantity, 0)

By(user, ords) == {[user |-> user, ord |-> ord] : ord \in ords}

MCFunds == [w \in Users \X {"base", "quote"} |->
              CASE w = <<alice, "quote">> -> 26 [] w = <<bob, "base">> -> 3 [] OTHER -> 0]

\* A resting sell; a buyer, whose budget may not divide by its price; and a
\* second buyer, a stop, a market sell or an order of the other side.
MCRequests ==
    (o1 :> By(bob, {Limit("SELL", 2, 2)})) @@
    (o2 :> By(alice, {Limit("BUY", 3, 1), Ord("MARKET", "BUY", 0, 0, 0, 3)})) @@
    (o3 :> By(alice, {Limit("BUY", 2, 3), Ord("STOP_LIMIT", "BUY", 3, 2, 1, 0)})
        \cup By(bob, {Ord("STOP_MARKET", "SELL", 0, 2, 1, 0), Ord("MARKET", "SELL", 0, 0, 1, 0)}))
=============================================================================
