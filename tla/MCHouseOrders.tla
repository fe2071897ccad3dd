---------------------------- MODULE MCHouseOrders ----------------------------
(***************************************************************************)
(* A small instance of HouseOrders for TLC: one order of ann and the       *)
(* desk's task, with any two complications.                                *)
(***************************************************************************)
EXTENDS HouseOrders, TLC

CONSTANTS ann, bob, p1, p2

MCOwner    == p1 :> ann @@ p2 :> bob
MCSize     == p1 :> 2 @@ p2 :> 1
MCFunds    == ann :> 4 @@ bob :> 4
MCAskCost  == 1 :> 1
MCFollower == <<bob, bob, ann>>
MCLeader   == <<ann, ann, bob>>
=============================================================================
