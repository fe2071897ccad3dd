-------------------------- MODULE MCChainSettlement --------------------------
(***************************************************************************)
(* A small instance of ChainSettlement for TLC: one user, a party of the   *)
(* trade, who links an address or the zero address between the calls.      *)
(***************************************************************************)
EXTENDS ChainSettlement, TLC

CONSTANTS u1, t1, a1

MCParty == t1 :> {u1}
=============================================================================
