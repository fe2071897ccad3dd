---------------------------- MODULE MCWithdrawals ----------------------------
(***************************************************************************)
(* Small instances of Withdrawals for TLC.                                 *)
(***************************************************************************)
EXTENDS Withdrawals, TLC

CONSTANTS w1, w2, d1, d2, o1, a1, a2

\* withdrawals, deposits and admin sessions are interchangeable
Symmetry == Permutations(WithdrawalIds) \cup Permutations(DepositIds) \cup Permutations(Admins)
==============================================================================
