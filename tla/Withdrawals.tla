----------------------------- MODULE Withdrawals -----------------------------
(***************************************************************************)
(* Deposits and withdrawals of one wallet row (one user, one asset):       *)
(* backend/app/api/v1/wallets.py, with the order reserves that             *)
(* services/wallet_service.py keeps in the same row.                       *)
(*                                                                         *)
(* Every handler is one database transaction (db/session.py get_db:        *)
(* commit at the end, rollback on any exception).  All of them but         *)
(* approve_withdrawal take SELECT ... FOR UPDATE on the deposit or         *)
(* withdrawal row before they look at it and on the wallet row before they *)
(* change it, always in this order, and hold the locks until they commit:  *)
(* each is one atomic action.  A handler that raises changes nothing.      *)
(* approve_withdrawal reads without a lock and writes when the session     *)
(* flushes at commit, so it is two actions with others in between.         *)
(*                                                                         *)
(* A wallet row that does not exist yet is the row 0, 0 it is created as.  *)
(***************************************************************************)
EXTENDS Integers, FiniteSets, Functions

CONSTANTS
    WithdrawalIds, DepositIds, OrderIds,
    Admins,                 \* admin sessions that may approve at the same time
    Amounts,                \* amounts in use, between min_ and max_withdrawal
    Fee,                    \* asset.withdrawal_fee
    AdminThreshold,         \* from this amount on requires_admin holds (1000)
    RequiredConfirmations,  \* asset.deposit_confirmations
    ConfirmSteps            \* confirmation counts a request may carry

ASSUME AmountsAssumption == /\ Amounts \subseteq Nat \ {0}
                            /\ Fee \in Nat /\ AdminThreshold \in Nat
ASSUME ConfirmationsAssumption == /\ RequiredConfirmations \in Nat
                                  /\ ConfirmSteps \subseteq Nat \ {0}
ASSUME IdsAssumption == /\ WithdrawalIds \cap DepositIds = {}
                        /\ IsFiniteSet(WithdrawalIds) /\ IsFiniteSet(DepositIds)
                        /\ IsFiniteSet(OrderIds)

VARIABLES
    available, locked,   \* the UserWallet row
    withdrawals,         \* Withdrawal rows: [status, amount, approved]
    deposits,            \* Deposit rows: [status, amount, confirmations]
    reserves,            \* what each order still has reserved
    releases,            \* how often each order's funds were released
    overdrawn,           \* history: released beyond the order's own reserve
    chainTxs,            \* MockChainTransaction rows per withdrawal: payouts sent
    approvals,           \* approve_withdrawal calls between read and commit
    postings,            \* LedgerEntry rows per reference and entry type
    ledgerNet,           \* sum of credits minus sum of debits of the wallet
    overwritten          \* history: withdrawals whose status a stale approval replaced

walletVars == <<available, locked>>
ledgerVars == <<postings, ledgerNet>>
orderVars == <<reserves, releases, overdrawn>>
vars == <<walletVars, withdrawals, deposits, orderVars, chainTxs, approvals,
          ledgerVars, overwritten>>

EntryTypes == {"DEPOSIT_CREDIT", "WITHDRAWAL_RESERVE", "WITHDRAWAL_RELEASE",
               "WITHDRAWAL_COMPLETE"}
WithdrawalStatus == {"NONE", "PENDING", "APPROVED", "BROADCAST", "CANCELLED", "COMPLETED"}

\* Mutant of Releasable: the release is not capped at what is locked.
WholeAmount(amount) == amount

\* min(wallet.locked_balance, amount): what a release moves back.
Releasable(amount) == IF locked <= amount THEN locked ELSE amount

RequiresAdmin(w) == withdrawals[w].amount >= AdminThreshold

\* add_ledger for a deposit or withdrawal; a credit is positive.  An entry of
\* nothing violates ck_ledger_single_sided and rolls the handler back.
Post(id, entryType, net) ==
    /\ net # 0
    /\ postings' = [postings EXCEPT ![id][entryType] = @ + 1]
    /\ ledgerNet' = ledgerNet + net

-----------------------------------------------------------------------------
(* Deposits.                                                               *)

CreateMockDeposit(d, amount, confirmations) ==
    /\ deposits[d].status = "NONE"
    /\ deposits' = [deposits EXCEPT ![d] =
         [status |-> "PENDING", amount |-> amount, confirmations |-> confirmations]]
    /\ UNCHANGED <<walletVars, withdrawals, orderVars, chainTxs, approvals,
                   ledgerVars, overwritten>>

\* A completed deposit answers without effect: it may be confirmed again by
\* a client that repeats its call.
CanConfirm(d) == deposits[d].status = "PENDING"

ConfirmationsAfter(d, n) == deposits[d].confirmations + n

AwaitMore(d, n) ==
    /\ ConfirmationsAfter(d, n) < RequiredConfirmations
    /\ deposits' = [deposits EXCEPT ![d].confirmations = ConfirmationsAfter(d, n)]
    /\ UNCHANGED <<walletVars, ledgerVars>>

CreditDeposit(d, n) ==
    /\ ConfirmationsAfter(d, n) >= RequiredConfirmations
    /\ deposits' = [deposits EXCEPT ![d] =
         [@ EXCEPT !.confirmations = ConfirmationsAfter(d, n), !.status = "COMPLETED"]]
    /\ available' = available + deposits[d].amount
    /\ Post(d, "DEPOSIT_CREDIT", deposits[d].amount)
    /\ UNCHANGED locked

ConfirmDeposit(d, n) ==
    /\ CanConfirm(d)
    /\ AwaitMore(d, n) \/ CreditDeposit(d, n)
    /\ UNCHANGED <<withdrawals, orderVars, chainTxs, approvals, overwritten>>

-----------------------------------------------------------------------------
(* Withdrawals.                                                            *)

CreateWithdrawal(w, amount) ==
    /\ withdrawals[w].status = "NONE"
    /\ available >= amount
    /\ amount > Fee
    /\ available' = available - amount
    /\ locked' = locked + amount
    /\ withdrawals' = [withdrawals EXCEPT ![w] =
         [status |-> "PENDING", amount |-> amount, approved |-> FALSE]]
    /\ Post(w, "WITHDRAWAL_RESERVE", 0 - amount)
    /\ UNCHANGED <<deposits, orderVars, chainTxs, approvals, overwritten>>

\* db.get(Withdrawal) in the session of one admin: an unlocked read.
ApproveRead(admin, w) ==
    /\ \A x \in WithdrawalIds : <<admin, x>> \notin approvals
    /\ withdrawals[w].status = "PENDING"
    /\ approvals' = approvals \cup {<<admin, w>>}
    /\ UNCHANGED <<walletVars, withdrawals, deposits, orderVars, chainTxs,
                   ledgerVars, overwritten>>

\* The session commits: UPDATE withdrawals SET status = 'APPROVED' by id,
\* whatever the row's status has become meanwhile.
ApproveCommit(admin, w) ==
    /\ <<admin, w>> \in approvals
    /\ withdrawals' = [withdrawals EXCEPT ![w].status = "APPROVED", ![w].approved = TRUE]
    /\ approvals' = approvals \ {<<admin, w>>}
    /\ overwritten' = IF withdrawals[w].status \in {"PENDING", "APPROVED"}
                      THEN overwritten ELSE overwritten \cup {w}
    /\ UNCHANGED <<walletVars, deposits, orderVars, chainTxs, ledgerVars>>

\* The approving request fails or its process dies before the commit.
ApproveLost(admin, w) ==
    /\ <<admin, w>> \in approvals
    /\ approvals' = approvals \ {<<admin, w>>}
    /\ UNCHANGED <<walletVars, withdrawals, deposits, orderVars, chainTxs,
                   ledgerVars, overwritten>>

\* Mutant of CanBroadcast: the administrator's approval is not required.
BroadcastUnapproved(w) == withdrawals[w].status \in {"PENDING", "APPROVED"}

CanBroadcast(w) ==
    /\ RequiresAdmin(w) => withdrawals[w].status = "APPROVED"
    /\ withdrawals[w].status \in {"PENDING", "APPROVED"}

BroadcastWithdrawal(w) ==
    /\ CanBroadcast(w)
    /\ withdrawals' = [withdrawals EXCEPT ![w].status = "BROADCAST"]
    /\ chainTxs' = [chainTxs EXCEPT ![w] = @ + 1]
    /\ UNCHANGED <<walletVars, deposits, orderVars, approvals, ledgerVars, overwritten>>

\* Mutants of CanCancel: also after the broadcast; whatever the status.
CancelAfterBroadcast(w) == withdrawals[w].status \in {"PENDING", "APPROVED", "BROADCAST"}
CancelAnyStatus(w) == withdrawals[w].status # "NONE"

CanCancel(w) == withdrawals[w].status \in {"PENDING", "APPROVED"}

\* Mutant of CancelWithdrawal: the cap applies to one side of the move only.
CancelCreditsWhole(w) ==
    /\ CanCancel(w)
    /\ locked' = locked - Releasable(withdrawals[w].amount)
    /\ available' = available + withdrawals[w].amount
    /\ withdrawals' = [withdrawals EXCEPT ![w].status = "CANCELLED"]
    /\ Post(w, "WITHDRAWAL_RELEASE", withdrawals[w].amount)
    /\ UNCHANGED <<deposits, orderVars, chainTxs, approvals, overwritten>>

CancelWithdrawal(w) ==
    LET release == Releasable(withdrawals[w].amount)
    IN  /\ CanCancel(w)
        /\ locked' = locked - release
        /\ available' = available + release
        /\ withdrawals' = [withdrawals EXCEPT ![w].status = "CANCELLED"]
        /\ Post(w, "WITHDRAWAL_RELEASE", release)
        /\ UNCHANGED <<deposits, orderVars, chainTxs, approvals, overwritten>>

\* With a second MockChainTransaction row scalar_one_or_none raises and the
\* whole call is rolled back.
CompleteWithdrawal(w) ==
    /\ withdrawals[w].status = "BROADCAST"
    /\ locked >= withdrawals[w].amount
    /\ chainTxs[w] <= 1
    /\ locked' = locked - withdrawals[w].amount
    /\ withdrawals' = [withdrawals EXCEPT ![w].status = "COMPLETED"]
    /\ Post(w, "WITHDRAWAL_COMPLETE", 0 - withdrawals[w].amount)
    /\ UNCHANGED <<available, deposits, orderVars, chainTxs, approvals, overwritten>>

-----------------------------------------------------------------------------
(* The orders that reserve funds of the same wallet (wallet_service.py).   *)

\* An order reserves when it is placed.
ReserveOrderFunds(o, amount) ==
    /\ reserves[o] = 0
    /\ releases[o] = 0
    /\ available >= amount
    /\ available' = available - amount
    /\ locked' = locked + amount
    /\ reserves' = [reserves EXCEPT ![o] = amount]
    /\ ledgerNet' = ledgerNet - amount
    /\ UNCHANGED <<releases, overdrawn, withdrawals, deposits, chainTxs, approvals,
                   postings, overwritten>>

\* What of a release the order itself had reserved.
OwnPart(o, release) == IF release <= reserves[o] THEN release ELSE reserves[o]

\* The handler that ends the order and cancel_order may both release, each
\* what it takes to be left of the order; nothing compares that with what the
\* order still has reserved.
ReleaseOrderFunds(o, amount) ==
    LET release == Releasable(amount)
        own == OwnPart(o, release)
    IN  /\ reserves[o] > 0 \/ releases[o] > 0
        /\ releases[o] < 2
        /\ release > 0
        /\ locked' = locked - release
        /\ available' = available + release
        /\ reserves' = [reserves EXCEPT ![o] = @ - own]
        /\ releases' = [releases EXCEPT ![o] = @ + 1]
        /\ overdrawn' = overdrawn + (release - own)
        /\ ledgerNet' = ledgerNet + release
        /\ UNCHANGED <<withdrawals, deposits, chainTxs, approvals, postings, overwritten>>

-----------------------------------------------------------------------------
Init ==
    /\ available = 0 /\ locked = 0
    /\ withdrawals = [w \in WithdrawalIds |-> [status |-> "NONE", amount |-> 0, approved |-> FALSE]]
    /\ deposits = [d \in DepositIds |-> [status |-> "NONE", amount |-> 0, confirmations |-> 0]]
    /\ reserves = [o \in OrderIds |-> 0]
    /\ releases = [o \in OrderIds |-> 0]
    /\ overdrawn = 0
    /\ chainTxs = [w \in WithdrawalIds |-> 0]
    /\ approvals = {}
    /\ postings = [id \in WithdrawalIds \cup DepositIds |-> [t \in EntryTypes |-> 0]]
    /\ ledgerNet = 0
    /\ overwritten = {}

Next ==
    \/ \E d \in DepositIds, amount \in Amounts, n \in ConfirmSteps \cup {0} :
         CreateMockDeposit(d, amount, n)
    \/ \E d \in DepositIds, n \in ConfirmSteps : ConfirmDeposit(d, n)
    \/ \E w \in WithdrawalIds :
         \/ \E amount \in Amounts : CreateWithdrawal(w, amount)
         \/ \E admin \in Admins : \/ ApproveRead(admin, w)
                                  \/ ApproveCommit(admin, w)
                                  \/ ApproveLost(admin, w)
         \/ BroadcastWithdrawal(w)
         \/ CancelWithdrawal(w)
         \/ CompleteWithdrawal(w)
    \/ \E o \in OrderIds, amount \in Amounts :
         ReserveOrderFunds(o, amount) \/ ReleaseOrderFunds(o, amount)

Spec == Init /\ [][Next]_vars

-----------------------------------------------------------------------------
(* Properties.                                                             *)

\* The rows keep their types; in particular no balance becomes negative, with
\* no help from the CHECK constraints of models/wallet.py.
TypeOK ==
    /\ available \in Nat /\ locked \in Nat
    /\ withdrawals \in [WithdrawalIds -> [status : WithdrawalStatus, amount : Nat,
                                          approved : BOOLEAN]]
    /\ deposits \in [DepositIds -> [status : {"NONE", "PENDING", "COMPLETED"},
                                    amount : Nat, confirmations : Nat]]
    /\ reserves \in [OrderIds -> Nat]
    /\ releases \in [OrderIds -> 0..2]
    /\ overdrawn \in Nat
    /\ chainTxs \in [WithdrawalIds -> Nat]
    /\ approvals \subseteq Admins \X WithdrawalIds
    /\ postings \in [WithdrawalIds \cup DepositIds -> [EntryTypes -> Nat]]
    /\ ledgerNet \in Int
    /\ overwritten \subseteq WithdrawalIds

Posted(id, entryType) == postings[id][entryType]

\* What a deposit has brought and a withdrawal has taken.
Credited(d) == IF deposits[d].status = "COMPLETED" THEN deposits[d].amount ELSE 0
PaidOut(w)  == Posted(w, "WITHDRAWAL_COMPLETE") * withdrawals[w].amount

\* Money neither appears nor vanishes: the wallet holds what completed
\* deposits brought minus what completed withdrawals took, whichever handlers
\* interleave (also when a stale approval revives a withdrawal).
FundsConserved ==
    available + locked = SumFunction([d \in DepositIds |-> Credited(d)])
                           - SumFunction([w \in WithdrawalIds |-> PaidOut(w)])

\* A deposit is credited once however often and in whatever order it is
\* confirmed (confirm_deposit's early return under the row lock).
DepositCreditedOnce ==
    \A d \in DepositIds :
        Posted(d, "DEPOSIT_CREDIT") = IF deposits[d].status = "COMPLETED" THEN 1 ELSE 0

OpenAmount(w) ==
    IF withdrawals[w].status \in {"PENDING", "APPROVED", "BROADCAST"}
    THEN withdrawals[w].amount ELSE 0

Reserved == SumFunction([w \in WithdrawalIds |-> OpenAmount(w)]) + SumFunction(reserves)

\* As long as no stale approval has replaced a status, nothing is locked that
\* no open withdrawal or order has reserved, and what is missing of their
\* reserves is no more than order releases have taken beyond the reserve of
\* their own order (wallet_service.py:123, which trading.py:331 and 469 may
\* call for one order): a cancel or a completion takes nobody else's.
ReservesCovered ==
    overwritten = {} => locked <= Reserved /\ locked >= Reserved - overdrawn

\* A withdrawal gives its reserve back or pays it out, once and not both, and
\* a cancelled one was never sent to the chain, unless a stale approval
\* revived it.
EndsOnce ==
    \A w \in WithdrawalIds \ overwritten :
        /\ Posted(w, "WITHDRAWAL_RELEASE") = IF withdrawals[w].status = "CANCELLED" THEN 1 ELSE 0
        /\ Posted(w, "WITHDRAWAL_COMPLETE") = IF withdrawals[w].status = "COMPLETED" THEN 1 ELSE 0
        /\ chainTxs[w] = IF withdrawals[w].status \in {"BROADCAST", "COMPLETED"} THEN 1 ELSE 0

\* A withdrawal that needs an administrator is never sent to the chain before
\* one has approved it, whatever the approvals race with.
AdminGate ==
    \A w \in WithdrawalIds :
        chainTxs[w] > 0 /\ RequiresAdmin(w) => withdrawals[w].approved

-----------------------------------------------------------------------------
(* What the code and the documents say and what does not hold.             *)

\* complete_withdrawal answers 409 "Withdrawal reserve invariant violated" if
\* the wallet has less locked than the withdrawal it is about to complete.
ReserveInvariant ==
    \A w \in WithdrawalIds :
        withdrawals[w].status = "BROADCAST" => locked >= withdrawals[w].amount

\* run_reconciliation: a wallet below zero, and a ledger whose credits minus
\* debits are not what the wallet has.
Mismatches ==
    {m \in {"NEGATIVE_BALANCE", "LEDGER_WALLET_MISMATCH"} :
       \/ m = "NEGATIVE_BALANCE" /\ (available < 0 \/ locked < 0)
       \/ m = "LEDGER_WALLET_MISMATCH" /\ ledgerNet # available + locked}

\* docs/ARCHITECTURE.md, SLOs: ledger reconciliation mismatch zero.  The job
\* that reconciles every five minutes finds nothing (celery_app.py:34).
LedgerReconciles == Mismatches = {}
==============================================================================
