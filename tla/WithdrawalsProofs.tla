-------------------------- MODULE WithdrawalsProofs --------------------------
(***************************************************************************)
(* Theorems about Withdrawals for every set of withdrawals, deposits,      *)
(* orders and admin sessions, every amount, fee, threshold and number of   *)
(* confirmations, checked by TLAPS.                                        *)
(***************************************************************************)
EXTENDS Withdrawals, SumTheorems, TLAPS

WithdrawalRow == [status : WithdrawalStatus, amount : Nat, approved : BOOLEAN]
DepositRow    == [status : {"NONE", "PENDING", "COMPLETED"}, amount : Nat, confirmations : Nat]
Ids           == WithdrawalIds \cup DepositIds

\* A withdrawal stands approved only if somebody approved it, and nothing has
\* been sent for one that does not exist: what AdminGate needs of the states
\* before the broadcast.
ApprovalRecorded ==
    \A w \in WithdrawalIds :
        /\ withdrawals[w].status = "APPROVED" => withdrawals[w].approved
        /\ withdrawals[w].status = "NONE" => chainTxs[w] = 0

-----------------------------------------------------------------------------
(* Rows and postings.                                                      *)

\* Replacing the status of a row leaves its other columns alone.
LEMMA SetWithdrawalStatus ==
    ASSUME NEW f \in [WithdrawalIds -> WithdrawalRow], NEW w \in WithdrawalIds,
           NEW st \in WithdrawalStatus
    PROVE  LET g == [f EXCEPT ![w].status = st]
           IN  /\ g \in [WithdrawalIds -> WithdrawalRow]
               /\ g[w].status = st /\ g[w].amount = f[w].amount
               /\ g[w].approved = f[w].approved
               /\ \A x \in WithdrawalIds \ {w} : g[x] = f[x]
BY DEF WithdrawalRow

\* What one ledger posting changes.
LEMMA PostEffect ==
    ASSUME NEW id \in Ids, NEW t \in EntryTypes, NEW net \in Int,
           postings \in [Ids -> [EntryTypes -> Nat]], ledgerNet \in Int, Post(id, t, net)
    PROVE  /\ postings' \in [Ids -> [EntryTypes -> Nat]]
           /\ ledgerNet' \in Int
           /\ postings'[id][t] = postings[id][t] + 1
           /\ \A x \in Ids, u \in EntryTypes :
                x # id \/ u # t => postings'[x][u] = postings[x][u]
<1>1. /\ postings' = [postings EXCEPT ![id][t] = @ + 1]
      /\ ledgerNet' = ledgerNet + net
  BY DEF Post
<1>2. postings[id] \in [EntryTypes -> Nat]
  OBVIOUS
<1>3. postings[id][t] + 1 \in Nat
  BY <1>2
<1> QED
  BY <1>1, <1>2, <1>3

\* min(locked, amount) lies between nothing and what is locked.
LEMMA ReleasableNat ==
    ASSUME NEW amount \in Nat, locked \in Nat
    PROVE  /\ Releasable(amount) \in Nat
           /\ Releasable(amount) <= locked /\ Releasable(amount) <= amount
BY DEF Releasable

LEMMA OwnPartNat ==
    ASSUME NEW o \in OrderIds, NEW release \in Nat, reserves[o] \in Nat
    PROVE  /\ OwnPart(o, release) \in Nat
           /\ OwnPart(o, release) <= release /\ OwnPart(o, release) <= reserves[o]
BY DEF OwnPart

-----------------------------------------------------------------------------
(* Types.                                                                  *)

LEMMA TypeInit == Init => TypeOK
BY DEF Init, TypeOK, EntryTypes, WithdrawalStatus

\* The part of TypeOK that is about rows, in this module's terms.
LEMMA RowTypes ==
    TypeOK <=> /\ available \in Nat /\ locked \in Nat
               /\ withdrawals \in [WithdrawalIds -> WithdrawalRow]
               /\ deposits \in [DepositIds -> DepositRow]
               /\ reserves \in [OrderIds -> Nat]
               /\ releases \in [OrderIds -> 0..2] /\ overdrawn \in Nat
               /\ chainTxs \in [WithdrawalIds -> Nat]
               /\ approvals \subseteq Admins \X WithdrawalIds
               /\ postings \in [Ids -> [EntryTypes -> Nat]]
               /\ ledgerNet \in Int
               /\ overwritten \subseteq WithdrawalIds
BY DEF TypeOK, WithdrawalRow, DepositRow, Ids

LEMMA ConfirmDepositType ==
    ASSUME TypeOK, NEW d \in DepositIds, NEW n \in ConfirmSteps, ConfirmDeposit(d, n)
    PROVE  TypeOK'
<1>1. n \in Nat
  BY ConfirmationsAssumption
<1>2. deposits[d].amount \in Nat /\ ConfirmationsAfter(d, n) \in Nat
  BY <1>1, RowTypes DEF DepositRow, ConfirmationsAfter
<1>3. CASE AwaitMore(d, n)
  BY <1>2, <1>3 DEF TypeOK, ConfirmDeposit, AwaitMore, walletVars, ledgerVars, orderVars
<1>4. CASE CreditDeposit(d, n)
  <2>1. postings' \in [Ids -> [EntryTypes -> Nat]] /\ ledgerNet' \in Int
    <3>1. d \in Ids /\ "DEPOSIT_CREDIT" \in EntryTypes /\ deposits[d].amount \in Int
      BY <1>2 DEF Ids, EntryTypes
    <3> QED
      BY <1>4, <3>1, PostEffect, RowTypes DEF CreditDeposit
  <2>2. deposits' \in [DepositIds -> DepositRow]
    <3> DEFINE row == [deposits[d] EXCEPT !.confirmations = ConfirmationsAfter(d, n),
                                          !.status = "COMPLETED"]
    <3>1. row \in DepositRow
      BY <1>2, RowTypes DEF DepositRow
    <3>2. deposits' = [deposits EXCEPT ![d] = row]
      BY <1>4 DEF CreditDeposit
    <3> QED
      BY <3>1, <3>2, RowTypes
  <2>3. available' \in Nat
    BY <1>2, <1>4 DEF TypeOK, CreditDeposit
  <2> QED
    BY <1>4, <2>1, <2>2, <2>3 DEF ConfirmDeposit, CreditDeposit, TypeOK, DepositRow, Ids, orderVars
<1> QED
  BY <1>3, <1>4 DEF ConfirmDeposit

LEMMA WithdrawalTypes ==
    ASSUME TypeOK, NEW w \in WithdrawalIds,
           \/ \E amount \in Amounts : CreateWithdrawal(w, amount)
           \/ BroadcastWithdrawal(w) \/ CancelWithdrawal(w) \/ CompleteWithdrawal(w)
    PROVE  TypeOK'
<1>1. Amounts \subseteq Nat /\ withdrawals[w].amount \in Nat /\ w \in Ids
  BY AmountsAssumption, RowTypes DEF WithdrawalRow, Ids
<1>2. /\ {"WITHDRAWAL_RESERVE", "WITHDRAWAL_RELEASE", "WITHDRAWAL_COMPLETE"} \subseteq EntryTypes
      /\ {"PENDING", "BROADCAST", "CANCELLED", "COMPLETED"} \subseteq WithdrawalStatus
  BY DEF EntryTypes, WithdrawalStatus
<1>3. ASSUME NEW amount \in Amounts, CreateWithdrawal(w, amount) PROVE TypeOK'
  <2>1. postings' \in [Ids -> [EntryTypes -> Nat]] /\ ledgerNet' \in Int
    <3>1. 0 - amount \in Int
      BY <1>1
    <3> QED
      BY <1>1, <1>2, <1>3, <3>1, PostEffect, RowTypes DEF CreateWithdrawal
  <2>2. available' \in Nat /\ locked' \in Nat
    BY <1>1, <1>3 DEF CreateWithdrawal, TypeOK
  <2>3. withdrawals' \in [WithdrawalIds -> WithdrawalRow]
    <3>1. [status |-> "PENDING", amount |-> amount, approved |-> FALSE] \in WithdrawalRow
      BY <1>1, <1>2 DEF WithdrawalRow
    <3> QED
      BY <1>3, <3>1, RowTypes DEF CreateWithdrawal
  <2> QED
    BY <1>3, <2>1, <2>2, <2>3 DEF CreateWithdrawal, TypeOK, WithdrawalRow, Ids, orderVars
<1>4. CASE BroadcastWithdrawal(w)
  <2>1. withdrawals' \in [WithdrawalIds -> WithdrawalRow]
    BY <1>2, <1>4, SetWithdrawalStatus, RowTypes DEF BroadcastWithdrawal
  <2>2. chainTxs' \in [WithdrawalIds -> Nat]
    BY <1>4 DEF BroadcastWithdrawal, TypeOK
  <2> QED
    BY <1>4, <2>1, <2>2 DEF BroadcastWithdrawal, TypeOK, WithdrawalRow, walletVars, ledgerVars, orderVars
<1>5. CASE CancelWithdrawal(w)
  <2> DEFINE release == Releasable(withdrawals[w].amount)
  <2>1. release \in Nat /\ release <= locked
    BY <1>1, ReleasableNat DEF TypeOK
  <2>2. /\ locked' = locked - release /\ available' = available + release
        /\ withdrawals' = [withdrawals EXCEPT ![w].status = "CANCELLED"]
        /\ Post(w, "WITHDRAWAL_RELEASE", release)
        /\ UNCHANGED <<deposits, orderVars, chainTxs, approvals, overwritten>>
    BY <1>5 DEF CancelWithdrawal
  <2> HIDE DEF release
  <2>3. postings' \in [Ids -> [EntryTypes -> Nat]] /\ ledgerNet' \in Int
    <3>1. release \in Int
      BY <2>1
    <3> QED
      BY <1>1, <1>2, <2>2, <3>1, PostEffect, RowTypes
  <2>4. withdrawals' \in [WithdrawalIds -> WithdrawalRow]
    BY <1>2, <2>2, SetWithdrawalStatus, RowTypes
  <2>5. available' \in Nat /\ locked' \in Nat
    BY <2>1, <2>2 DEF TypeOK
  <2> QED
    BY <2>2, <2>3, <2>4, <2>5 DEF TypeOK, WithdrawalRow, Ids, orderVars
<1>6. CASE CompleteWithdrawal(w)
  <2>1. postings' \in [Ids -> [EntryTypes -> Nat]] /\ ledgerNet' \in Int
    <3>1. 0 - withdrawals[w].amount \in Int
      BY <1>1
    <3> QED
      BY <1>1, <1>2, <1>6, <3>1, PostEffect, RowTypes DEF CompleteWithdrawal
  <2>2. withdrawals' \in [WithdrawalIds -> WithdrawalRow]
    BY <1>2, <1>6, SetWithdrawalStatus, RowTypes DEF CompleteWithdrawal
  <2>3. locked' \in Nat
    BY <1>1, <1>6 DEF CompleteWithdrawal, TypeOK
  <2> QED
    BY <1>6, <2>1, <2>2, <2>3 DEF CompleteWithdrawal, TypeOK, WithdrawalRow, Ids, orderVars
<1> QED
  BY <1>3, <1>4, <1>5, <1>6

LEMMA ApprovalTypes ==
    ASSUME TypeOK, NEW admin \in Admins, NEW w \in WithdrawalIds,
           ApproveRead(admin, w) \/ ApproveCommit(admin, w) \/ ApproveLost(admin, w)
    PROVE  TypeOK'
<1>1. CASE ApproveRead(admin, w)
  BY <1>1 DEF ApproveRead, TypeOK, walletVars, ledgerVars, orderVars
<1>2. CASE ApproveCommit(admin, w)
  <2> DEFINE f == [withdrawals EXCEPT ![w].status = "APPROVED"]
  <2>1. f \in [WithdrawalIds -> WithdrawalRow]
    <3>1. "APPROVED" \in WithdrawalStatus
      BY DEF WithdrawalStatus
    <3> QED
      BY <3>1, SetWithdrawalStatus, RowTypes
  <2>2. withdrawals' = [f EXCEPT ![w].approved = TRUE]
    BY <1>2, RowTypes DEF ApproveCommit, WithdrawalRow
  <2> HIDE DEF f
  <2>3. withdrawals' \in [WithdrawalIds -> WithdrawalRow]
    BY <2>1, <2>2 DEF WithdrawalRow
  <2> QED
    BY <1>2, <2>3 DEF ApproveCommit, TypeOK, WithdrawalRow, walletVars, ledgerVars, orderVars
<1>3. CASE ApproveLost(admin, w)
  BY <1>3 DEF ApproveLost, TypeOK, walletVars, ledgerVars, orderVars
<1> QED
  BY <1>1, <1>2, <1>3

LEMMA OrderTypes ==
    ASSUME TypeOK, NEW o \in OrderIds, NEW amount \in Amounts,
           ReserveOrderFunds(o, amount) \/ ReleaseOrderFunds(o, amount)
    PROVE  TypeOK'
<1>1. amount \in Nat /\ reserves[o] \in Nat
  BY AmountsAssumption DEF TypeOK
<1>2. CASE ReserveOrderFunds(o, amount)
  BY <1>1, <1>2 DEF ReserveOrderFunds, TypeOK
<1>3. CASE ReleaseOrderFunds(o, amount)
  <2> DEFINE release == Releasable(amount)
             own == OwnPart(o, release)
  <2>1. release \in Nat /\ release <= locked
    BY <1>1, ReleasableNat DEF TypeOK
  <2>2. own \in Nat /\ own <= release /\ own <= reserves[o]
    BY <1>1, <2>1, OwnPartNat
  <2>3. /\ locked' = locked - release /\ available' = available + release
        /\ reserves' = [reserves EXCEPT ![o] = reserves[o] - own]
        /\ releases' = [releases EXCEPT ![o] = releases[o] + 1] /\ releases[o] < 2
        /\ overdrawn' = overdrawn + (release - own)
        /\ ledgerNet' = ledgerNet + release
        /\ UNCHANGED <<withdrawals, deposits, chainTxs, approvals, postings, overwritten>>
    BY <1>3 DEF ReleaseOrderFunds
  <2> HIDE DEF own, release
  <2>4. reserves[o] - own \in Nat /\ release - own \in Nat /\ releases[o] + 1 \in 0..2
    BY <1>1, <2>1, <2>2, <2>3 DEF TypeOK
  <2> QED
    BY <2>1, <2>3, <2>4 DEF TypeOK
<1> QED
  BY <1>2, <1>3

LEMMA TypeStep == TypeOK /\ [Next]_vars => TypeOK'
<1> SUFFICES ASSUME TypeOK, [Next]_vars PROVE TypeOK'
  OBVIOUS
<1>1. ASSUME NEW d \in DepositIds, NEW amount \in Amounts, NEW n \in ConfirmSteps \cup {0},
             CreateMockDeposit(d, amount, n)
      PROVE  TypeOK'
  <2>1. amount \in Nat /\ n \in Nat
    BY AmountsAssumption, ConfirmationsAssumption
  <2> QED
    BY <1>1, <2>1 DEF TypeOK, CreateMockDeposit, walletVars, ledgerVars, orderVars
<1>2. CASE UNCHANGED vars
  BY <1>2 DEF TypeOK, vars, walletVars, ledgerVars, orderVars
<1> QED
  BY <1>1, <1>2, ConfirmDepositType, WithdrawalTypes, ApprovalTypes, OrderTypes DEF Next

\* For any amounts, fee and interleaving of handlers: no balance of the wallet
\* becomes negative and every row keeps its type (wallets.py; the CHECK
\* constraints of models/wallet.py never fire).
THEOREM TypeCorrect == Spec => []TypeOK
BY TypeInit, TypeStep, PTL DEF Spec

-----------------------------------------------------------------------------
(* What a step can do to one withdrawal.                                   *)

Released(w)  == postings[w]["WITHDRAWAL_RELEASE"]
Completed(w) == postings[w]["WITHDRAWAL_COMPLETE"]

SameRow(w)      == withdrawals'[w] = withdrawals[w]
SamePostings(w) == Released(w)' = Released(w) /\ Completed(w)' = Completed(w)
SameChain(w)    == chainTxs'[w] = chainTxs[w]

\* The row moves from one of the statuses in "from" to the status "to".
Moves(w, from, to) ==
    /\ withdrawals[w].status \in from /\ withdrawals'[w].status = to
    /\ withdrawals'[w].amount = withdrawals[w].amount
    /\ withdrawals'[w].approved = withdrawals[w].approved

Untouched(w)    == SameRow(w) /\ SamePostings(w) /\ SameChain(w)
Created(w)      == /\ withdrawals[w].status = "NONE" /\ withdrawals'[w].status = "PENDING"
                   /\ SamePostings(w) /\ SameChain(w)
ApprovedNow(w)  == /\ withdrawals'[w].status = "APPROVED" /\ withdrawals'[w].approved
                   /\ withdrawals'[w].amount = withdrawals[w].amount
                   /\ withdrawals[w].status \in {"PENDING", "APPROVED"} \/ w \in overwritten'
                   /\ SamePostings(w) /\ SameChain(w)
BroadcastNow(w) == /\ Moves(w, {"PENDING", "APPROVED"}, "BROADCAST")
                   /\ RequiresAdmin(w) => withdrawals[w].status = "APPROVED"
                   /\ SamePostings(w) /\ chainTxs'[w] = chainTxs[w] + 1
CancelledNow(w) == /\ Moves(w, {"PENDING", "APPROVED"}, "CANCELLED") /\ SameChain(w)
                   /\ Released(w)' = Released(w) + 1 /\ Completed(w)' = Completed(w)
CompletedNow(w) == /\ Moves(w, {"BROADCAST"}, "COMPLETED") /\ SameChain(w)
                   /\ Released(w)' = Released(w) /\ Completed(w)' = Completed(w) + 1

\* The effect of any step on any withdrawal.
Effect(w) ==
    /\ overwritten \subseteq overwritten'
    /\ \/ Untouched(w) \/ Created(w) \/ ApprovedNow(w)
       \/ BroadcastNow(w) \/ CancelledNow(w) \/ CompletedNow(w)

\* A posting about something else, or of another type, leaves a withdrawal's
\* releases and completions alone.
LEMMA PostElsewhere ==
    ASSUME TypeOK, NEW id \in Ids, NEW t \in EntryTypes, NEW net \in Int, Post(id, t, net),
           NEW w \in WithdrawalIds,
           w # id \/ t \notin {"WITHDRAWAL_RELEASE", "WITHDRAWAL_COMPLETE"}
    PROVE  SamePostings(w)
<1>1. w \in Ids /\ {"WITHDRAWAL_RELEASE", "WITHDRAWAL_COMPLETE"} \subseteq EntryTypes
  BY DEF Ids, EntryTypes
<1>2. \A x \in Ids, u \in EntryTypes :
        x # id \/ u # t => postings'[x][u] = postings[x][u]
  BY PostEffect, RowTypes
<1> QED
  BY <1>1, <1>2 DEF SamePostings, Released, Completed

LEMMA CreateEffect ==
    ASSUME TypeOK, NEW w \in WithdrawalIds, NEW amount \in Amounts, CreateWithdrawal(w, amount),
           NEW x \in WithdrawalIds
    PROVE  Effect(x)
<1>1. 0 - amount \in Int /\ w \in Ids /\ "WITHDRAWAL_RESERVE" \in EntryTypes
  BY AmountsAssumption DEF Ids, EntryTypes
<1>2. SamePostings(x)
  BY <1>1, PostElsewhere DEF CreateWithdrawal
<1>3. SameChain(x) /\ overwritten' = overwritten
  BY DEF CreateWithdrawal, SameChain
<1>4. x # w => SameRow(x)
  BY RowTypes DEF CreateWithdrawal, SameRow
<1>5. x = w => withdrawals[x].status = "NONE" /\ withdrawals'[x].status = "PENDING"
  BY RowTypes DEF CreateWithdrawal
<1> QED
  BY <1>2, <1>3, <1>4, <1>5 DEF Effect, Untouched, Created

LEMMA ApproveEffect ==
    ASSUME TypeOK, NEW admin \in Admins, NEW w \in WithdrawalIds, ApproveCommit(admin, w),
           NEW x \in WithdrawalIds
    PROVE  Effect(x)
<1>1. SamePostings(x) /\ SameChain(x)
  BY DEF ApproveCommit, SamePostings, Released, Completed, SameChain, ledgerVars
<1>2. x # w => SameRow(x)
  BY RowTypes DEF ApproveCommit, SameRow
<1>3. x = w => /\ withdrawals'[x].status = "APPROVED" /\ withdrawals'[x].approved
               /\ withdrawals'[x].amount = withdrawals[x].amount
  BY RowTypes DEF ApproveCommit, WithdrawalRow
<1>4. /\ overwritten \subseteq overwritten'
      /\ withdrawals[w].status \in {"PENDING", "APPROVED"} \/ w \in overwritten'
  BY DEF ApproveCommit
<1> QED
  BY <1>1, <1>2, <1>3, <1>4 DEF Effect, Untouched, ApprovedNow

LEMMA BroadcastEffect ==
    ASSUME TypeOK, NEW w \in WithdrawalIds, BroadcastWithdrawal(w), NEW x \in WithdrawalIds
    PROVE  Effect(x)
<1>1. SamePostings(x) /\ overwritten' = overwritten
  BY DEF BroadcastWithdrawal, SamePostings, Released, Completed, ledgerVars
<1>2. x # w => SameRow(x) /\ SameChain(x)
  BY RowTypes DEF BroadcastWithdrawal, SameRow, SameChain
<1>3. x = w => chainTxs'[x] = chainTxs[x] + 1
  BY RowTypes DEF BroadcastWithdrawal
<1>4. x = w => Moves(x, {"PENDING", "APPROVED"}, "BROADCAST")
  <2>1. "BROADCAST" \in WithdrawalStatus
    BY DEF WithdrawalStatus
  <2> QED
    BY <2>1, SetWithdrawalStatus, RowTypes DEF BroadcastWithdrawal, CanBroadcast, Moves
<1>5. RequiresAdmin(w) => withdrawals[w].status = "APPROVED"
  BY DEF BroadcastWithdrawal, CanBroadcast
<1> QED
  BY <1>1, <1>2, <1>3, <1>4, <1>5 DEF Effect, Untouched, BroadcastNow

LEMMA CancelEffect ==
    ASSUME TypeOK, NEW w \in WithdrawalIds, CancelWithdrawal(w), NEW x \in WithdrawalIds
    PROVE  Effect(x)
<1> DEFINE release == Releasable(withdrawals[w].amount)
<1>1. release \in Int
  BY ReleasableNat, RowTypes DEF WithdrawalRow
<1>2. Post(w, "WITHDRAWAL_RELEASE", release) /\ UNCHANGED <<chainTxs, overwritten>>
  BY DEF CancelWithdrawal
<1> HIDE DEF release
<1>3. w \in Ids /\ {"WITHDRAWAL_RELEASE", "WITHDRAWAL_COMPLETE"} \subseteq EntryTypes
  BY DEF Ids, EntryTypes
<1>4. x # w => SamePostings(x)
  BY <1>1, <1>2, <1>3, PostElsewhere
<1>5. x = w => Released(x)' = Released(x) + 1 /\ Completed(x)' = Completed(x)
  BY <1>1, <1>2, <1>3, PostEffect, RowTypes DEF Released, Completed
<1>6. x # w => SameRow(x)
  BY RowTypes DEF CancelWithdrawal, SameRow
<1>7. x = w => Moves(x, {"PENDING", "APPROVED"}, "CANCELLED")
  <2>1. "CANCELLED" \in WithdrawalStatus
    BY DEF WithdrawalStatus
  <2> QED
    BY <2>1, SetWithdrawalStatus, RowTypes DEF CancelWithdrawal, CanCancel, Moves
<1> QED
  BY <1>2, <1>4, <1>5, <1>6, <1>7 DEF Effect, Untouched, CancelledNow, SameChain

LEMMA CompleteEffect ==
    ASSUME TypeOK, NEW w \in WithdrawalIds, CompleteWithdrawal(w), NEW x \in WithdrawalIds
    PROVE  Effect(x)
<1>1. 0 - withdrawals[w].amount \in Int
  BY RowTypes DEF WithdrawalRow
<1>2. /\ Post(w, "WITHDRAWAL_COMPLETE", 0 - withdrawals[w].amount)
      /\ UNCHANGED <<chainTxs, overwritten>>
  BY DEF CompleteWithdrawal
<1>3. w \in Ids /\ {"WITHDRAWAL_RELEASE", "WITHDRAWAL_COMPLETE"} \subseteq EntryTypes
  BY DEF Ids, EntryTypes
<1>4. x # w => SamePostings(x)
  BY <1>1, <1>2, <1>3, PostElsewhere
<1>5. x = w => Released(x)' = Released(x) /\ Completed(x)' = Completed(x) + 1
  BY <1>1, <1>2, <1>3, PostEffect, RowTypes DEF Released, Completed
<1>6. x # w => SameRow(x)
  BY RowTypes DEF CompleteWithdrawal, SameRow
<1>7. x = w => Moves(x, {"BROADCAST"}, "COMPLETED")
  <2>1. "COMPLETED" \in WithdrawalStatus
    BY DEF WithdrawalStatus
  <2> QED
    BY <2>1, SetWithdrawalStatus, RowTypes DEF CompleteWithdrawal, Moves
<1> QED
  BY <1>2, <1>4, <1>5, <1>6, <1>7 DEF Effect, Untouched, CompletedNow, SameChain

\* Every other action leaves every withdrawal alone.
LEMMA StepEffect ==
    ASSUME TypeOK, [Next]_vars, NEW x \in WithdrawalIds
    PROVE  Effect(x)
<1>1. ASSUME UNCHANGED <<withdrawals, chainTxs, postings, overwritten>> PROVE Effect(x)
  BY <1>1 DEF Effect, Untouched, SameRow, SamePostings, SameChain, Released, Completed
<1>2. ASSUME NEW d \in DepositIds, NEW n \in ConfirmSteps, ConfirmDeposit(d, n)
      PROVE  Effect(x)
  <2>1. UNCHANGED <<withdrawals, chainTxs, overwritten>>
    BY <1>2 DEF ConfirmDeposit
  <2>2. CASE AwaitMore(d, n)
    BY <1>1, <2>1, <2>2 DEF AwaitMore, ledgerVars
  <2>3. CASE CreditDeposit(d, n)
    <3>1. deposits[d].amount \in Int /\ d \in Ids /\ "DEPOSIT_CREDIT" \in EntryTypes
      BY RowTypes DEF DepositRow, Ids, EntryTypes
    <3>2. SamePostings(x)
      BY <2>3, <3>1, PostElsewhere, IdsAssumption DEF CreditDeposit
    <3> QED
      BY <2>1, <3>2 DEF Effect, Untouched, SameRow, SameChain
  <2> QED
    BY <1>2, <2>2, <2>3 DEF ConfirmDeposit
<1> QED
  BY <1>1, <1>2, CreateEffect, ApproveEffect, BroadcastEffect, CancelEffect, CompleteEffect
     DEF Next, CreateMockDeposit, ApproveRead, ApproveLost, ReserveOrderFunds,
         ReleaseOrderFunds, vars, walletVars, ledgerVars

-----------------------------------------------------------------------------
(* The safety theorems.                                                    *)

\* For any threshold and any race of administrators, users and broadcasts, a
\* withdrawal that needs an administrator is never sent to the chain without
\* an approval (wallets.py, broadcast_withdrawal).
THEOREM NeverUnapproved == Spec => []AdminGate
<1> DEFINE Inv == ApprovalRecorded /\ AdminGate
<1>1. Init => Inv
  BY DEF Init, ApprovalRecorded, AdminGate
<1>2. TypeOK /\ Inv /\ [Next]_vars => Inv'
  <2> SUFFICES ASSUME TypeOK, Inv, [Next]_vars, NEW w \in WithdrawalIds
               PROVE  /\ withdrawals'[w].status = "APPROVED" => withdrawals'[w].approved
                      /\ withdrawals'[w].status = "NONE" => chainTxs'[w] = 0
                      /\ chainTxs'[w] > 0 /\ RequiresAdmin(w)' => withdrawals'[w].approved
    BY DEF ApprovalRecorded, AdminGate
  <2>1. Effect(w)
    BY StepEffect
  <2>2. /\ withdrawals[w].status = "APPROVED" => withdrawals[w].approved
        /\ withdrawals[w].status = "NONE" => chainTxs[w] = 0
        /\ chainTxs[w] > 0 /\ RequiresAdmin(w) => withdrawals[w].approved
    BY DEF ApprovalRecorded, AdminGate
  <2> QED
    BY <2>1, <2>2 DEF Effect, Untouched, SameRow, SameChain, Created, ApprovedNow,
                      BroadcastNow, CancelledNow, CompletedNow, Moves, RequiresAdmin
<1>3. Inv => AdminGate
  OBVIOUS
<1> QED
  BY <1>1, <1>2, <1>3, TypeInit, TypeStep, PTL DEF Spec

\* A withdrawal that no stale approval revived is released or paid, once and
\* not both, and has been sent to the chain exactly when it says so (wallets.py,
\* cancel_withdrawal, broadcast_withdrawal, complete_withdrawal).
THEOREM ReleasedOrPaidOnce == Spec => []EndsOnce
<1>1. Init => EndsOnce
  BY DEF Init, EndsOnce, Posted, EntryTypes
<1>2. TypeOK /\ EndsOnce /\ [Next]_vars => EndsOnce'
  <2> SUFFICES ASSUME TypeOK, EndsOnce, [Next]_vars,
                      NEW w \in WithdrawalIds, w \notin overwritten'
               PROVE  /\ Released(w)' = IF withdrawals'[w].status = "CANCELLED" THEN 1 ELSE 0
                      /\ Completed(w)' = IF withdrawals'[w].status = "COMPLETED" THEN 1 ELSE 0
                      /\ chainTxs'[w] = IF withdrawals'[w].status \in {"BROADCAST", "COMPLETED"}
                                        THEN 1 ELSE 0
    BY DEF EndsOnce, Posted, Released, Completed
  <2>1. Effect(w) /\ w \notin overwritten
    BY StepEffect DEF Effect
  <2>2. /\ Released(w) = IF withdrawals[w].status = "CANCELLED" THEN 1 ELSE 0
        /\ Completed(w) = IF withdrawals[w].status = "COMPLETED" THEN 1 ELSE 0
        /\ chainTxs[w] = IF withdrawals[w].status \in {"BROADCAST", "COMPLETED"} THEN 1 ELSE 0
    BY <2>1 DEF EndsOnce, Posted, Released, Completed
  <2> QED
    BY <2>1, <2>2 DEF Effect, Untouched, SameRow, SamePostings, SameChain, Created, ApprovedNow,
                      BroadcastNow, CancelledNow, CompletedNow, Moves
<1> QED
  BY <1>1, <1>2, TypeInit, TypeStep, PTL DEF Spec

-----------------------------------------------------------------------------
(* Deposits and sums of money.                                             *)

Credits  == [d \in DepositIds |-> Credited(d)]
Payouts  == [w \in WithdrawalIds |-> PaidOut(w)]
OpenRows == [w \in WithdrawalIds |-> OpenAmount(w)]

\* Nothing has been paid out for a withdrawal that does not exist: its amount
\* is still free to be chosen.
NotPaidBefore == \A w \in WithdrawalIds : withdrawals[w].status = "NONE" => Completed(w) = 0

\* The sums are of natural numbers over finite sets.
LEMMA MoneyTypes ==
    ASSUME TypeOK
    PROVE  /\ Ints(Credits, DepositIds) /\ Ints(Payouts, WithdrawalIds)
           /\ \A w \in WithdrawalIds : OpenRows[w] \in Nat
           /\ \A o \in OrderIds : reserves[o] \in Nat
           /\ DOMAIN reserves = OrderIds
<1>1. \A d \in DepositIds : Credits[d] \in Int
  BY RowTypes DEF Credits, Credited, DepositRow
<1>2. \A w \in WithdrawalIds : Payouts[w] \in Int
  <2> SUFFICES ASSUME NEW w \in WithdrawalIds PROVE Payouts[w] \in Int
    OBVIOUS
  <2>1. Completed(w) \in Nat /\ withdrawals[w].amount \in Nat
    BY RowTypes DEF Completed, WithdrawalRow, Ids, EntryTypes
  <2>2. Payouts[w] = Completed(w) * withdrawals[w].amount
    BY DEF Payouts, PaidOut, Posted, Completed
  <2> QED
    BY <2>1, <2>2
<1>3. \A w \in WithdrawalIds : OpenRows[w] \in Nat
  BY RowTypes DEF OpenRows, OpenAmount, WithdrawalRow
<1> QED
  BY <1>1, <1>2, <1>3, RowTypes DEF Ints

\* The two properties about money, on sums over sets.
LEMMA MoneyForms ==
    /\ FundsConserved <=> available + locked = SumFunctionOnSet(Credits, DepositIds)
                                                - SumFunctionOnSet(Payouts, WithdrawalIds)
    /\ TypeOK => Reserved = SumFunctionOnSet(OpenRows, WithdrawalIds)
                             + SumFunctionOnSet(reserves, OrderIds)
<1>1. SumFunction(Credits) = SumFunctionOnSet(Credits, DepositIds)
  BY SumWhole DEF Credits
<1>2. SumFunction(Payouts) = SumFunctionOnSet(Payouts, WithdrawalIds)
  BY SumWhole DEF Payouts
<1>3. SumFunction(OpenRows) = SumFunctionOnSet(OpenRows, WithdrawalIds)
  BY SumWhole DEF OpenRows
<1>4. TypeOK => SumFunction(reserves) = SumFunctionOnSet(reserves, OrderIds)
  BY SumWhole, MoneyTypes
<1> QED
  BY <1>1, <1>2, <1>3, <1>4 DEF FundsConserved, Reserved, Credits, Payouts, OpenRows

\* A step that credits no deposit leaves the deposits' side of the books alone.
SameDeposits ==
    \A d \in DepositIds :
        /\ Credited(d)' = Credited(d)
        /\ deposits'[d].status = "COMPLETED" <=> deposits[d].status = "COMPLETED"
        /\ postings'[d]["DEPOSIT_CREDIT"] = postings[d]["DEPOSIT_CREDIT"]

\* A posting for a withdrawal credits no deposit.
LEMMA PostForWithdrawal ==
    ASSUME TypeOK, NEW w \in WithdrawalIds, NEW t \in EntryTypes, NEW net \in Int,
           Post(w, t, net), UNCHANGED deposits
    PROVE  SameDeposits
<1>1. "DEPOSIT_CREDIT" \in EntryTypes /\ DepositIds \subseteq Ids /\ w \in Ids
  BY DEF EntryTypes, Ids
<1>2. \A d \in DepositIds : d # w
  BY IdsAssumption
<1>3. \A x \in Ids, u \in EntryTypes :
        x # w \/ u # t => postings'[x][u] = postings[x][u]
  BY <1>1, PostEffect, RowTypes
<1> QED
  BY <1>1, <1>2, <1>3 DEF SameDeposits, Credited

\* What a step does to the deposits: nothing that counts, or one is credited.
CreditedNow(d) ==
    /\ available' = available + deposits[d].amount /\ locked' = locked
    /\ UNCHANGED <<withdrawals, orderVars, chainTxs, approvals, overwritten>>
    /\ deposits[d].status = "PENDING" /\ deposits'[d].status = "COMPLETED"
    /\ deposits'[d].amount = deposits[d].amount
    /\ postings'[d]["DEPOSIT_CREDIT"] = postings[d]["DEPOSIT_CREDIT"] + 1
    /\ \A e \in DepositIds \ {d} :
         /\ deposits'[e] = deposits[e]
         /\ postings'[e]["DEPOSIT_CREDIT"] = postings[e]["DEPOSIT_CREDIT"]
    /\ \A w \in WithdrawalIds : Completed(w)' = Completed(w)

LEMMA CreditEffect ==
    ASSUME TypeOK, NEW d \in DepositIds, NEW n \in ConfirmSteps, CanConfirm(d),
           CreditDeposit(d, n), UNCHANGED <<withdrawals, orderVars, chainTxs, approvals, overwritten>>
    PROVE  CreditedNow(d)
<1>1. deposits[d].amount \in Int /\ d \in Ids
      /\ {"DEPOSIT_CREDIT", "WITHDRAWAL_COMPLETE"} \subseteq EntryTypes
      /\ DepositIds \subseteq Ids /\ WithdrawalIds \subseteq Ids
  BY RowTypes DEF DepositRow, Ids, EntryTypes
<1>2. Post(d, "DEPOSIT_CREDIT", deposits[d].amount)
  BY DEF CreditDeposit
<1>3. /\ postings'[d]["DEPOSIT_CREDIT"] = postings[d]["DEPOSIT_CREDIT"] + 1
      /\ \A x \in Ids, u \in EntryTypes :
           x # d \/ u # "DEPOSIT_CREDIT" => postings'[x][u] = postings[x][u]
  BY <1>1, <1>2, PostEffect, RowTypes
<1>4. /\ deposits[d].status = "PENDING" /\ deposits'[d].status = "COMPLETED"
      /\ deposits'[d].amount = deposits[d].amount
      /\ \A e \in DepositIds \ {d} : deposits'[e] = deposits[e]
  BY RowTypes DEF CreditDeposit, CanConfirm, DepositRow
<1>5. available' = available + deposits[d].amount /\ locked' = locked
  BY DEF CreditDeposit
<1> QED
  BY <1>1, <1>3, <1>4, <1>5 DEF CreditedNow, Completed

LEMMA DepositStep ==
    ASSUME TypeOK, [Next]_vars
    PROVE  SameDeposits \/ \E d \in DepositIds : CreditedNow(d)
<1>1. ASSUME UNCHANGED <<deposits, postings>> PROVE SameDeposits
  BY <1>1 DEF SameDeposits, Credited
<1>2. ASSUME NEW d \in DepositIds, NEW amount \in Amounts, NEW n \in ConfirmSteps \cup {0},
             CreateMockDeposit(d, amount, n)
      PROVE  SameDeposits
  <2>1. /\ deposits[d].status = "NONE" /\ deposits'[d].status = "PENDING"
        /\ \A e \in DepositIds \ {d} : deposits'[e] = deposits[e]
    BY <1>2, RowTypes DEF CreateMockDeposit
  <2>2. UNCHANGED postings
    BY <1>2 DEF CreateMockDeposit, ledgerVars
  <2> QED
    BY <2>1, <2>2 DEF SameDeposits, Credited
<1>3. ASSUME NEW d \in DepositIds, NEW n \in ConfirmSteps, ConfirmDeposit(d, n), AwaitMore(d, n)
      PROVE  SameDeposits
  <2>1. /\ deposits'[d].status = deposits[d].status /\ deposits'[d].amount = deposits[d].amount
        /\ \A e \in DepositIds \ {d} : deposits'[e] = deposits[e]
    BY <1>3, RowTypes DEF AwaitMore, DepositRow
  <2>2. UNCHANGED postings
    BY <1>3 DEF AwaitMore, ledgerVars
  <2> QED
    BY <2>1, <2>2 DEF SameDeposits, Credited
<1>4. ASSUME NEW d \in DepositIds, NEW n \in ConfirmSteps, ConfirmDeposit(d, n), CreditDeposit(d, n)
      PROVE  CreditedNow(d)
  BY <1>4, CreditEffect DEF ConfirmDeposit
<1>5. ASSUME NEW w \in WithdrawalIds, NEW amount \in Amounts, CreateWithdrawal(w, amount)
      PROVE  SameDeposits
  <2>1. 0 - amount \in Int /\ "WITHDRAWAL_RESERVE" \in EntryTypes
    BY AmountsAssumption DEF EntryTypes
  <2> QED
    BY <1>5, <2>1, PostForWithdrawal DEF CreateWithdrawal
<1>6. ASSUME NEW w \in WithdrawalIds, CancelWithdrawal(w) PROVE SameDeposits
  <2>1. Releasable(withdrawals[w].amount) \in Int /\ "WITHDRAWAL_RELEASE" \in EntryTypes
    BY ReleasableNat, RowTypes DEF WithdrawalRow, EntryTypes
  <2>2. Post(w, "WITHDRAWAL_RELEASE", Releasable(withdrawals[w].amount)) /\ UNCHANGED deposits
    BY <1>6 DEF CancelWithdrawal
  <2> QED
    BY <2>1, <2>2, PostForWithdrawal
<1>7. ASSUME NEW w \in WithdrawalIds, CompleteWithdrawal(w) PROVE SameDeposits
  <2>1. 0 - withdrawals[w].amount \in Int /\ "WITHDRAWAL_COMPLETE" \in EntryTypes
    BY RowTypes DEF WithdrawalRow, EntryTypes
  <2> QED
    BY <1>7, <2>1, PostForWithdrawal DEF CompleteWithdrawal
<1>8. ASSUME NEW w \in WithdrawalIds,
             BroadcastWithdrawal(w) \/ \E admin \in Admins : \/ ApproveRead(admin, w)
                                                            \/ ApproveCommit(admin, w)
                                                            \/ ApproveLost(admin, w)
      PROVE  SameDeposits
  BY <1>1, <1>8 DEF BroadcastWithdrawal, ApproveRead, ApproveCommit, ApproveLost, ledgerVars
<1>9. ASSUME NEW o \in OrderIds, NEW amount \in Amounts,
             ReserveOrderFunds(o, amount) \/ ReleaseOrderFunds(o, amount)
      PROVE  SameDeposits
  BY <1>1, <1>9 DEF ReserveOrderFunds, ReleaseOrderFunds
<1>10. CASE UNCHANGED vars
  BY <1>1, <1>10 DEF vars, ledgerVars
<1>11. ASSUME NEW d \in DepositIds, NEW n \in ConfirmSteps, ConfirmDeposit(d, n)
       PROVE  SameDeposits \/ CreditedNow(d)
  BY <1>3, <1>4, <1>11 DEF ConfirmDeposit
<1> QED
  BY <1>2, <1>5, <1>6, <1>7, <1>8, <1>9, <1>10, <1>11 DEF Next

\* However often and in whatever order its confirmations arrive, a deposit is
\* credited to the ledger once, when it completes (wallets.py, confirm_deposit).
THEOREM CreditedOnce == Spec => []DepositCreditedOnce
<1>1. Init => DepositCreditedOnce
  BY DEF Init, DepositCreditedOnce, Posted, EntryTypes
<1>2. TypeOK /\ DepositCreditedOnce /\ [Next]_vars => DepositCreditedOnce'
  <2> SUFFICES ASSUME TypeOK, DepositCreditedOnce, [Next]_vars, NEW e \in DepositIds
               PROVE  postings'[e]["DEPOSIT_CREDIT"] =
                        IF deposits'[e].status = "COMPLETED" THEN 1 ELSE 0
    BY DEF DepositCreditedOnce, Posted
  <2>1. postings[e]["DEPOSIT_CREDIT"] = IF deposits[e].status = "COMPLETED" THEN 1 ELSE 0
    BY DEF DepositCreditedOnce, Posted
  <2>2. CASE SameDeposits
    BY <2>1, <2>2 DEF SameDeposits
  <2>3. ASSUME NEW d \in DepositIds, CreditedNow(d)
        PROVE  postings'[e]["DEPOSIT_CREDIT"] =
                 IF deposits'[e].status = "COMPLETED" THEN 1 ELSE 0
    <3>1. CASE e = d
      BY <2>1, <2>3, <3>1 DEF CreditedNow
    <3>2. CASE e # d
      BY <2>1, <2>3, <3>2 DEF CreditedNow
    <3> QED
      BY <3>1, <3>2
  <2> QED
    BY <2>2, <2>3, DepositStep
<1> QED
  BY <1>1, <1>2, TypeInit, TypeStep, PTL DEF Spec

-----------------------------------------------------------------------------
(* Conservation.                                                           *)

\* A step that moves money between the two columns of the row and touches no
\* amount.
OnlyMoves ==
    /\ available' + locked' = available + locked
    /\ SameDeposits
    /\ \A w \in WithdrawalIds : PaidOut(w)' = PaidOut(w)

LEMMA OnlyMovesConserves ==
    ASSUME FundsConserved, OnlyMoves
    PROVE  FundsConserved'
<1>1. Credits' = Credits
  BY DEF Credits, OnlyMoves, SameDeposits
<1>2. Payouts' = Payouts
  BY DEF Payouts, OnlyMoves
<1>3. available + locked = SumFunction(Credits) - SumFunction(Payouts)
  BY DEF FundsConserved, Credits, Payouts
<1>4. available' + locked' = SumFunction(Credits') - SumFunction(Payouts')
  BY <1>1, <1>2, <1>3 DEF OnlyMoves
<1> QED
  BY <1>4 DEF FundsConserved, Credits, Payouts

\* A withdrawal whose amount and completions stay has paid what it had paid;
\* one that is created has paid nothing.
LEMMA SamePaid ==
    ASSUME TypeOK, TypeOK', NotPaidBefore, NEW w \in WithdrawalIds, Effect(w), ~ CompletedNow(w)
    PROVE  PaidOut(w)' = PaidOut(w)
<1>1. Completed(w)' = Completed(w)
  BY DEF Effect, Untouched, Created, ApprovedNow, BroadcastNow, CancelledNow, SamePostings
<1>2. withdrawals'[w].amount = withdrawals[w].amount \/ Completed(w) = 0
  BY DEF Effect, Untouched, SameRow, Created, ApprovedNow, BroadcastNow, CancelledNow, Moves,
         NotPaidBefore
<1>3. withdrawals[w].amount \in Nat /\ withdrawals'[w].amount \in Nat
  BY RowTypes DEF TypeOK, WithdrawalRow
<1>4. PaidOut(w) = Completed(w) * withdrawals[w].amount
      /\ PaidOut(w)' = Completed(w)' * withdrawals'[w].amount
  BY DEF PaidOut, Posted, Completed
<1> QED
  BY <1>1, <1>2, <1>3, <1>4

LEMMA NotPaidStep == TypeOK /\ NotPaidBefore /\ [Next]_vars => NotPaidBefore'
<1> SUFFICES ASSUME TypeOK, NotPaidBefore, [Next]_vars, NEW w \in WithdrawalIds,
                    withdrawals'[w].status = "NONE"
             PROVE  Completed(w)' = 0
  BY DEF NotPaidBefore
<1>1. Effect(w) /\ (withdrawals[w].status = "NONE" => Completed(w) = 0)
  BY StepEffect DEF NotPaidBefore
<1> QED
  BY <1>1 DEF Effect, Untouched, SameRow, SamePostings, Created, ApprovedNow, BroadcastNow,
              CancelledNow, CompletedNow, Moves

\* A deposit that completes adds its amount to both sides.
LEMMA CreditConserves ==
    ASSUME TypeOK, TypeOK', FundsConserved, NEW d \in DepositIds, CreditedNow(d)
    PROVE  FundsConserved'
<1>1. /\ Ints(Credits, DepositIds) /\ Ints(Credits, DepositIds)'
  BY MoneyTypes, PTL
<1>2. \A e \in DepositIds \ {d} : Credits[e] = Credits'[e]
  BY DEF Credits, Credited, CreditedNow
<1>3. Credits[d] = 0 /\ Credits'[d] = deposits[d].amount
  BY DEF Credits, Credited, CreditedNow
<1>4. Ints(Credits', DepositIds)
  BY <1>1 DEF Ints
<1>5. SumFunctionOnSet(Credits', DepositIds)
        = SumFunctionOnSet(Credits, DepositIds) - Credits[d] + Credits'[d]
  BY <1>1, <1>2, <1>4, SumChange, IdsAssumption
<1>6. Payouts' = Payouts
  BY DEF Payouts, PaidOut, Posted, CreditedNow, Completed
<1>7. /\ SumFunctionOnSet(Credits, DepositIds) \in Int
      /\ SumFunctionOnSet(Payouts, WithdrawalIds) \in Int
  BY MoneyTypes, SumInt, IdsAssumption
<1>8. available + locked = SumFunctionOnSet(Credits, DepositIds)
                             - SumFunctionOnSet(Payouts, WithdrawalIds)
  BY MoneyForms
<1>9. available \in Nat /\ locked \in Nat /\ deposits[d].amount \in Nat
  BY RowTypes DEF DepositRow
<1>10. available' + locked' = SumFunctionOnSet(Credits', DepositIds)
                               - SumFunctionOnSet(Payouts', WithdrawalIds)
  BY <1>3, <1>5, <1>6, <1>7, <1>8, <1>9 DEF CreditedNow
<1>11. (available + locked = SumFunctionOnSet(Credits, DepositIds)
                               - SumFunctionOnSet(Payouts, WithdrawalIds))'
  BY <1>10
<1> QED
  BY <1>11, MoneyForms, PTL

\* A withdrawal that completes takes its amount from both sides.
LEMMA CompleteConserves ==
    ASSUME TypeOK, TypeOK', NotPaidBefore, FundsConserved, [Next]_vars, NEW w \in WithdrawalIds,
           CompleteWithdrawal(w)
    PROVE  FundsConserved'
<1>1. /\ Ints(Payouts, WithdrawalIds) /\ Ints(Payouts, WithdrawalIds)'
  BY MoneyTypes, PTL
<1>2. Ints(Payouts', WithdrawalIds)
  BY <1>1 DEF Ints
<1>3. 0 - withdrawals[w].amount \in Int /\ w \in Ids
      /\ {"WITHDRAWAL_COMPLETE", "WITHDRAWAL_RELEASE"} \subseteq EntryTypes
  BY RowTypes DEF WithdrawalRow, Ids, EntryTypes
<1>4. /\ Post(w, "WITHDRAWAL_COMPLETE", 0 - withdrawals[w].amount) /\ UNCHANGED deposits
      /\ withdrawals' = [withdrawals EXCEPT ![w].status = "COMPLETED"]
      /\ available' = available /\ locked' = locked - withdrawals[w].amount
  BY DEF CompleteWithdrawal
<1>5. Completed(w)' = Completed(w) + 1 /\ withdrawals'[w].amount = withdrawals[w].amount
  <2>1. Completed(w)' = Completed(w) + 1
    BY <1>3, <1>4, PostEffect, RowTypes DEF Completed
  <2> QED
    BY <1>4, <2>1, RowTypes DEF WithdrawalRow
<1>6. Completed(w) \in Nat /\ withdrawals[w].amount \in Nat
  BY RowTypes DEF Completed, WithdrawalRow, Ids, EntryTypes
<1>7. Payouts[w] = Completed(w) * withdrawals[w].amount
      /\ Payouts'[w] = Completed(w)' * withdrawals'[w].amount
  BY DEF Payouts, PaidOut, Posted, Completed
<1>8. Payouts'[w] = Payouts[w] + withdrawals[w].amount
  <2>1. \A c, a \in Nat : (c + 1) * a = c * a + a
    OBVIOUS
  <2> QED
    BY <1>5, <1>6, <1>7, <2>1
<1>9. \A x \in WithdrawalIds \ {w} : Payouts[x] = Payouts'[x]
  <2> SUFFICES ASSUME NEW x \in WithdrawalIds \ {w} PROVE Payouts[x] = Payouts'[x]
    OBVIOUS
  <2>1. Completed(x)' = Completed(x)
    BY <1>3, <1>4, PostElsewhere DEF SamePostings
  <2>2. withdrawals'[x] = withdrawals[x]
    BY <1>4, RowTypes
  <2> QED
    BY <2>1, <2>2 DEF Payouts, PaidOut, Posted, Completed
<1>10. SumFunctionOnSet(Payouts', WithdrawalIds)
         = SumFunctionOnSet(Payouts, WithdrawalIds) - Payouts[w] + Payouts'[w]
  BY <1>1, <1>2, <1>9, SumChange, IdsAssumption
<1>11. Credits' = Credits
  BY <1>4 DEF Credits, Credited
<1>12. /\ SumFunctionOnSet(Credits, DepositIds) \in Int
       /\ SumFunctionOnSet(Payouts, WithdrawalIds) \in Int
  BY MoneyTypes, SumInt, IdsAssumption
<1>13. available + locked = SumFunctionOnSet(Credits, DepositIds)
                             - SumFunctionOnSet(Payouts, WithdrawalIds)
  BY MoneyForms
<1>14. available \in Nat /\ locked \in Nat /\ Payouts[w] \in Int
  BY <1>1, RowTypes DEF Ints
<1>15. available' + locked' = SumFunctionOnSet(Credits', DepositIds)
                               - SumFunctionOnSet(Payouts', WithdrawalIds)
  BY <1>4, <1>6, <1>8, <1>10, <1>11, <1>12, <1>13, <1>14
<1>16. (available + locked = SumFunctionOnSet(Credits, DepositIds)
                               - SumFunctionOnSet(Payouts, WithdrawalIds))'
  BY <1>15
<1> QED
  BY <1>16, MoneyForms, PTL

\* Every step but a credit and a completion leaves the sum of the row alone.
LEMMA CreateMoves ==
    ASSUME TypeOK, NEW w \in WithdrawalIds, NEW amount \in Amounts, CreateWithdrawal(w, amount)
    PROVE  /\ available' + locked' = available + locked
           /\ \A x \in WithdrawalIds : ~ CompletedNow(x)
<1>1. amount \in Nat
  BY AmountsAssumption
<1>2. available' + locked' = available + locked
  BY <1>1, RowTypes DEF CreateWithdrawal
<1>3. \A x \in WithdrawalIds : withdrawals'[x] = withdrawals[x] \/ withdrawals[x].status = "NONE"
  BY RowTypes DEF CreateWithdrawal
<1> QED
  BY <1>2, <1>3 DEF CompletedNow, Moves

LEMMA ReleaseMoves ==
    ASSUME TypeOK, NEW amount \in Nat, locked' = locked - Releasable(amount),
           available' = available + Releasable(amount)
    PROVE  available' + locked' = available + locked
BY ReleasableNat, RowTypes

LEMMA CancelMoves ==
    ASSUME TypeOK, NEW w \in WithdrawalIds, CancelWithdrawal(w)
    PROVE  /\ available' + locked' = available + locked
           /\ \A x \in WithdrawalIds : ~ CompletedNow(x)
<1>1. withdrawals[w].amount \in Nat
  BY RowTypes DEF WithdrawalRow
<1>2. available' + locked' = available + locked
  BY <1>1, ReleaseMoves DEF CancelWithdrawal
<1>3. \A x \in WithdrawalIds : withdrawals'[x] = withdrawals[x]
                                \/ withdrawals[x].status \in {"PENDING", "APPROVED"}
  BY RowTypes DEF CancelWithdrawal, CanCancel
<1> QED
  BY <1>2, <1>3 DEF CompletedNow, Moves

LEMMA OtherMoves ==
    ASSUME TypeOK, UNCHANGED walletVars,
           UNCHANGED postings
    PROVE  /\ available' + locked' = available + locked
           /\ \A x \in WithdrawalIds : ~ CompletedNow(x)
<1>1. \A x \in WithdrawalIds : Completed(x)' = Completed(x) /\ Completed(x) \in Nat
  BY RowTypes DEF Completed, Ids, EntryTypes
<1> QED
  BY <1>1 DEF walletVars, CompletedNow

LEMMA OrderMoves ==
    ASSUME TypeOK, NEW o \in OrderIds, NEW amount \in Amounts,
           ReserveOrderFunds(o, amount) \/ ReleaseOrderFunds(o, amount)
    PROVE  /\ available' + locked' = available + locked
           /\ \A x \in WithdrawalIds : ~ CompletedNow(x)
<1>1. UNCHANGED withdrawals
  BY DEF ReserveOrderFunds, ReleaseOrderFunds
<1>2. \A x \in WithdrawalIds : ~ CompletedNow(x)
  BY <1>1 DEF CompletedNow, Moves
<1>3. amount \in Nat
  BY AmountsAssumption
<1>4. CASE ReserveOrderFunds(o, amount)
  BY <1>2, <1>3, <1>4, RowTypes DEF ReserveOrderFunds
<1>5. CASE ReleaseOrderFunds(o, amount)
  BY <1>2, <1>3, <1>5, ReleaseMoves DEF ReleaseOrderFunds
<1> QED
  BY <1>4, <1>5

\* Money neither appears nor vanishes, for any interleaving of deposits,
\* withdrawals, orders and approvals, stale ones included (wallets.py,
\* wallet_service.py): the wallet holds what completed deposits brought minus
\* what was paid out.
THEOREM MoneyConserved == Spec => []FundsConserved
<1>1. Init => FundsConserved /\ NotPaidBefore
  <2> SUFFICES ASSUME Init PROVE FundsConserved /\ NotPaidBefore
    OBVIOUS
  <2>1. \A d \in DepositIds : Credits[d] = 0
    BY DEF Init, Credits, Credited
  <2>2. \A w \in WithdrawalIds : Payouts[w] = 0
    BY DEF Init, Payouts, PaidOut, Posted, EntryTypes
  <2>3. /\ SumFunctionOnSet(Credits, DepositIds) = 0
        /\ SumFunctionOnSet(Payouts, WithdrawalIds) = 0
    BY <2>1, <2>2, SumZero, IdsAssumption
  <2>4. NotPaidBefore
    BY DEF Init, NotPaidBefore, Completed, EntryTypes
  <2> QED
    BY <2>3, <2>4, MoneyForms DEF Init
<1>2. TypeOK /\ TypeOK' /\ FundsConserved /\ NotPaidBefore /\ [Next]_vars => FundsConserved'
  <2> SUFFICES ASSUME TypeOK, TypeOK', FundsConserved, NotPaidBefore, [Next]_vars
               PROVE  FundsConserved'
    OBVIOUS
  <2>1. ASSUME available' + locked' = available + locked, SameDeposits,
               \A x \in WithdrawalIds : ~ CompletedNow(x)
        PROVE  FundsConserved'
    <3>1. \A x \in WithdrawalIds : PaidOut(x)' = PaidOut(x)
      BY <2>1, SamePaid, StepEffect
    <3> QED
      BY <2>1, <3>1, OnlyMovesConserves DEF OnlyMoves
  <2>2. ASSUME NEW d \in DepositIds, CreditedNow(d) PROVE FundsConserved'
    BY <2>2, CreditConserves
  <2>3. ASSUME NEW w \in WithdrawalIds, CompleteWithdrawal(w) PROVE FundsConserved'
    BY <2>3, CompleteConserves
  <2>4. CASE SameDeposits
    <3>1. ASSUME NEW d \in DepositIds, NEW amount \in Amounts, NEW n \in ConfirmSteps \cup {0},
                 CreateMockDeposit(d, amount, n)
          PROVE  FundsConserved'
      BY <2>1, <2>4, <3>1, OtherMoves DEF CreateMockDeposit, ledgerVars
    <3>2. ASSUME NEW d \in DepositIds, NEW n \in ConfirmSteps, ConfirmDeposit(d, n)
          PROVE  FundsConserved'
      <4>1. CASE AwaitMore(d, n)
        BY <2>1, <2>4, <4>1, OtherMoves DEF AwaitMore, ledgerVars
      <4>2. CASE CreditDeposit(d, n)
        BY <2>2, <3>2, <4>2, CreditEffect DEF ConfirmDeposit
      <4> QED
        BY <3>2, <4>1, <4>2 DEF ConfirmDeposit
    <3>3. ASSUME NEW w \in WithdrawalIds, NEW amount \in Amounts, CreateWithdrawal(w, amount)
          PROVE  FundsConserved'
      BY <2>1, <2>4, <3>3, CreateMoves
    <3>4. ASSUME NEW w \in WithdrawalIds, CancelWithdrawal(w) PROVE FundsConserved'
      BY <2>1, <2>4, <3>4, CancelMoves
    <3>5. ASSUME NEW w \in WithdrawalIds,
                 BroadcastWithdrawal(w) \/ \E admin \in Admins : \/ ApproveRead(admin, w)
                                                                \/ ApproveCommit(admin, w)
                                                                \/ ApproveLost(admin, w)
          PROVE  FundsConserved'
      <4>1. UNCHANGED walletVars /\ UNCHANGED postings
        BY <3>5 DEF BroadcastWithdrawal, ApproveRead, ApproveCommit, ApproveLost, ledgerVars
      <4> QED
        BY <2>1, <2>4, <4>1, OtherMoves
    <3>6. ASSUME NEW o \in OrderIds, NEW amount \in Amounts,
                 ReserveOrderFunds(o, amount) \/ ReleaseOrderFunds(o, amount)
          PROVE  FundsConserved'
      BY <2>1, <2>4, <3>6, OrderMoves
    <3>7. CASE UNCHANGED vars
      BY <2>1, <2>4, <3>7, OtherMoves DEF vars, ledgerVars
    <3> QED
      BY <2>3, <3>1, <3>2, <3>3, <3>4, <3>5, <3>6, <3>7 DEF Next
  <2> QED
    BY <2>2, <2>4, DepositStep
<1> QED
  BY <1>1, <1>2, NotPaidStep, TypeInit, TypeStep, PTL DEF Spec

-----------------------------------------------------------------------------
(* Reserves.                                                               *)

\* What the open withdrawals and the open orders reserve, on sums over sets.
Needed == SumFunctionOnSet(OpenRows, WithdrawalIds) + SumFunctionOnSet(reserves, OrderIds)

\* It is locked, but for what order releases have drawn beyond their own.
Covered == locked <= Needed /\ locked >= Needed - overdrawn

LEMMA NeededNat ==
    ASSUME TypeOK
    PROVE  Needed \in Nat
BY MoneyTypes, SumNat, IdsAssumption DEF Needed

\* One withdrawal changes what it holds, and locked follows as far as it can.
LEMMA RowFollowed ==
    ASSUME TypeOK, TypeOK', Covered, NEW w \in WithdrawalIds, UNCHANGED orderVars,
           \A x \in WithdrawalIds \ {w} : withdrawals'[x] = withdrawals[x],
           locked' >= locked - OpenAmount(w) + OpenAmount(w)',
           locked' = locked - OpenAmount(w) + OpenAmount(w)' \/ locked' = 0
    PROVE  Covered'
<1>1. \A x \in WithdrawalIds : OpenRows'[x] \in Nat
  BY DEF TypeOK, OpenRows, OpenAmount
<1>2. Ints(OpenRows, WithdrawalIds) /\ Ints(OpenRows', WithdrawalIds)
  BY <1>1, MoneyTypes DEF Ints
<1>3. \A x \in WithdrawalIds \ {w} : OpenRows[x] = OpenRows'[x]
  BY DEF OpenRows, OpenAmount
<1>4. OpenRows[w] = OpenAmount(w) /\ OpenRows'[w] = OpenAmount(w)'
  BY DEF OpenRows
<1>5. SumFunctionOnSet(OpenRows', WithdrawalIds)
        = SumFunctionOnSet(OpenRows, WithdrawalIds) - OpenRows[w] + OpenRows'[w]
  BY <1>2, <1>3, SumChange, IdsAssumption
<1>6. /\ SumFunctionOnSet(OpenRows, WithdrawalIds) \in Int
      /\ SumFunctionOnSet(reserves, OrderIds) \in Int
      /\ OpenRows[w] \in Int /\ OpenRows'[w] \in Int
  BY <1>2, MoneyTypes, SumInt, IdsAssumption DEF Ints
<1>7. SumFunctionOnSet(reserves', OrderIds) = SumFunctionOnSet(reserves, OrderIds)
  BY DEF orderVars
<1>8. Needed' = Needed - OpenAmount(w) + OpenAmount(w)'
  BY <1>4, <1>5, <1>6, <1>7 DEF Needed
<1>9. Needed \in Nat /\ locked \in Nat /\ overdrawn \in Nat
  BY NeededNat, RowTypes
<1>10. Needed' \in Nat
  <2>1. \A o \in OrderIds : reserves'[o] \in Nat
    BY DEF TypeOK
  <2>2. SumFunctionOnSet(reserves', OrderIds) \in Nat
    BY <2>1, SumNat, IdsAssumption
  <2>3. SumFunctionOnSet(OpenRows', WithdrawalIds) \in Nat
    BY <1>1, SumNat, IdsAssumption
  <2> QED
    BY <2>2, <2>3 DEF Needed
<1>11. overdrawn' = overdrawn /\ OpenAmount(w) \in Int /\ OpenAmount(w)' \in Int
  BY <1>4, <1>6 DEF orderVars
<1>12. locked' <= Needed' /\ locked' >= Needed' - overdrawn'
  BY <1>8, <1>9, <1>10, <1>11 DEF Covered
<1> QED
  BY <1>12 DEF Covered

\* One order changes what it holds, and what locked does not follow is drawn.
LEMMA OrderFollowed ==
    ASSUME TypeOK, TypeOK', Covered, NEW o \in OrderIds, UNCHANGED withdrawals,
           \A p \in OrderIds \ {o} : reserves'[p] = reserves[p],
           locked' <= locked - reserves[o] + reserves'[o],
           locked' + overdrawn' >= locked + overdrawn - reserves[o] + reserves'[o]
    PROVE  Covered'
<1>1. Ints(reserves, OrderIds) /\ Ints(reserves', OrderIds)
  BY RowTypes DEF Ints, TypeOK
<1>2. SumFunctionOnSet(reserves', OrderIds)
        = SumFunctionOnSet(reserves, OrderIds) - reserves[o] + reserves'[o]
  BY <1>1, SumChange, IdsAssumption
<1>3. OpenRows' = OpenRows
  BY DEF OpenRows, OpenAmount
<1>4. SumFunctionOnSet(OpenRows', WithdrawalIds) = SumFunctionOnSet(OpenRows, WithdrawalIds)
  BY <1>3
<1>5. Ints(OpenRows, WithdrawalIds)
  BY MoneyTypes DEF Ints
<1>6. /\ SumFunctionOnSet(OpenRows, WithdrawalIds) \in Int
      /\ SumFunctionOnSet(reserves, OrderIds) \in Int
      /\ reserves[o] \in Int /\ reserves'[o] \in Int
  BY <1>1, <1>5, SumInt, IdsAssumption DEF Ints
<1>7. Needed' = Needed - reserves[o] + reserves'[o] /\ Needed \in Int
  BY <1>2, <1>4, <1>6 DEF Needed
<1>8. locked \in Int /\ locked' \in Int /\ overdrawn \in Int /\ overdrawn' \in Int
  BY DEF TypeOK
<1>9. locked' <= Needed' /\ locked' >= Needed' - overdrawn'
  BY <1>6, <1>7, <1>8 DEF Covered
<1> QED
  BY <1>9 DEF Covered

LEMMA SameCovered ==
    ASSUME Covered, UNCHANGED <<locked, orderVars>>,
           \A w \in WithdrawalIds : OpenAmount(w)' = OpenAmount(w)
    PROVE  Covered'
<1>1. OpenRows' = OpenRows
  BY DEF OpenRows
<1>2. Needed' = Needed
  BY <1>1 DEF Needed, orderVars
<1> QED
  BY <1>2 DEF Covered, orderVars

LEMMA CreateCovers ==
    ASSUME TypeOK, TypeOK', Covered, NEW w \in WithdrawalIds, NEW amount \in Amounts,
           CreateWithdrawal(w, amount)
    PROVE  Covered'
<1>1. OpenAmount(w) = 0 /\ OpenAmount(w)' = amount /\ amount \in Nat
  BY RowTypes, AmountsAssumption DEF OpenAmount, CreateWithdrawal
<1>2. \A x \in WithdrawalIds \ {w} : withdrawals'[x] = withdrawals[x]
  BY RowTypes DEF CreateWithdrawal
<1>3. locked' = locked - OpenAmount(w) + OpenAmount(w)'
  BY <1>1, RowTypes DEF CreateWithdrawal
<1>4. locked' >= locked - OpenAmount(w) + OpenAmount(w)'
  BY <1>1, <1>3, RowTypes
<1> QED
  BY <1>2, <1>3, <1>4, RowFollowed DEF CreateWithdrawal

LEMMA CancelCovers ==
    ASSUME TypeOK, TypeOK', Covered, NEW w \in WithdrawalIds, CancelWithdrawal(w)
    PROVE  Covered'
<1>1. withdrawals[w].amount \in Nat /\ locked \in Nat
  BY RowTypes DEF WithdrawalRow
<1>2. OpenAmount(w) = withdrawals[w].amount
  BY DEF OpenAmount, CancelWithdrawal, CanCancel
<1>3. locked' = locked - Releasable(withdrawals[w].amount)
  BY DEF CancelWithdrawal
<1>4. Releasable(withdrawals[w].amount) = withdrawals[w].amount \/ locked' = 0
  BY <1>1, <1>3 DEF Releasable
<1>5. locked' >= locked - withdrawals[w].amount
  BY <1>1, <1>3, ReleasableNat
<1>6. OpenAmount(w)' = 0 /\ \A x \in WithdrawalIds \ {w} : withdrawals'[x] = withdrawals[x]
  BY RowTypes DEF OpenAmount, CancelWithdrawal, WithdrawalRow
<1>7. /\ locked' >= locked - OpenAmount(w) + OpenAmount(w)'
      /\ locked' = locked - OpenAmount(w) + OpenAmount(w)' \/ locked' = 0
  BY <1>1, <1>2, <1>3, <1>4, <1>5, <1>6
<1> QED
  BY <1>6, <1>7, RowFollowed DEF CancelWithdrawal

LEMMA CompleteCovers ==
    ASSUME TypeOK, TypeOK', Covered, NEW w \in WithdrawalIds, CompleteWithdrawal(w)
    PROVE  Covered'
<1>1. OpenAmount(w) = withdrawals[w].amount /\ withdrawals[w].amount \in Nat
  BY RowTypes DEF OpenAmount, CompleteWithdrawal, WithdrawalRow
<1>2. OpenAmount(w)' = 0 /\ \A x \in WithdrawalIds \ {w} : withdrawals'[x] = withdrawals[x]
  BY RowTypes DEF OpenAmount, CompleteWithdrawal, WithdrawalRow
<1>3. locked' = locked - OpenAmount(w) + OpenAmount(w)'
  BY <1>1, <1>2, RowTypes DEF CompleteWithdrawal
<1>4. locked' >= locked - OpenAmount(w) + OpenAmount(w)'
  BY <1>1, <1>2, <1>3, RowTypes
<1> QED
  BY <1>2, <1>3, <1>4, RowFollowed DEF CompleteWithdrawal

LEMMA OrderCovers ==
    ASSUME TypeOK, TypeOK', Covered, NEW o \in OrderIds, NEW amount \in Amounts,
           ReserveOrderFunds(o, amount) \/ ReleaseOrderFunds(o, amount)
    PROVE  Covered'
<1>1. locked \in Nat /\ reserves[o] \in Nat /\ amount \in Nat /\ overdrawn \in Nat
  BY RowTypes, AmountsAssumption
<1>2. CASE ReserveOrderFunds(o, amount)
  <2>1. /\ reserves[o] = 0 /\ reserves'[o] = amount
        /\ locked' = locked + amount /\ overdrawn' = overdrawn
        /\ \A p \in OrderIds \ {o} : reserves'[p] = reserves[p]
    BY <1>1, <1>2, RowTypes DEF ReserveOrderFunds
  <2>2. /\ locked' <= locked - reserves[o] + reserves'[o]
        /\ locked' + overdrawn' >= locked + overdrawn - reserves[o] + reserves'[o]
    BY <1>1, <2>1
  <2> QED
    BY <1>2, <2>1, <2>2, OrderFollowed DEF ReserveOrderFunds
<1>3. CASE ReleaseOrderFunds(o, amount)
  <2> DEFINE release == Releasable(amount)
             own == OwnPart(o, release)
  <2>1. release \in Nat /\ own \in Nat /\ own <= release
    BY <1>1, ReleasableNat, OwnPartNat
  <2>2. /\ locked' = locked - release
        /\ reserves' = [reserves EXCEPT ![o] = reserves[o] - own]
        /\ overdrawn' = overdrawn + (release - own)
        /\ UNCHANGED withdrawals
    BY <1>3 DEF ReleaseOrderFunds
  <2> HIDE DEF own, release
  <2>3. /\ reserves'[o] = reserves[o] - own
        /\ \A p \in OrderIds \ {o} : reserves'[p] = reserves[p]
    BY <2>2, RowTypes
  <2>4. /\ locked' <= locked - reserves[o] + reserves'[o]
        /\ locked' + overdrawn' >= locked + overdrawn - reserves[o] + reserves'[o]
    BY <1>1, <2>1, <2>2, <2>3
  <2> QED
    BY <2>2, <2>3, <2>4, OrderFollowed
<1> QED
  BY <1>2, <1>3

\* An approval that replaces no other status, and a broadcast, hold on to the
\* same amount.
LEMMA HoldsOn ==
    ASSUME TypeOK, NEW w \in WithdrawalIds, overwritten' = {}, Covered,
           BroadcastWithdrawal(w) \/ \E admin \in Admins : ApproveCommit(admin, w)
    PROVE  Covered'
<1>1. /\ withdrawals[w].status \in {"PENDING", "APPROVED"}
      /\ withdrawals'[w].status \in {"APPROVED", "BROADCAST"}
      /\ withdrawals'[w].amount = withdrawals[w].amount
      /\ \A x \in WithdrawalIds \ {w} : withdrawals'[x] = withdrawals[x]
  <2>1. CASE BroadcastWithdrawal(w)
    BY <2>1, RowTypes DEF BroadcastWithdrawal, CanBroadcast, WithdrawalRow
  <2>2. ASSUME NEW admin \in Admins, ApproveCommit(admin, w)
        PROVE  /\ withdrawals[w].status \in {"PENDING", "APPROVED"}
               /\ withdrawals'[w].status \in {"APPROVED", "BROADCAST"}
               /\ withdrawals'[w].amount = withdrawals[w].amount
               /\ \A x \in WithdrawalIds \ {w} : withdrawals'[x] = withdrawals[x]
    <3>1. withdrawals[w].status \in {"PENDING", "APPROVED"}
      BY <2>2 DEF ApproveCommit
    <3>2. withdrawals' = [withdrawals EXCEPT ![w].status = "APPROVED", ![w].approved = TRUE]
      BY <2>2 DEF ApproveCommit
    <3> QED
      BY <3>1, <3>2, RowTypes DEF WithdrawalRow
  <2> QED
    BY <2>1, <2>2
<1>2. \A x \in WithdrawalIds : OpenAmount(x)' = OpenAmount(x)
  BY <1>1 DEF OpenAmount
<1>3. UNCHANGED <<locked, orderVars>>
  BY DEF BroadcastWithdrawal, ApproveCommit, walletVars
<1> QED
  BY <1>2, <1>3, SameCovered

\* As long as no stale approval has revived a withdrawal, what is locked is
\* what the open withdrawals and the open orders reserved, less at most what
\* order releases took beyond the reserve of their own order, whatever is
\* released, paid, cancelled or reserved in between (wallets.py,
\* wallet_service.py:97-135).
THEOREM ReservesAlwaysCovered == Spec => []ReservesCovered
<1> DEFINE Inv == overwritten = {} => Covered
<1>1. Init => Inv
  <2> SUFFICES ASSUME Init PROVE Covered
    OBVIOUS
  <2>1. /\ \A w \in WithdrawalIds : OpenRows[w] = 0
        /\ \A o \in OrderIds : reserves[o] = 0
    BY DEF Init, OpenRows, OpenAmount
  <2>2. /\ SumFunctionOnSet(OpenRows, WithdrawalIds) = 0
        /\ SumFunctionOnSet(reserves, OrderIds) = 0
    BY <2>1, SumZero, IdsAssumption
  <2> QED
    BY <2>2 DEF Covered, Needed, Init
<1>2. TypeOK /\ TypeOK' /\ Inv /\ [Next]_vars => Inv'
  <2> SUFFICES ASSUME TypeOK, TypeOK', Inv, [Next]_vars, overwritten' = {} PROVE Covered'
    OBVIOUS
  <2>1. Covered
    <3>1. CASE WithdrawalIds = {}
      BY <3>1, RowTypes
    <3>2. CASE WithdrawalIds # {}
      <4>1. PICK w \in WithdrawalIds : TRUE
        BY <3>2
      <4> QED
        BY <4>1, StepEffect DEF Effect
    <3> QED
      BY <3>1, <3>2
  <2> HIDE DEF Inv
  <2>2. ASSUME UNCHANGED <<locked, orderVars, withdrawals>> PROVE Covered'
    BY <2>1, <2>2, SameCovered DEF OpenAmount
  <2>3. ASSUME NEW d \in DepositIds, NEW amount \in Amounts, NEW n \in ConfirmSteps \cup {0},
               CreateMockDeposit(d, amount, n)
        PROVE  Covered'
    BY <2>2, <2>3 DEF CreateMockDeposit, walletVars
  <2>4. ASSUME NEW d \in DepositIds, NEW n \in ConfirmSteps, ConfirmDeposit(d, n)
        PROVE  Covered'
    BY <2>2, <2>4 DEF ConfirmDeposit, AwaitMore, CreditDeposit, walletVars
  <2>5. ASSUME NEW w \in WithdrawalIds, NEW amount \in Amounts, CreateWithdrawal(w, amount)
        PROVE  Covered'
    BY <2>1, <2>5, CreateCovers
  <2>6. ASSUME NEW w \in WithdrawalIds, CancelWithdrawal(w) \/ CompleteWithdrawal(w)
        PROVE  Covered'
    BY <2>1, <2>6, CancelCovers, CompleteCovers
  <2>7. ASSUME NEW w \in WithdrawalIds,
               BroadcastWithdrawal(w) \/ \E admin \in Admins : ApproveCommit(admin, w)
        PROVE  Covered'
    BY <2>1, <2>7, HoldsOn
  <2>8. ASSUME NEW w \in WithdrawalIds, NEW admin \in Admins,
               ApproveRead(admin, w) \/ ApproveLost(admin, w)
        PROVE  Covered'
    BY <2>2, <2>8 DEF ApproveRead, ApproveLost, walletVars
  <2>9. ASSUME NEW o \in OrderIds, NEW amount \in Amounts,
               ReserveOrderFunds(o, amount) \/ ReleaseOrderFunds(o, amount)
        PROVE  Covered'
    BY <2>1, <2>9, OrderCovers
  <2>10. CASE UNCHANGED vars
    BY <2>2, <2>10 DEF vars, walletVars
  <2> QED
    BY <2>3, <2>4, <2>5, <2>6, <2>7, <2>8, <2>9, <2>10 DEF Next
<1>3. TypeOK /\ Inv => ReservesCovered
  BY MoneyForms DEF Covered, Needed, ReservesCovered
<1> QED
  BY <1>1, <1>2, <1>3, TypeInit, TypeStep, PTL DEF Spec
=============================================================================
