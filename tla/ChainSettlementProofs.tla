------------------------ MODULE ChainSettlementProofs ------------------------
(***************************************************************************)
(* Proofs about ChainSettlement, for any calls, users, trades and          *)
(* addresses.                                                              *)
(***************************************************************************)
EXTENDS ChainSettlement, FiniteSetTheorems, TLAPS

\* A call has something to send from the moment it starts, and nothing of it
\* is at the node before its thread waits.
CallsInOrder ==
    /\ \A c \in Calls : phase[c] # "idle" => job[c] \in Jobs
    /\ \A c \in Calls : phase[c] \in {"idle", "started", "signed"} =>
         receipt[c] = "pending" /\ answer[c] = "open" /\ \A x \in pool : x.call # c

\* What waits at the node has not been mined.
PoolUnmined == \A x \in pool : receipt[x.call] = "pending"

\* Answers are read off receipts.
AnswersFromReceipts ==
    \A c \in Calls : /\ answer[c] = "confirmed" => receipt[c] = "ok"
                     /\ answer[c] = "failed" => receipt[c] = "reverted"

\* What a receipt says has happened on the chain.
ReceiptsTrue ==
    \A c \in Calls :
      /\ receipt[c] = "ok" =>
           IF job[c].kind = "settle" THEN settlements[job[c].trade] = c
                                     ELSE balance[job[c].address] > 0
      /\ receipt[c] = "reverted" =>
           IF job[c].kind = "settle" THEN settlements[job[c].trade] # c
                                     ELSE job[c].address = Zero

\* The zero address holds nothing.
ZeroEmpty == balance[Zero] = 0

\* A settlement is that of a call with a good receipt.
SettledByReceipt ==
    \A t \in Trades : settlements[t] # NoCall => receipt[settlements[t]] = "ok"

\* The inductive invariant.
ChainInv ==
    /\ TypeOK
    /\ NextIsMinable
    /\ SettledOnce
    /\ CallsInOrder
    /\ PoolUnmined
    /\ AnswersFromReceipts
    /\ ReceiptsTrue
    /\ SettledByReceipt
    /\ ZeroEmpty

\* All of it that the chain's steps can disturb, over the chain's variables.
ChainPart == SettledOnce /\ ReceiptsTrue /\ SettledByReceipt /\ ZeroEmpty

-----------------------------------------------------------------------------
\* What a settle job and a mint job carry.
LEMMA JobFacts ==
    ASSUME NEW j \in Jobs
    PROVE  /\ j.kind = "settle" => j.trade \in Trades /\ j.address \in Addresses
           /\ j.kind # "settle" => j.kind = "mint" /\ j.address \in Addresses
  BY DEF Jobs

LEMMA InitInv == Init => ChainInv
  BY CallsAssumption, WalletAssumption
  DEF Init, ChainInv, TypeOK, NextIsMinable, SettledOnce, CallsInOrder, PoolUnmined, ZeroEmpty,
      AnswersFromReceipts, ReceiptsTrue, SettledByReceipt, TotalSettlements, Verified, Nothing

\* Steps that touch neither the chain nor any job that was started.
LEMMA OffChainStep ==
    ASSUME ChainInv, UNCHANGED chainVars,
           service' \in {"unused", "off", "readonly", "tokenless", "full"},
           linked' \in [Users -> Addresses \cup {NoWallet}],
           phase' \in [Calls -> {"idle", "started", "signed", "waiting", "done"}],
           job' \in [Calls -> Jobs \cup {Nothing}],
           nonce' \in [Calls -> Nat], \A c \in Calls : nonce'[c] <= mined,
           answer' \in [Calls -> {"open", "none", "failed", "confirmed"}],
           \A c \in Calls : phase[c] # "idle" => job'[c] = job[c],
           \A c \in Calls : phase'[c] # "idle" => job'[c] \in Jobs,
           \A c \in Calls : phase'[c] \in {"idle", "started", "signed"} =>
              phase[c] \in {"idle", "started", "signed"} /\ answer'[c] = answer[c],
           \A c \in Calls : answer'[c] = "confirmed" => receipt[c] = "ok",
           \A c \in Calls : answer'[c] = "failed" => receipt[c] = "reverted"
    PROVE  ChainInv'
<1> USE DEF ChainInv, chainVars
<1>1. TypeOK'
  BY DEF TypeOK
<1>2. NextIsMinable' /\ SettledOnce' /\ PoolUnmined' /\ SettledByReceipt' /\ ZeroEmpty'
  BY DEF NextIsMinable, SettledOnce, PoolUnmined, SettledByReceipt, ZeroEmpty, TotalSettlements,
         Verified
<1>3. CallsInOrder'
  BY DEF CallsInOrder
<1>4. AnswersFromReceipts'
  BY DEF AnswersFromReceipts
<1>5. \A c \in Calls : receipt[c] # "pending" => job'[c] = job[c]
  BY DEF CallsInOrder
<1>6. ReceiptsTrue'
  BY <1>5 DEF ReceiptsTrue
<1> QED BY <1>1, <1>2, <1>3, <1>4, <1>6

-----------------------------------------------------------------------------
LEMMA RequestStep ==
    ASSUME ChainInv, Request
    PROVE  ChainInv'
<1> USE DEF ChainInv
<1>0. /\ EnsureInit => service' \in {"unused", "off", "readonly", "tokenless", "full"}
      /\ service \in {"unused", "off", "readonly", "tokenless", "full"}
  BY DEF EnsureInit, TypeOK
<1>1. CASE GetStatus
  BY <1>0, <1>1, OffChainStep DEF GetStatus, callVars, TypeOK, CallsInOrder, AnswersFromReceipts
<1>2. ASSUME NEW u \in Users, NEW a \in Addresses, LinkWallet(u, a)
      PROVE  ChainInv'
  <2>1. linked' \in [Users -> Addresses \cup {NoWallet}]
    BY <1>2 DEF LinkWallet, TypeOK
  <2> QED BY <1>0, <1>2, <2>1, OffChainStep
          DEF LinkWallet, callVars, TypeOK, CallsInOrder, AnswersFromReceipts
<1>3. ASSUME NEW c \in Calls, NEW u \in Users, NEW t \in Trades, SettleTrade(c, u, t)
      PROVE  ChainInv'
  <2>1. Settle(u, t) \in Jobs
    BY WalletAssumption DEF TypeOK, Jobs, Settle
  <2>2. /\ job' = [job EXCEPT ![c] = Settle(u, t)]
        /\ phase' = [phase EXCEPT ![c] = "started"]
        /\ phase[c] = "idle"
        /\ UNCHANGED <<linked, nonce, answer, chainVars>>
        /\ EnsureInit
    BY <1>3 DEF SettleTrade, Starts
  <2> QED BY <1>0, <2>1, <2>2, OffChainStep DEF TypeOK, CallsInOrder, AnswersFromReceipts
<1>4. ASSUME NEW c \in Calls, NEW u \in Users, TokenFaucet(c, u)
      PROVE  ChainInv'
  <2>1. Claim(u) \in Jobs
    BY <1>4 DEF TypeOK, Jobs, Claim, TokenFaucet
  <2>2. /\ job' = [job EXCEPT ![c] = Claim(u)]
        /\ phase[c] = "idle"
        /\ \/ phase' = [phase EXCEPT ![c] = "started"] /\ UNCHANGED answer
           \/ phase' = [phase EXCEPT ![c] = "done"] /\ answer' = [answer EXCEPT ![c] = "none"]
        /\ UNCHANGED <<linked, nonce, chainVars>>
        /\ EnsureInit
    BY <1>4 DEF TokenFaucet, Starts
  <2>3. TypeOK /\ CallsInOrder /\ AnswersFromReceipts
    BY DEF ChainInv
  <2>4. CASE phase' = [phase EXCEPT ![c] = "started"] /\ UNCHANGED answer
    BY <1>0, <2>1, <2>2, <2>3, <2>4, OffChainStep DEF TypeOK, CallsInOrder, AnswersFromReceipts
  <2>5. CASE phase' = [phase EXCEPT ![c] = "done"] /\ answer' = [answer EXCEPT ![c] = "none"]
    BY <1>0, <2>1, <2>2, <2>3, <2>5, OffChainStep DEF TypeOK, CallsInOrder, AnswersFromReceipts
  <2> QED
    BY <2>2, <2>4, <2>5
<1> QED BY <1>1, <1>2, <1>3, <1>4 DEF Request

-----------------------------------------------------------------------------
\* A thread that is through answers None or what its receipt says.
LEMMA GiveStep ==
    ASSUME ChainInv, NEW c \in Calls, NEW a \in {"none", "failed", "confirmed"},
           Give(c, a), phase[c] # "idle",
           a = "confirmed" => receipt[c] = "ok",
           a = "failed" => receipt[c] = "reverted",
           UNCHANGED <<serviceVars, job, nonce, chainVars>>
    PROVE  ChainInv'
<1> USE DEF ChainInv
<1>1. /\ phase' = [phase EXCEPT ![c] = "done"]
      /\ answer' = [answer EXCEPT ![c] = a]
  BY DEF Give
<1> QED BY <1>1, OffChainStep DEF TypeOK, CallsInOrder, AnswersFromReceipts, serviceVars

LEMMA SendStep ==
    ASSUME ChainInv, NEW c \in Calls, Send(c)
    PROVE  ChainInv'
<1> USE DEF ChainInv
<1> DEFINE tx == [call |-> c, nonce |-> nonce[c]]
<1>1. /\ nonce[c] = mined
      /\ pool' = {tx}
      /\ phase' = [phase EXCEPT ![c] = "waiting"]
      /\ UNCHANGED <<serviceVars, job, nonce, answer, mined, receipt, settlements,
                     settlementIds, balance>>
      /\ phase[c] = "signed"
  <2>1. nonce[c] = mined
    BY DEF Send, TypeOK
  <2>2. SameNonce(c) = pool
    BY <2>1 DEF SameNonce, NextIsMinable
  <2> QED BY <2>1, <2>2 DEF Send
<1>2. TypeOK'
  BY <1>1 DEF TypeOK, serviceVars
<1>3. /\ NextIsMinable' /\ SettledOnce' /\ SettledByReceipt' /\ ReceiptsTrue'
      /\ AnswersFromReceipts' /\ ZeroEmpty'
  BY <1>1 DEF NextIsMinable, SettledOnce, SettledByReceipt, ReceiptsTrue, AnswersFromReceipts,
              ZeroEmpty, TotalSettlements, Verified
<1>4. CallsInOrder' /\ PoolUnmined'
  BY <1>1 DEF CallsInOrder, PoolUnmined, TypeOK
<1> QED BY <1>2, <1>3, <1>4

LEMMA ThreadStep ==
    ASSUME ChainInv, NEW c \in Calls, Thread(c) \/ NodeFails(c)
    PROVE  ChainInv'
<1> USE DEF ChainInv
<1>1. CASE ReadNonce(c)
  <2>1. /\ nonce' = [nonce EXCEPT ![c] = mined]
        /\ phase' = [phase EXCEPT ![c] = "signed"]
        /\ phase[c] = "started"
        /\ UNCHANGED <<serviceVars, job, answer, chainVars>>
    BY <1>1 DEF ReadNonce, NextNonce
  <2> QED BY SMTT(30), <2>1, OffChainStep DEF TypeOK, CallsInOrder, AnswersFromReceipts, serviceVars
<1>2. CASE Send(c)
  BY <1>2, SendStep
<1>3. CASE SendRefused(c)
  BY <1>3, GiveStep DEF SendRefused
<1>4. CASE ReadReceipt(c)
  BY <1>4, GiveStep DEF ReadReceipt, Outcome, TypeOK
<1>5. CASE TimeOut(c)
  BY <1>5, GiveStep DEF TimeOut, AfterTimeout
<1>6. CASE NodeFails(c)
  BY <1>6, GiveStep DEF NodeFails
<1> QED BY <1>1, <1>2, <1>3, <1>4, <1>5, <1>6 DEF Thread

-----------------------------------------------------------------------------
\* The contract's step: it keeps a new trade's call or reverts.
LEMMA ExecuteSettleStep ==
    ASSUME ChainInv, NEW c \in Calls, NEW t \in Trades, UNCHANGED job,
           receipt[c] = "pending", job[c].kind = "settle", job[c].trade = t,
           ExecuteSettle(c, t)
    PROVE  ChainPart'
<1> USE CallsAssumption DEF ChainInv
<1> DEFINE Kept == /\ Settleable(t)
                   /\ settlements' = [settlements EXCEPT ![t] = c]
                   /\ settlementIds' = Append(settlementIds, t)
                   /\ receipt' = [receipt EXCEPT ![c] = "ok"]
           Undone == /\ receipt' = [receipt EXCEPT ![c] = "reverted"]
                     /\ UNCHANGED <<settlements, settlementIds>>
<1>1. CASE Kept
  <2>1. settlements[t] = NoCall /\ UNCHANGED balance
    BY <1>1 DEF ExecuteSettle, Settleable
  <2>2. SettledOnce'
    <3>1. /\ Len(settlementIds') = Len(settlementIds) + 1
          /\ \A i \in 1..Len(settlementIds) : settlementIds'[i] = settlementIds[i]
          /\ settlementIds'[Len(settlementIds) + 1] = t
          /\ Len(settlementIds) \in Nat
      BY <1>1 DEF TypeOK
    <3>2. \A i \in 1..Len(settlementIds) : settlementIds[i] # t
      BY <2>1 DEF SettledOnce, Verified, TotalSettlements
    <3>3. \A i \in 1..Len(settlementIds) + 1 : i \in 1..Len(settlementIds) \/ i = Len(settlementIds) + 1
      BY <3>1
    <3>4. \A i, j \in 1..Len(settlementIds') : settlementIds'[i] = settlementIds'[j] => i = j
      BY <3>1, <3>2, <3>3 DEF SettledOnce, TotalSettlements
    <3>5. \A s \in Trades : settlements'[s] # NoCall <=> s = t \/ settlements[s] # NoCall
      BY <1>1 DEF TypeOK
    <3>6. \A s \in Trades : (\E i \in 1..Len(settlementIds') : settlementIds'[i] = s)
                              <=> s = t \/ \E i \in 1..Len(settlementIds) : settlementIds[i] = s
      BY <3>1, <3>3
    <3> QED BY <3>4, <3>5, <3>6 DEF SettledOnce, Verified, TotalSettlements
  <2>3. ReceiptsTrue'
    BY <1>1, <2>1 DEF ReceiptsTrue, TypeOK
  <2>4. SettledByReceipt'
    BY <1>1 DEF SettledByReceipt, TypeOK
  <2> QED BY <2>1, <2>2, <2>3, <2>4 DEF ChainPart, ZeroEmpty
<1>2. CASE Undone
  <2>1. UNCHANGED balance
    BY DEF ExecuteSettle
  <2>2. settlements[t] # c
    BY DEF SettledByReceipt
  <2>3. ReceiptsTrue'
    BY <1>2, <2>1, <2>2 DEF ReceiptsTrue, TypeOK
  <2>4. SettledByReceipt'
    BY <1>2 DEF SettledByReceipt, TypeOK
  <2>5. SettledOnce'
    BY <1>2 DEF SettledOnce, Verified, TotalSettlements
  <2> QED BY <2>1, <2>3, <2>4, <2>5 DEF ChainPart, ZeroEmpty
<1>3. Kept \/ Undone
  BY DEF ExecuteSettle
<1> HIDE DEF Kept, Undone
<1> QED BY <1>1, <1>2, <1>3

LEMMA ExecuteMintStep ==
    ASSUME ChainInv, NEW c \in Calls, NEW a \in Addresses, UNCHANGED job,
           receipt[c] = "pending", job[c].kind = "mint", job[c].address = a,
           \A d \in Calls : receipt[d] # "pending" => job[d] \in Jobs,
           ExecuteMint(c, a), a # Zero
    PROVE  ChainPart'
<1> USE DEF ChainInv
<1>1. /\ balance' = [balance EXCEPT ![a] = @ + 1]
      /\ receipt' = [receipt EXCEPT ![c] = "ok"]
      /\ UNCHANGED <<settlements, settlementIds>>
  BY DEF ExecuteMint
<1>2. \A b \in Addresses : balance'[b] >= balance[b] /\ balance[b] \in Nat
  BY <1>1 DEF TypeOK
<1>3. balance'[a] > 0
  BY <1>1 DEF TypeOK
<1>4. \A d \in Calls : receipt'[d] = IF d = c THEN "ok" ELSE receipt[d]
  BY <1>1 DEF TypeOK
<1>5. ReceiptsTrue'
  <2> SUFFICES ASSUME NEW d \in Calls
               PROVE  /\ receipt'[d] = "ok" =>
                           IF job[d].kind = "settle" THEN settlements[job[d].trade] = d
                                                     ELSE balance'[job[d].address] > 0
                      /\ receipt'[d] = "reverted" =>
                           IF job[d].kind = "settle" THEN settlements[job[d].trade] # d
                                                     ELSE job[d].address = Zero
    BY <1>1 DEF ReceiptsTrue
  <2>1. CASE d = c
    BY <2>1, <1>3, <1>4
  <2>2. CASE d # c
    <3>1. receipt'[d] = receipt[d]
      BY <2>2, <1>4
    <3>2. receipt[d] = "ok" /\ job[d].kind # "settle" => job[d].address \in Addresses
      BY JobFacts
    <3>3. receipt[d] = "ok" /\ job[d].kind # "settle" => balance'[job[d].address] > 0
      <4>1. receipt[d] = "ok" /\ job[d].kind # "settle" => balance[job[d].address] > 0
        BY DEF ReceiptsTrue
      <4>2. SUFFICES ASSUME receipt[d] = "ok", job[d].kind # "settle"
                     PROVE  balance'[job[d].address] > 0
        OBVIOUS
      <4> DEFINE b == job[d].address
      <4>3. b \in Addresses /\ balance[b] > 0
        BY <3>2, <4>1, <4>2
      <4>4. balance[b] \in Nat /\ balance'[b] \in Nat /\ balance'[b] >= balance[b]
        BY <4>3, <1>1, <1>2 DEF TypeOK
      <4> HIDE DEF b
      <4>5. balance'[b] > 0
        BY <4>3, <4>4
      <4> QED BY <4>5 DEF b
    <3>4. receipt[d] = "ok" /\ job[d].kind = "settle" => settlements[job[d].trade] = d
      BY DEF ReceiptsTrue
    <3>5. receipt[d] = "reverted" =>
            IF job[d].kind = "settle" THEN settlements[job[d].trade] # d
                                      ELSE job[d].address = Zero
      BY DEF ReceiptsTrue
    <3> QED BY <3>1, <3>3, <3>4, <3>5
  <2> QED BY <2>1, <2>2
<1>6. SettledByReceipt'
  BY <1>1, <1>4 DEF SettledByReceipt, TypeOK
<1>7. ZeroEmpty'
  BY <1>1, WalletAssumption DEF ZeroEmpty, TypeOK
<1> QED BY <1>1, <1>5, <1>6, <1>7 DEF ChainPart, SettledOnce, Verified, TotalSettlements

\* A mint to the zero address is undone.
LEMMA ExecuteZeroStep ==
    ASSUME ChainInv, NEW c \in Calls, UNCHANGED job, receipt[c] = "pending",
           job[c].kind = "mint", job[c].address = Zero, ExecuteMint(c, Zero)
    PROVE  ChainPart'
<1> USE DEF ChainInv
<1>1. /\ receipt' = [receipt EXCEPT ![c] = "reverted"]
      /\ UNCHANGED <<balance, settlements, settlementIds>>
  BY DEF ExecuteMint
<1>2. ReceiptsTrue'
  BY <1>1 DEF ReceiptsTrue, TypeOK
<1>3. SettledByReceipt'
  BY <1>1 DEF SettledByReceipt, TypeOK
<1> QED BY <1>1, <1>2, <1>3 DEF ChainPart, SettledOnce, Verified, TotalSettlements, ZeroEmpty

LEMMA MineStep ==
    ASSUME ChainInv, NEW x \in pool, Mine(x)
    PROVE  ChainInv'
<1> USE DEF ChainInv
<1> DEFINE c == x.call
<1>1. /\ c \in Calls
      /\ receipt[c] = "pending"
      /\ pool' = {}
      /\ mined' = mined + 1
      /\ UNCHANGED <<serviceVars, callVars>>
      /\ job[c] \in Jobs
  <2>1. c \in Calls /\ receipt[c] = "pending" /\ phase[c] # "idle"
    BY DEF TypeOK, PoolUnmined, CallsInOrder
  <2>2. pool' = {}
    BY DEF Mine, NextIsMinable
  <2> QED BY <2>1, <2>2 DEF Mine, CallsInOrder
<1>2. \A d \in Calls : receipt[d] # "pending" => job[d] \in Jobs
  BY DEF CallsInOrder
<1>3. /\ receipt' \in [Calls -> {"pending", "ok", "reverted"}]
      /\ settlements' \in [Trades -> Calls \cup {NoCall}]
      /\ settlementIds' \in Seq(Trades)
      /\ balance' \in [Addresses -> Nat]
      /\ \A d \in Calls : d # c => receipt'[d] = receipt[d]
      /\ ChainPart'
  <2>1. CASE job[c].kind = "settle"
    <3>1. ExecuteSettle(c, job[c].trade) /\ job[c].trade \in Trades
      BY <2>1, <1>1, JobFacts DEF Mine
    <3>2. ChainPart'
      BY <1>1, <2>1, <3>1, ExecuteSettleStep DEF callVars
    <3>3. \/ receipt' = [receipt EXCEPT ![c] = "ok"]
          \/ receipt' = [receipt EXCEPT ![c] = "reverted"]
      BY <3>1 DEF ExecuteSettle
    <3>4. settlements' \in [Trades -> Calls \cup {NoCall}] /\ UNCHANGED balance
      BY <1>1, <3>1 DEF ExecuteSettle, TypeOK
    <3>5. settlementIds' \in Seq(Trades)
      <4>1. settlementIds \in Seq(Trades)
        BY DEF TypeOK
      <4>2. settlementIds' = settlementIds \/ settlementIds' = Append(settlementIds, job[c].trade)
        BY <3>1 DEF ExecuteSettle
      <4> QED BY <3>1, <4>1, <4>2
    <3> QED BY <1>1, <3>2, <3>3, <3>4, <3>5 DEF TypeOK
  <2>2. CASE job[c].kind # "settle"
    <3>1. ExecuteMint(c, job[c].address) /\ job[c].address \in Addresses /\ job[c].kind = "mint"
      BY <2>2, <1>1, JobFacts DEF Mine
    <3>2. ChainPart'
      BY <1>1, <1>2, <3>1, ExecuteMintStep, ExecuteZeroStep DEF callVars
    <3>3. /\ receipt' \in [Calls -> {"pending", "ok", "reverted"}]
          /\ \A d \in Calls : d # c => receipt'[d] = receipt[d]
          /\ balance' \in [Addresses -> Nat]
      <4> DEFINE a == job[c].address
      <4>1. /\ ExecuteMint(c, a)
            /\ a \in Addresses
            /\ c \in Calls
            /\ receipt \in [Calls -> {"pending", "ok", "reverted"}]
            /\ balance \in [Addresses -> Nat]
        BY <1>1, <3>1 DEF TypeOK
      <4> HIDE DEF a, c
      <4>2. CASE a # Zero
        BY <4>1, <4>2 DEF ExecuteMint
      <4>3. CASE a = Zero
        BY <4>1, <4>3 DEF ExecuteMint
      <4> QED BY <4>2, <4>3
    <3> QED BY <1>1, <3>1, <3>2, <3>3 DEF ExecuteMint, TypeOK
  <2> QED BY <2>1, <2>2
<1>4. TypeOK'
  BY <1>1, <1>3 DEF TypeOK, serviceVars, callVars
<1>5. NextIsMinable' /\ PoolUnmined'
  BY <1>1 DEF NextIsMinable, PoolUnmined
<1>6. CallsInOrder'
  BY <1>1, <1>3 DEF CallsInOrder, callVars
<1>7. AnswersFromReceipts'
  BY <1>1, <1>3 DEF AnswersFromReceipts, callVars
<1> QED BY <1>3, <1>4, <1>5, <1>6, <1>7 DEF ChainPart

LEMMA NextInv == ChainInv /\ [Next]_vars => ChainInv'
<1> SUFFICES ASSUME ChainInv, [Next]_vars
             PROVE  ChainInv'
  OBVIOUS
<1>1. CASE Next
  BY <1>1, RequestStep, ThreadStep, MineStep DEF Next
<1>2. CASE UNCHANGED vars
  BY <1>2, OffChainStep
  DEF ChainInv, vars, serviceVars, callVars, TypeOK, CallsInOrder, AnswersFromReceipts
<1> QED BY <1>1, <1>2

LEMMA Invariant == Spec => []ChainInv
  BY InitInv, NextInv, PTL DEF Spec

-----------------------------------------------------------------------------
\* Every variable keeps its type, and no call signs with a nonce beyond the
\* transactions mined (blockchain_service.py:155).
THEOREM TypeCorrect == Spec => []TypeOK
<1>1. ChainInv => TypeOK
  BY DEF ChainInv
<1> QED BY <1>1, Invariant, PTL

\* However many calls share the account, no transaction waits for a nonce
\* nobody sends (blockchain_service.py:155).
THEOREM NeverStuck == Spec => []NextIsMinable
<1>1. ChainInv => NextIsMinable
  BY DEF ChainInv
<1> QED BY <1>1, Invariant, PTL

\* A trade is settled at most once, whatever timed out, was replaced or was
\* asked for again (TradeSettlement.sol:41).
THEOREM SettlesOnce == Spec => []SettledOnce
<1>1. ChainInv => SettledOnce
  BY DEF ChainInv
<1> QED BY <1>1, Invariant, PTL

\* Whoever is told "confirmed" or "failed" was told the truth, and it stays
\* true, a mint to the zero address included (blockchain_service.py:172, 268).
THEOREM HonestAnswers == Spec => []AnswersTrue
<1>1. ChainInv => AnswersTrue
  <2> SUFFICES ASSUME ChainInv, NEW c \in Calls
               PROVE  /\ answer[c] = "confirmed" =>
                           IF job[c].kind = "settle"
                           THEN Verified(job[c].trade) /\ settlements[job[c].trade] = c
                                       /\ TraderOf(job[c].trade) = job[c].address
                           ELSE TokenBalance(job[c].address) > 0
                      /\ answer[c] = "failed" =>
                           IF job[c].kind = "settle"
                           THEN settlements[job[c].trade] # c
                           ELSE TokenBalance(job[c].address) = 0
    BY DEF AnswersTrue
  <2> QED BY CallsAssumption
          DEF ChainInv, AnswersFromReceipts, ReceiptsTrue, ZeroEmpty, Verified, TraderOf,
              TokenBalance
<1> QED BY <1>1, Invariant, PTL

-----------------------------------------------------------------------------
(* Minting.                                                                *)

\* The claims of an address that were mined, and the books about them.
Minted(a) == {c \in Claims(a) : receipt[c] = "ok"}
MintInv == \A a \in Addresses : IsFiniteSet(Minted(a)) /\ balance[a] = Cardinality(Minted(a))

\* A job whose transaction has a receipt is never replaced.
LEMMA MinedJobsKept ==
    ASSUME ChainInv, [Next]_vars, NEW c \in Calls, receipt[c] # "pending"
    PROVE  job'[c] = job[c]
<1>1. phase[c] # "idle"
  BY DEF ChainInv, CallsInOrder
<1>2. ASSUME NEW d \in Calls, NEW u \in Users, NEW t \in Trades, SettleTrade(d, u, t)
      PROVE  job'[c] = job[c]
  BY <1>1, <1>2 DEF SettleTrade, Starts, ChainInv, TypeOK
<1>3. ASSUME NEW d \in Calls, NEW u \in Users, TokenFaucet(d, u)
      PROVE  job'[c] = job[c]
  BY <1>1, <1>3 DEF TokenFaucet, Starts, ChainInv, TypeOK
<1> QED
  BY <1>2, <1>3 DEF Next, Request, GetStatus, LinkWallet, Thread, ReadNonce, Send, SendRefused,
                    ReadReceipt, TimeOut, NodeFails, Mine, callVars, vars

\* Only the node's step changes balances and receipts.
LEMMA OnlyMined ==
    ASSUME [Next]_vars, \A x \in pool : ~ Mine(x)
    PROVE  UNCHANGED <<balance, receipt>>
BY DEF Next, Request, GetStatus, LinkWallet, SettleTrade, TokenFaucet, Thread, ReadNonce, Send,
       SendRefused, ReadReceipt, TimeOut, NodeFails, chainVars, vars

LEMMA SameMinted ==
    ASSUME ChainInv, MintInv, UNCHANGED balance,
           \A c \in Calls : receipt[c] = "ok" => job'[c] = job[c],
           \A c \in Calls : receipt'[c] = "ok" /\ receipt[c] # "ok" => job'[c].kind # "mint",
           \A c \in Calls : receipt[c] = "ok" => receipt'[c] = "ok"
    PROVE  MintInv'
<1>1. \A a \in Addresses : Minted(a)' = Minted(a)
  BY DEF Minted, Claims
<1> QED
  BY <1>1 DEF MintInv

LEMMA MintStep ==
    ASSUME ChainInv, MintInv, NEW x \in pool, Mine(x)
    PROVE  MintInv'
<1> DEFINE c == x.call
<1>1. c \in Calls /\ receipt[c] = "pending" /\ job[c] \in Jobs /\ UNCHANGED job
  <2>1. c \in Calls /\ receipt[c] = "pending"
    BY DEF ChainInv, TypeOK, PoolUnmined
  <2>2. phase[c] # "idle"
    BY <2>1 DEF ChainInv, CallsInOrder
  <2> QED
    BY <2>1, <2>2 DEF ChainInv, CallsInOrder, Mine, callVars
<1>2. CASE job[c].kind = "settle"
  <2>1. ExecuteSettle(c, job[c].trade)
    BY <1>2 DEF Mine
  <2>2. UNCHANGED balance /\ \A d \in Calls : d # c => receipt'[d] = receipt[d]
    BY <2>1 DEF ExecuteSettle, ChainInv, TypeOK
  <2> QED
    BY <1>1, <1>2, <2>2, SameMinted
<1>3. CASE job[c].kind # "settle"
  <2>0. PICK a \in Addresses : a = job[c].address
    BY <1>1, <1>3, JobFacts
  <2>1. ExecuteMint(c, a) /\ job[c].address = a /\ job[c].kind = "mint"
    BY <1>1, <1>3, <2>0, JobFacts DEF Mine
  <2>8. CASE a = Zero
    <3>1. UNCHANGED balance /\ receipt' = [receipt EXCEPT ![c] = "reverted"]
      BY <2>1, <2>8 DEF ExecuteMint
    <3>2. \A d \in Calls : receipt'[d] = IF d = c THEN "reverted" ELSE receipt[d]
      BY <3>1 DEF ChainInv, TypeOK
    <3> QED
      BY <1>1, <3>1, <3>2, SameMinted
  <2>9. SUFFICES ASSUME a # Zero PROVE MintInv'
    BY <2>8
  <2>2. /\ balance' = [balance EXCEPT ![a] = @ + 1]
        /\ receipt' = [receipt EXCEPT ![c] = "ok"]
    BY <2>1, <2>9 DEF ExecuteMint
  <2>3. c \notin Minted(a) /\ Minted(a)' = Minted(a) \cup {c}
    BY <1>1, <2>1, <2>2 DEF Minted, Claims, ChainInv, TypeOK
  <2>4. \A b \in Addresses \ {a} : Minted(b)' = Minted(b)
    BY <1>1, <2>1, <2>2 DEF Minted, Claims, ChainInv, TypeOK
  <2> HIDE DEF c
  <2>5. IsFiniteSet(Minted(a)') /\ Cardinality(Minted(a)') = Cardinality(Minted(a)) + 1
    BY <2>1, <2>3, FS_AddElement DEF MintInv
  <2>6. \A b \in Addresses : balance'[b] = IF b = a THEN balance[b] + 1 ELSE balance[b]
    BY <2>2 DEF ChainInv, TypeOK
  <2>7. ASSUME NEW b \in Addresses
        PROVE  IsFiniteSet(Minted(b)') /\ balance'[b] = Cardinality(Minted(b)')
    <3>1. IsFiniteSet(Minted(b)) /\ balance[b] = Cardinality(Minted(b))
      BY DEF MintInv
    <3>2. CASE b = a
      BY <2>5, <2>6, <3>1, <3>2
    <3>3. CASE b # a
      <4>1. Minted(b)' = Minted(b) /\ balance'[b] = balance[b]
        BY <2>4, <2>6, <3>3
      <4> QED
        BY <3>1, <4>1
    <3> QED
      BY <3>2, <3>3
  <2> QED
    BY <2>7 DEF MintInv
<1> QED
  BY <1>2, <1>3

\* One claim mints at most once, whatever its caller was told and however many
\* calls share the account (blockchain_service.py:252): an address has one
\* share for each of its claims that were mined, the confirmed ones included.
THEOREM MintsOnce == Spec => []MintedOnce
<1>1. Init => MintInv
  <2> SUFFICES ASSUME Init PROVE MintInv
    OBVIOUS
  <2>1. \A a \in Addresses : Minted(a) = {} /\ balance[a] = 0
    BY DEF Init, Minted, Claims
  <2> QED
    BY <2>1, FS_EmptySet DEF MintInv
<1>2. ChainInv /\ MintInv /\ [Next]_vars => MintInv'
  <2> SUFFICES ASSUME ChainInv, MintInv, [Next]_vars PROVE MintInv'
    OBVIOUS
  <2>1. CASE \A x \in pool : ~ Mine(x)
    BY <2>1, OnlyMined, MinedJobsKept, SameMinted
  <2> QED
    BY <2>1, MintStep
<1>3. ChainInv /\ MintInv => MintedOnce
  <2> SUFFICES ASSUME ChainInv, MintInv, NEW a \in Addresses
               PROVE  /\ balance[a] = Cardinality({c \in Claims(a) : receipt[c] = "ok"})
                      /\ Cardinality({c \in Claims(a) : answer[c] = "confirmed"}) <= balance[a]
    BY DEF MintedOnce, TokenBalance
  <2>1. {c \in Claims(a) : answer[c] = "confirmed"} \subseteq Minted(a)
    BY DEF Minted, Claims, ChainInv, AnswersFromReceipts
  <2>2. IsFiniteSet(Minted(a)) /\ balance[a] = Cardinality(Minted(a))
    BY DEF MintInv
  <2>3. Cardinality({c \in Claims(a) : answer[c] = "confirmed"}) <= Cardinality(Minted(a))
    BY <2>1, <2>2, FS_Subset
  <2> QED
    BY <2>2, <2>3 DEF Minted
<1> QED
  BY <1>1, <1>2, <1>3, Invariant, PTL DEF Spec
=============================================================================
