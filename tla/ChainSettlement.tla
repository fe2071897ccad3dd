--------------------------- MODULE ChainSettlement ---------------------------
(***************************************************************************)
(* Settlement of trades on a chain (services/blockchain_service.py behind  *)
(* api/v1/blockchain.py), with the contracts TradeSettlement and           *)
(* TradeOffToken and, as an environment, the node that holds the deployer  *)
(* account's transactions and mines them.                                  *)
(*                                                                         *)
(* A call is one POST /settle or /token/faucet.  Each runs in a thread of  *)
(* its own: it reads the account's nonce, signs, sends and waits for the   *)
(* receipt for 60 seconds.  All calls send from the one deployer account   *)
(* and nothing serialises them, so two of them sign with one nonce; the    *)
(* node refuses the second or lets it replace the first.  Whatever goes    *)
(* wrong in a thread is the same answer, None, which the route turns into  *)
(* "Settlement transaction failed".                                        *)
(***************************************************************************)
EXTENDS Naturals, FiniteSets, Sequences

CONSTANTS
    Calls,      \* numbered in the order they come
    Users,
    Trades,
    Party,      \* Party[t]: the taker and the maker of the trade
    Addresses,  \* what link_wallet accepts: "0x" and 40 characters more
    Zero,       \* the zero address, which is one of them
    NoWallet,
    NoCall

ASSUME CallsAssumption == Calls \subseteq Nat /\ NoCall \notin Calls
ASSUME PartyAssumption == Party \in [Trades -> SUBSET Users]
ASSUME WalletAssumption == Zero \in Addresses /\ NoWallet \notin Addresses

VARIABLES
    service,       \* what _ensure_init found, "unused" before it ran
    linked,        \* linked[u]: users.eth_wallet
    phase,         \* phase[c]: how far the call's thread is
    job,           \* job[c]: what it is to send
    nonce,         \* nonce[c]: the nonce it signed with
    answer,        \* answer[c]: "none" for None
    pool,          \* transactions the node holds: [call, nonce]
    mined,         \* the account's transaction count
    receipt,       \* receipt[c]: the status of its mined transaction
    settlements,   \* settlements[t]: the call whose arguments the contract keeps
    settlementIds, \* the contract's list of settled trades
    balance        \* balance[a]: claims the token contract credited

serviceVars == <<service, linked>>
callVars == <<phase, job, nonce, answer>>
chainVars == <<pool, mined, receipt, settlements, settlementIds, balance>>
vars == <<serviceVars, callVars, chainVars>>

\* A settlement names the zero address for a user who linked no wallet.
Settle(u, t) == [kind |-> "settle", trade |-> t,
                 address |-> IF linked[u] = NoWallet THEN Zero ELSE linked[u]]
Claim(u) == [kind |-> "mint", address |-> linked[u]]

Jobs == [kind : {"settle"}, trade : Trades, address : Addresses]
          \cup [kind : {"mint"}, address : Addresses]
Nothing == [kind |-> "nothing"]

Init ==
    /\ service = "unused"
    /\ linked = [u \in Users |-> NoWallet]
    /\ phase = [c \in Calls |-> "idle"]
    /\ job = [c \in Calls |-> Nothing]
    /\ nonce = [c \in Calls |-> 0]
    /\ answer = [c \in Calls |-> "open"]
    /\ pool = {}
    /\ mined = 0
    /\ receipt = [c \in Calls |-> "pending"]
    /\ settlements = [t \in Trades |-> NoCall]
    /\ settlementIds = <<>>
    /\ balance = [a \in Addresses |-> 0]

-----------------------------------------------------------------------------
(* The routes.                                                             *)

\* What the first attempt finds is kept for good: no node, no deployment or
\* no ABI is "off", no deployer key is "readonly", and the token contract may
\* be missing.
EnsureInit ==
    service' \in IF service = "unused" THEN {"off", "readonly", "tokenless", "full"}
                                       ELSE {service}

CanWrite(s) == s \in {"tokenless", "full"}

\* A request that only asks whether the service is there, or that is turned
\* away with 503, 404 or 400.
GetStatus ==
    /\ EnsureInit
    /\ UNCHANGED <<linked, callVars, chainVars>>

LinkWallet(u, a) ==
    /\ linked' = [linked EXCEPT ![u] = a]
    /\ UNCHANGED <<service, callVars, chainVars>>

Starts(c) == /\ phase[c] = "idle"
             /\ \A d \in Calls : d < c => phase[d] # "idle"

\* Either party asks; the address is the one linked now.
SettleTrade(c, u, t) ==
    /\ Starts(c)
    /\ EnsureInit
    /\ CanWrite(service')
    /\ u \in Party[t]
    /\ job' = [job EXCEPT ![c] = Settle(u, t)]
    /\ phase' = [phase EXCEPT ![c] = "started"]
    /\ UNCHANGED <<linked, nonce, answer, chainVars>>

\* token_faucet up to faucet_tokens' own test for the token contract.
TokenFaucet(c, u) ==
    /\ Starts(c)
    /\ EnsureInit
    /\ CanWrite(service')
    /\ linked[u] # NoWallet
    /\ job' = [job EXCEPT ![c] = Claim(u)]
    /\ IF service' = "full"
       THEN phase' = [phase EXCEPT ![c] = "started"] /\ UNCHANGED answer
       ELSE /\ phase' = [phase EXCEPT ![c] = "done"]
            /\ answer' = [answer EXCEPT ![c] = "none"]
    /\ UNCHANGED <<linked, nonce, chainVars>>

-----------------------------------------------------------------------------
(* The thread: _send of settle_trade_on_chain and of faucet_tokens.        *)

\* Mutant of NextNonce: transactions that wait in the pool are counted.
PendingCount == mined + Cardinality(pool)

\* get_transaction_count counts mined transactions.
NextNonce == mined

ReadNonce(c) ==
    /\ phase[c] = "started"
    /\ nonce' = [nonce EXCEPT ![c] = NextNonce]
    /\ phase' = [phase EXCEPT ![c] = "signed"]
    /\ UNCHANGED <<serviceVars, job, answer, chainVars>>

SameNonce(c) == {x \in pool : x.nonce = nonce[c]}

Give(c, a) == /\ phase' = [phase EXCEPT ![c] = "done"]
              /\ answer' = [answer EXCEPT ![c] = a]

\* The node takes the transaction, in place of one with its nonce if the gas
\* price has risen enough.
Send(c) ==
    /\ phase[c] = "signed"
    /\ nonce[c] >= mined
    /\ pool' = (pool \ SameNonce(c)) \cup {[call |-> c, nonce |-> nonce[c]]}
    /\ phase' = [phase EXCEPT ![c] = "waiting"]
    /\ UNCHANGED <<serviceVars, job, nonce, answer, mined, receipt, settlements,
                   settlementIds, balance>>

\* "nonce too low", "already known", "replacement transaction underpriced".
SendRefused(c) ==
    /\ phase[c] = "signed"
    /\ nonce[c] < mined \/ SameNonce(c) # {}
    /\ Give(c, "none")
    /\ UNCHANGED <<serviceVars, job, nonce, chainVars>>

\* Mutant of Outcome: a receipt is taken for success.
AnyReceipt(status) == "confirmed"

Outcome(status) == IF status = "ok" THEN "confirmed" ELSE "failed"

ReadReceipt(c) ==
    /\ phase[c] = "waiting"
    /\ receipt[c] # "pending"
    /\ Give(c, Outcome(receipt[c]))
    /\ UNCHANGED <<serviceVars, job, nonce, chainVars>>

\* Mutant of AfterTimeout: the call tries again with a fresh nonce.
TryAgain(c) == /\ phase' = [phase EXCEPT ![c] = "started"]
               /\ UNCHANGED answer

\* Mutant of AfterTimeout: it goes on waiting.
KeepWaiting(c) == UNCHANGED <<phase, answer>>

\* The exception is swallowed; the transaction stays where it is.
AfterTimeout(c) == Give(c, "none")

TimeOut(c) ==
    /\ phase[c] = "waiting"
    /\ AfterTimeout(c)
    /\ UNCHANGED <<serviceVars, job, nonce, chainVars>>

\* The node does not answer one of the thread's requests.
NodeFails(c) ==
    /\ phase[c] \in {"started", "signed", "waiting"}
    /\ Give(c, "none")
    /\ UNCHANGED <<serviceVars, job, nonce, chainVars>>

-----------------------------------------------------------------------------
(* The chain.                                                              *)

\* Mutant of Settleable: the contract does not require a new trade.
AnyTrade(t) == TRUE

\* settleTrade: require(!settlements[_tradeId].exists).
Settleable(t) == settlements[t] = NoCall

\* settleTrade keeps the arguments and pushes, or is undone: the trade is
\* there, or the network's price of storage is beyond the service's gas limit.
ExecuteSettle(c, t) ==
    /\ \/ /\ Settleable(t)
          /\ settlements' = [settlements EXCEPT ![t] = c]
          /\ settlementIds' = Append(settlementIds, t)
          /\ receipt' = [receipt EXCEPT ![c] = "ok"]
       \/ /\ receipt' = [receipt EXCEPT ![c] = "reverted"]
          /\ UNCHANGED <<settlements, settlementIds>>
    /\ UNCHANGED balance

\* The token's _mint reverts for the zero address, and for no other.
ExecuteMint(c, a) ==
    /\ \/ /\ a # Zero
          /\ balance' = [balance EXCEPT ![a] = @ + 1]
          /\ receipt' = [receipt EXCEPT ![c] = "ok"]
       \/ /\ a = Zero
          /\ receipt' = [receipt EXCEPT ![c] = "reverted"]
          /\ UNCHANGED balance
    /\ UNCHANGED <<settlements, settlementIds>>

\* The node mines the transaction with the account's next nonce.
Mine(x) ==
    /\ x.nonce = mined
    /\ pool' = pool \ {x}
    /\ mined' = mined + 1
    /\ IF job[x.call].kind = "settle" THEN ExecuteSettle(x.call, job[x.call].trade)
                                      ELSE ExecuteMint(x.call, job[x.call].address)
    /\ UNCHANGED <<serviceVars, callVars>>

-----------------------------------------------------------------------------
(* What readers are told.                                                  *)

Verified(t) == settlements[t] # NoCall
TraderOf(t) == job[settlements[t]].address
TotalSettlements == Len(settlementIds)
TokenBalance(a) == balance[a]

Request == \/ GetStatus
           \/ \E u \in Users, a \in Addresses : LinkWallet(u, a)
           \/ \E c \in Calls, u \in Users, t \in Trades : SettleTrade(c, u, t)
           \/ \E c \in Calls, u \in Users : TokenFaucet(c, u)

Thread(c) == ReadNonce(c) \/ Send(c) \/ SendRefused(c) \/ ReadReceipt(c) \/ TimeOut(c)

Next == \/ Request
        \/ \E c \in Calls : Thread(c) \/ NodeFails(c)
        \/ \E x \in pool : Mine(x)

\* Threads run; nobody has to call, and the node need not mine.
Spec == Init /\ [][Next]_vars /\ \A c \in Calls : WF_vars(Thread(c))

-----------------------------------------------------------------------------
(* Properties.                                                             *)

\* Variables have their types, and no call signs with a nonce of the future
\* (blockchain_service.py:155, 254).
TypeOK ==
    /\ service \in {"unused", "off", "readonly", "tokenless", "full"}
    /\ linked \in [Users -> Addresses \cup {NoWallet}]
    /\ phase \in [Calls -> {"idle", "started", "signed", "waiting", "done"}]
    /\ job \in [Calls -> Jobs \cup {Nothing}]
    /\ nonce \in [Calls -> Nat]
    /\ \A c \in Calls : nonce[c] <= mined
    /\ answer \in [Calls -> {"open", "none", "failed", "confirmed"}]
    /\ pool \subseteq [call : Calls, nonce : Nat]
    /\ mined \in Nat
    /\ receipt \in [Calls -> {"pending", "ok", "reverted"}]
    /\ settlements \in [Trades -> Calls \cup {NoCall}]
    /\ settlementIds \in Seq(Trades)
    /\ balance \in [Addresses -> Nat]

\* A trade is settled at most once however often its parties ask, time out
\* and ask again: the list the count is taken from names every verified trade
\* exactly once (TradeSettlement.sol:41, blockchain_service.py:277).
SettledOnce ==
    /\ \A i, j \in 1..TotalSettlements : settlementIds[i] = settlementIds[j] => i = j
    /\ \A t \in Trades : Verified(t) <=> \E i \in 1..TotalSettlements : settlementIds[i] = t

\* The answers that say something are true, and stay so: "confirmed" to a
\* settlement means that verify shows this very call's address, "failed" that
\* it never will; a claim that is confirmed was credited, and an address whose
\* claim failed, as the zero address's does, holds nothing
\* (blockchain_service.py:172, 268).
AnswersTrue ==
    \A c \in Calls :
      /\ answer[c] = "confirmed" =>
           IF job[c].kind = "settle"
           THEN Verified(job[c].trade) /\ settlements[job[c].trade] = c
                                       /\ TraderOf(job[c].trade) = job[c].address
           ELSE TokenBalance(job[c].address) > 0
      /\ answer[c] = "failed" =>
           IF job[c].kind = "settle"
           THEN settlements[job[c].trade] # c
           ELSE TokenBalance(job[c].address) = 0

\* Calls that share the account never leave a transaction waiting behind a
\* nonce that nobody sends: the node holds at most one, and it is the next to
\* be mined (blockchain_service.py:155).
NextIsMinable ==
    /\ \A x \in pool : x.nonce = mined
    /\ \A x, y \in pool : x = y

Claims(a) == {c \in Calls : job[c].kind = "mint" /\ job[c].address = a}

\* One claim mints at most once, whatever its answer was: what an address has
\* is one share for each of its claims that were mined, and every confirmed
\* claim is among them (blockchain_service.py:252).
MintedOnce ==
    \A a \in Addresses :
      /\ TokenBalance(a) = Cardinality({c \in Claims(a) : receipt[c] = "ok"})
      /\ Cardinality({c \in Claims(a) : answer[c] = "confirmed"}) <= TokenBalance(a)

\* Every call is answered, also when its transaction was replaced and will
\* never have a receipt (blockchain_service.py:162).
CallsAnswered == \A c \in Calls : phase[c] # "idle" ~> answer[c] # "open"
=============================================================================
