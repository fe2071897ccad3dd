--------------------------- MODULE DeliveryProofs ---------------------------
(***************************************************************************)
(* Proofs about Delivery, for any number of transfers and workers and any  *)
(* limits.                                                                 *)
(***************************************************************************)
EXTENDS Delivery, TLAPS

\* What the row locks give: a run's rows are committed, pending and its own,
\* and it hands over only rows it has locked and gone past.
RunsApart ==
    /\ \A w \in Workers : w \notin publishing => batch[w] = {}
    /\ \A w \in Workers : rest[w] \subseteq batch[w] /\ handed[w] \subseteq batch[w] \ rest[w]
    /\ \A w \in Workers : \A t \in batch[w] :
         creation[t] = "committed" /\ event[t].status = "PENDING"
    /\ \A v, w \in Workers : v # w => batch[v] \cap batch[w] = {}

\* Only tasks that have found their row are running or have sent anything.
TasksSeeRows ==
    \A t \in Transfers : task[t] = "running" => completion[t] = "committed"

\* Only events of committed transactions have been settled.
SettledCommitted ==
    \A t \in Transfers : event[t].status # "PENDING" => creation[t] = "committed"

\* The inductive invariant behind NoPhantoms, HandedOnce and the refinement.
DeliveryInv ==
    TypeOK /\ RunsApart /\ TasksSeeRows /\ SettledCommitted /\ NoPhantoms /\ HandedOnce

-----------------------------------------------------------------------------
\* An event after a failed attempt is a well-formed row, and pending only
\* below the limit.
LEMMA FailedRow ==
    ASSUME NEW row \in Row, row.status = "PENDING", row.attempts < MaxAttempts
    PROVE  /\ AfterFailure(row) \in Row
           /\ AfterFailure(row).status = "PENDING" => AfterFailure(row).attempts < MaxAttempts
           /\ AfterFailure(row).status # "PUBLISHED"
  BY LimitsAssumption DEF AfterFailure, Row

\* The rows a run selects are committed, pending and nobody's.
LEMMA SelectedRows ==
    ASSUME NEW w \in Workers
    PROVE  Oldest(Selectable(w)) \subseteq
             {t \in Transfers : /\ creation[t] = "committed"
                                /\ event[t].status = "PENDING"
                                /\ \A v \in Workers : t \notin batch[v]}
  BY DEF Oldest, Selectable

LEMMA InitInv == Init => DeliveryInv
  BY LimitsAssumption
  DEF Init, DeliveryInv, TypeOK, RunsApart, TasksSeeRows, SettledCommitted, NoPhantoms, HandedOnce,
      Row, Published, InRun

-----------------------------------------------------------------------------
(* The steps of requests and of notification tasks leave runs alone.       *)

LEMMA RequestStep ==
    ASSUME DeliveryInv, NEW t \in Transfers, Request(t)
    PROVE  DeliveryInv'
<1> USE DEF DeliveryInv
<1>1. /\ UNCHANGED <<event, runVars, historyVars, losses, pushed, sent, early>>
      /\ creation' \in [Transfers -> {"none", "open", "committed"}]
      /\ completion' \in [Transfers -> {"none", "open", "committed"}]
      /\ task' \in [Transfers -> {"none", "queued", "running", "done"}]
      /\ told' \subseteq Transfers
      /\ \A x \in Transfers : creation[x] = "committed" => creation'[x] = "committed"
      /\ \A x \in Transfers : completion[x] = "committed" => completion'[x] = "committed"
      /\ \A x \in Transfers : task'[x] = "running" => task[x] = "running"
  BY DEF TypeOK, Request, Create, CommitCreation, Complete, Dispatch, CommitCompletion,
         requestVars, taskVars
<1>2. TypeOK'
  BY <1>1 DEF TypeOK, runVars, historyVars
<1>3. RunsApart' /\ TasksSeeRows' /\ SettledCommitted'
  BY <1>1 DEF RunsApart, TasksSeeRows, SettledCommitted, runVars, TypeOK
<1>4. NoPhantoms'
  BY <1>1 DEF NoPhantoms, historyVars
<1>5. HandedOnce'
  BY <1>1 DEF HandedOnce, Published, InRun, historyVars, runVars
<1> QED BY <1>2, <1>3, <1>4, <1>5

LEMMA NotifierStep ==
    ASSUME DeliveryInv, NEW t \in Transfers, Notifier(t) \/ LoseTask(t)
    PROVE  DeliveryInv'
<1> USE DEF DeliveryInv
<1>1. /\ UNCHANGED <<requestVars, event, runVars, historyVars, told>>
      /\ task' \in [Transfers -> {"none", "queued", "running", "done"}]
      /\ pushed' \in [Transfers -> BOOLEAN]
      /\ sent' \in [Transfers -> Nat]
      /\ early' \subseteq Transfers
      /\ losses' \in 0..MaxLosses
      /\ \A x \in Transfers : task'[x] = "running" => completion[x] = "committed"
      /\ \A x \in Transfers : sent'[x] > 0 => sent[x] > 0 \/ completion[x] = "committed"
  <2>1. CASE FindNothing(t)
    BY <2>1 DEF TypeOK, TasksSeeRows, FindNothing
  <2>2. CASE SendOut(t)
    BY <2>2 DEF TypeOK, TasksSeeRows, SendOut
  <2>3. CASE FinishTask(t)
    BY <2>3 DEF TypeOK, TasksSeeRows, FinishTask
  <2>4. CASE LoseTask(t)
    <3>1. pushed' \in [Transfers -> BOOLEAN]
      BY <2>4 DEF TypeOK, LoseTask
    <3> QED BY <2>4, <3>1, LimitsAssumption DEF TypeOK, TasksSeeRows, LoseTask, AfterLoss
  <2> QED BY <2>1, <2>2, <2>3, <2>4 DEF Notifier
<1>2. TypeOK'
  BY <1>1 DEF TypeOK, runVars, historyVars, requestVars
<1>3. RunsApart' /\ TasksSeeRows' /\ SettledCommitted'
  BY <1>1 DEF RunsApart, TasksSeeRows, SettledCommitted, runVars, requestVars
<1>4. NoPhantoms'
  BY <1>1 DEF NoPhantoms, historyVars, requestVars
<1>5. HandedOnce'
  BY <1>1 DEF HandedOnce, Published, InRun, historyVars, runVars
<1> QED BY <1>2, <1>3, <1>4, <1>5

-----------------------------------------------------------------------------
(* The steps of a run.                                                     *)

LEMMA StartStep ==
    ASSUME DeliveryInv, NEW w \in Workers, StartRun(w)
    PROVE  DeliveryInv'
<1> USE DEF DeliveryInv
<1> DEFINE rows == Oldest(Selectable(w))
<1>1. rows \subseteq {t \in Transfers : /\ creation[t] = "committed"
                                        /\ event[t].status = "PENDING"
                                        /\ \A v \in Workers : t \notin batch[v]}
  BY SelectedRows
<1>2. /\ batch' = [batch EXCEPT ![w] = rows]
      /\ rest' = [rest EXCEPT ![w] = rows]
      /\ handed' = [handed EXCEPT ![w] = {}]
      /\ publishing' = publishing \cup {w}
      /\ w \notin publishing
      /\ UNCHANGED <<requestVars, event, taskVars, historyVars, losses>>
  BY DEF StartRun
<1> HIDE DEF rows
<1>3. TypeOK'
  BY <1>1, <1>2 DEF TypeOK, requestVars, taskVars, historyVars
<1>4. RunsApart'
  BY <1>1, <1>2 DEF RunsApart, TypeOK, requestVars
<1>5. TasksSeeRows' /\ SettledCommitted' /\ NoPhantoms'
  BY <1>2 DEF TasksSeeRows, SettledCommitted, NoPhantoms, requestVars, taskVars, historyVars
<1>6. handed[w] = {}
  BY <1>2 DEF RunsApart
<1>7. \A t \in Transfers : InRun(t)' = InRun(t)
  BY <1>2, <1>6 DEF InRun, TypeOK
<1>8. HandedOnce'
  BY <1>2, <1>7 DEF HandedOnce, Published, historyVars
<1> QED BY <1>3, <1>4, <1>5, <1>8

LEMMA ProduceStep ==
    ASSUME DeliveryInv, NEW w \in Workers, NEW t \in Transfers, Produce(w, t)
    PROVE  DeliveryInv'
<1> USE DEF DeliveryInv
<1>1. /\ t \in rest[w]
      /\ rest' = [rest EXCEPT ![w] = @ \ {t}]
      /\ handed' = [handed EXCEPT ![w] = @ \cup {t}]
      /\ produced' = [produced EXCEPT ![t] = @ + 1]
      /\ UNCHANGED <<requestVars, event, publishing, batch, taskVars, undone, losses>>
  BY DEF Produce, IsNext
<1>2. t \in batch[w] /\ creation[t] = "committed" /\ event[t].status = "PENDING"
  BY <1>1 DEF RunsApart
<1>3. \A v \in Workers : t \notin handed[v]
  BY <1>1, <1>2 DEF RunsApart, TypeOK
<1>4. TypeOK'
  BY <1>1 DEF TypeOK, requestVars, taskVars
<1>5. RunsApart'
  BY <1>1, <1>2 DEF RunsApart, TypeOK, requestVars
<1>6. TasksSeeRows' /\ SettledCommitted' /\ NoPhantoms'
  BY <1>1, <1>2 DEF TasksSeeRows, SettledCommitted, NoPhantoms, requestVars, taskVars, TypeOK
<1>7. InRun(t) = 0 /\ InRun(t)' = 1
  BY <1>1, <1>3 DEF InRun, TypeOK
<1>8. \A x \in Transfers \ {t} : InRun(x)' = InRun(x)
  BY <1>1 DEF InRun, TypeOK
<1>9. HandedOnce'
  BY <1>1, <1>7, <1>8 DEF HandedOnce, Published, TypeOK
<1> QED BY <1>4, <1>5, <1>6, <1>9

LEMMA ProduceFailsStep ==
    ASSUME DeliveryInv, NEW w \in Workers, NEW t \in Transfers, ProduceFails(w, t)
    PROVE  DeliveryInv'
<1> USE DEF DeliveryInv
<1>1. /\ t \in rest[w]
      /\ rest' = [rest EXCEPT ![w] = @ \ {t}]
      /\ UNCHANGED <<requestVars, event, publishing, batch, handed, taskVars,
                     historyVars, losses>>
  BY DEF ProduceFails, IsNext
<1>2. TypeOK'
  BY <1>1 DEF TypeOK, requestVars, taskVars, historyVars
<1>3. RunsApart'
  BY <1>1 DEF RunsApart, TypeOK, requestVars
<1>4. TasksSeeRows' /\ SettledCommitted' /\ NoPhantoms'
  BY <1>1 DEF TasksSeeRows, SettledCommitted, NoPhantoms, requestVars, taskVars, historyVars
<1>5. HandedOnce'
  BY <1>1 DEF HandedOnce, Published, InRun, historyVars
<1> QED BY <1>2, <1>3, <1>4, <1>5

\* What is in a run of w is in no other run.
LEMMA OnlyRun ==
    ASSUME DeliveryInv, NEW w \in Workers, NEW t \in handed[w]
    PROVE  /\ t \in Transfers /\ t \in batch[w]
           /\ \A v \in Workers \ {w} : t \notin handed[v]
  BY DEF DeliveryInv, RunsApart, TypeOK

\* A run that ends takes what it has handed over out of the count.
LEMMA EndedRun ==
    ASSUME DeliveryInv, NEW w \in Workers, EndRun(w)
    PROVE  \A t \in Transfers :
             InRun(t)' = IF t \in handed[w] THEN 0 ELSE InRun(t)
<1> SUFFICES ASSUME NEW t \in Transfers
             PROVE  InRun(t)' = IF t \in handed[w] THEN 0 ELSE InRun(t)
  OBVIOUS
<1>1. \A v \in Workers : handed'[v] = IF v = w THEN {} ELSE handed[v]
  BY DEF EndRun, DeliveryInv, TypeOK
<1>2. CASE t \in handed[w]
  <2>1. \A v \in Workers \ {w} : t \notin handed[v]
    BY <1>2, OnlyRun
  <2> QED BY <1>1, <1>2, <2>1 DEF InRun
<1>3. CASE t \notin handed[w]
  BY <1>1, <1>3 DEF InRun
<1> QED BY <1>2, <1>3

\* With the run its locks are gone; nobody else's row has changed.
LEMMA EndedRunsApart ==
    ASSUME DeliveryInv, NEW w \in Workers, EndRun(w),
           \A t \in Transfers : t \notin batch[w] => event'[t] = event[t]
    PROVE  RunsApart'
<1> USE DEF DeliveryInv
<1>1. /\ \A v \in Workers : /\ batch'[v] = IF v = w THEN {} ELSE batch[v]
                            /\ rest'[v] = IF v = w THEN {} ELSE rest[v]
                            /\ handed'[v] = IF v = w THEN {} ELSE handed[v]
      /\ publishing' = publishing \ {w}
      /\ creation' = creation
  BY DEF EndRun, TypeOK, requestVars
<1>2. \A v \in Workers \ {w} : \A t \in batch[v] : t \in Transfers /\ t \notin batch[w]
  BY DEF RunsApart, TypeOK
<1> QED BY <1>1, <1>2 DEF RunsApart

LEMMA CommitStep ==
    ASSUME DeliveryInv, NEW w \in Workers, CommitRun(w)
    PROVE  DeliveryInv'
<1> USE DEF DeliveryInv
<1> DEFINE After(t) == IF t \in handed[w] THEN [event[t] EXCEPT !.status = "PUBLISHED"]
                       ELSE IF t \in batch[w] THEN AfterFailure(event[t])
                       ELSE event[t]
<1>1. /\ event' = [t \in Transfers |-> After(t)]
      /\ EndRun(w)
      /\ UNCHANGED <<undone, losses>>
  BY DEF CommitRun
<1>2. \A t \in batch[w] : t \in Transfers /\ event[t] \in Row /\ event[t].status = "PENDING"
                           /\ event[t].attempts < MaxAttempts
  BY DEF RunsApart, TypeOK
<1>3. \A t \in Transfers : /\ After(t) \in Row
                           /\ After(t).status = "PENDING" => After(t).attempts < MaxAttempts
  <2> SUFFICES ASSUME NEW t \in Transfers
               PROVE  /\ After(t) \in Row
                      /\ After(t).status = "PENDING" => After(t).attempts < MaxAttempts
    OBVIOUS
  <2>1. CASE t \in handed[w]
    <3>1. event[t] \in Row
      BY DEF TypeOK
    <3> QED BY <2>1, <3>1 DEF Row
  <2>2. CASE t \notin handed[w] /\ t \in batch[w]
    BY <1>2, <2>2, FailedRow
  <2>3. CASE t \notin handed[w] /\ t \notin batch[w]
    BY <2>3 DEF TypeOK
  <2> QED BY <2>1, <2>2, <2>3
<1>4. \A t \in Transfers : event'[t] = After(t)
  BY <1>1
<1>5. TypeOK'
  <2>1. event' \in [Transfers -> Row]
    BY <1>1, <1>3
  <2>2. \A t \in Transfers : event'[t].status = "PENDING" => event'[t].attempts < MaxAttempts
    BY <1>3, <1>4
  <2> HIDE DEF After
  <2> QED BY <1>1, <2>1, <2>2 DEF TypeOK, EndRun, requestVars, taskVars
<1>6. RunsApart'
  <2>1. \A t \in Transfers : t \notin batch[w] => event'[t] = event[t]
    BY <1>4 DEF RunsApart
  <2> QED BY <1>1, <2>1, EndedRunsApart
<1>7. TasksSeeRows' /\ NoPhantoms'
  BY <1>1 DEF EndRun, TasksSeeRows, NoPhantoms, requestVars, taskVars
<1>9. SettledCommitted'
  <2>1. \A t \in Transfers : t \notin batch[w] => event'[t] = event[t]
    BY <1>4 DEF RunsApart
  <2> QED BY <1>1, <2>1 DEF SettledCommitted, RunsApart, EndRun, requestVars
<1>8. HandedOnce'
  <2> SUFFICES ASSUME NEW t \in Transfers
               PROVE  produced'[t] = undone'[t] + Published(t)' + InRun(t)'
    BY DEF HandedOnce
  <2>1. /\ produced'[t] = undone[t] + Published(t) + InRun(t)
        /\ undone'[t] = undone[t] /\ undone[t] \in Nat
    BY <1>1 DEF HandedOnce, EndRun, TypeOK
  <2>2. InRun(t)' = IF t \in handed[w] THEN 0 ELSE InRun(t)
    BY <1>1, EndedRun
  <2>3. CASE t \in handed[w]
    <3>1. event[t].status = "PENDING" /\ event[t] \in Row
      BY <1>2, <2>3, OnlyRun
    <3>2. event'[t].status = "PUBLISHED"
      BY <1>4, <2>3, <3>1 DEF Row
    <3>3. InRun(t) = 1
      BY <2>3 DEF InRun
    <3> QED BY <2>1, <2>2, <2>3, <3>1, <3>2, <3>3 DEF Published
  <2>4. CASE t \notin handed[w]
    <3>1. event'[t].status = "PUBLISHED" <=> event[t].status = "PUBLISHED"
      <4>1. CASE t \in batch[w]
        <5>1. AfterFailure(event[t]).status # "PUBLISHED"
          BY <1>2, <4>1, FailedRow
        <5> QED BY <1>2, <1>4, <2>4, <4>1, <5>1
      <4>2. CASE t \notin batch[w]
        BY <1>4, <2>4, <4>2
      <4> QED BY <4>1, <4>2
    <3> QED BY <2>1, <2>2, <2>4, <3>1 DEF Published
  <2> QED BY <2>3, <2>4
<1> QED BY <1>5, <1>6, <1>7, <1>8, <1>9

LEMMA LoseStep ==
    ASSUME DeliveryInv, NEW w \in Workers, LoseRun(w)
    PROVE  DeliveryInv'
<1> USE DEF DeliveryInv
<1>1. /\ EndRun(w)
      /\ losses' \in 0..MaxLosses
      /\ undone' = [t \in Transfers |-> IF t \in handed[w] THEN undone[t] + 1 ELSE undone[t]]
      /\ UNCHANGED event
  BY LimitsAssumption DEF LoseRun, TypeOK
<1>2. TypeOK'
  BY <1>1 DEF TypeOK, EndRun, requestVars, taskVars
<1>3. RunsApart'
  BY <1>1, EndedRunsApart
<1>4. TasksSeeRows' /\ SettledCommitted' /\ NoPhantoms'
  BY <1>1 DEF EndRun, TasksSeeRows, SettledCommitted, NoPhantoms, requestVars, taskVars
<1>5. HandedOnce'
  <2> SUFFICES ASSUME NEW t \in Transfers
               PROVE  produced'[t] = undone'[t] + Published(t)' + InRun(t)'
    BY DEF HandedOnce
  <2>1. /\ produced'[t] = undone[t] + Published(t) + InRun(t)
        /\ Published(t)' = Published(t) /\ undone[t] \in Nat
        /\ undone'[t] = IF t \in handed[w] THEN undone[t] + 1 ELSE undone[t]
    BY <1>1 DEF HandedOnce, EndRun, TypeOK, Published
  <2>2. InRun(t)' = IF t \in handed[w] THEN 0 ELSE InRun(t)
    BY <1>1, EndedRun
  <2>3. t \in handed[w] => InRun(t) = 1
    BY DEF InRun
  <2>4. Published(t) \in Nat /\ InRun(t) \in Nat
    BY DEF Published, InRun
  <2> QED BY <2>1, <2>2, <2>3, <2>4
<1> QED BY <1>2, <1>3, <1>4, <1>5

LEMMA NextInv == DeliveryInv /\ [Next]_vars => DeliveryInv'
<1> SUFFICES ASSUME DeliveryInv, [Next]_vars PROVE DeliveryInv'
  OBVIOUS
<1>1. ASSUME NEW t \in Transfers, Request(t) \/ Notifier(t) \/ LoseTask(t)
      PROVE  DeliveryInv'
  BY <1>1, RequestStep, NotifierStep
<1>2. ASSUME NEW w \in Workers, Publisher(w) \/ LoseRun(w)
      PROVE  DeliveryInv'
  BY <1>2, StartStep, ProduceStep, ProduceFailsStep, CommitStep, LoseStep DEF Publisher
<1>3. CASE UNCHANGED vars
  BY <1>3 DEF vars, requestVars, runVars, taskVars, historyVars, DeliveryInv, TypeOK,
              RunsApart, TasksSeeRows, SettledCommitted, NoPhantoms, HandedOnce, InRun, Published
<1> QED BY <1>1, <1>2, <1>3 DEF Next, Fault

LEMMA Invariance == Spec => []DeliveryInv
  BY InitInv, NextInv, PTL DEF Spec

\* Every reachable state is well formed, and a pending event has attempts
\* left (jobs.py:248).
THEOREM TypeCorrect == Spec => []TypeOK
  BY Invariance, PTL DEF DeliveryInv

\* Workers hand nothing of a transaction that has not committed to Kafka and
\* send no notification of one, for any number of workers and losses
\* (jobs.py:227, 197).  What create_notification publishes on the user's
\* channel before the commit is not covered (notification_service.py:33).
THEOREM NeverPhantom == Spec => []NoPhantoms
  BY Invariance, PTL DEF DeliveryInv

\* An event is handed over once, plus once per run lost after it: workers
\* never publish an event side by side (jobs.py:232).
THEOREM AccountedFor == Spec => []HandedOnce
  BY Invariance, PTL DEF DeliveryInv

\* Whoever has a task was told, once the task runs its notification has been
\* sent out, and a task that is done has found nothing or has left its flags.
TasksDeliver ==
    \A t \in Transfers :
      /\ task[t] # "none" => t \in told
      /\ task[t] = "running" => sent[t] > 0
      /\ task[t] = "done" => t \in early \/ (pushed[t] /\ sent[t] > 0)

LEMMA TasksDeliverStep == TypeOK /\ TasksDeliver /\ [Next]_vars => TasksDeliver'
<1> SUFFICES ASSUME TypeOK, TasksDeliver, [Next]_vars PROVE TasksDeliver'
  OBVIOUS
<1>1. ASSUME UNCHANGED taskVars PROVE TasksDeliver'
  BY <1>1 DEF TasksDeliver, taskVars
<1>2. ASSUME NEW t \in Transfers, Request(t) PROVE TasksDeliver'
  <2>1. CASE Dispatch(t)
    BY <2>1 DEF Dispatch, TasksDeliver, TypeOK
  <2>2. CASE Create(t) \/ CommitCreation(t) \/ Complete(t) \/ CommitCompletion(t)
    BY <2>2, <1>1 DEF Create, CommitCreation, Complete, CommitCompletion
  <2> QED BY <1>2, <2>1, <2>2 DEF Request
<1>3. ASSUME NEW t \in Transfers, Notifier(t) PROVE TasksDeliver'
  BY <1>3 DEF Notifier, FindNothing, SendOut, FinishTask, TasksDeliver, TypeOK
<1>4. ASSUME NEW t \in Transfers, LoseTask(t) PROVE TasksDeliver'
  BY <1>4 DEF LoseTask, AfterLoss, TasksDeliver, TypeOK
<1>5. ASSUME NEW w \in Workers, Publisher(w) \/ LoseRun(w) PROVE TasksDeliver'
  <2>1. UNCHANGED taskVars
    BY <1>5 DEF Publisher, StartRun, Produce, ProduceFails, CommitRun, LoseRun, EndRun
  <2> QED BY <2>1, <1>1
<1>6. CASE UNCHANGED vars
  BY <1>6, <1>1 DEF vars
<1> QED BY <1>2, <1>3, <1>4, <1>5, <1>6 DEF Next, Fault

\* A committed notification is lost only if its task ran before the commit
\* (notification_service.py:31, celery_app.py:13), however many workers die.
THEOREM OnlyEarlyLost == Spec => []LostOnlyIfEarly
<1>1. Init => TasksDeliver
  BY DEF Init, TasksDeliver
<1>2. TasksDeliver => LostOnlyIfEarly
  BY DEF TasksDeliver, LostOnlyIfEarly
<1> QED BY <1>1, <1>2, TypeCorrect, TasksDeliverStep, PTL DEF Spec

-----------------------------------------------------------------------------
(* The outbox implements EventLog.                                         *)

\* EventLog's variables, as Delivery has them.
LogOf == [t \in Transfers |-> IF creation[t] = "committed" THEN event[t].status ELSE "absent"]
GivenOf == {t \in Transfers : produced[t] > 0}

LEMMA LogInit == Init => Log!Init
  BY DEF Init, Log!Init

\* A step that changes neither the rows that are visible nor what was handed
\* over is a stutter of the log.
LEMMA LogStutters ==
    ASSUME LogOf' = LogOf, GivenOf' = GivenOf
    PROVE  [Log!Next]_(Log!vars)
  BY DEF LogOf, GivenOf, Log!vars

LEMMA LogRequest ==
    ASSUME DeliveryInv, NEW t \in Transfers, Request(t)
    PROVE  [Log!Next]_(Log!vars)
<1>1. event' = event /\ produced' = produced
  BY DEF Request, Create, CommitCreation, Complete, Dispatch, CommitCompletion, historyVars
<1>2. GivenOf' = GivenOf
  BY <1>1 DEF GivenOf
<1>3. CASE CommitCreation(t)
  <2>1. creation[t] = "open" /\ creation' = [creation EXCEPT ![t] = "committed"]
    BY <1>3 DEF CommitCreation
  <2>2. event[t].status = "PENDING"
    BY <2>1 DEF DeliveryInv, SettledCommitted
  <2>3. LogOf[t] = "absent" /\ LogOf' = [LogOf EXCEPT ![t] = "PENDING"]
    BY <1>1, <2>1, <2>2 DEF LogOf, DeliveryInv, TypeOK
  <2>4. Log!Append(t)
    BY <1>2, <2>3 DEF Log!Append, LogOf, GivenOf
  <2> QED BY <2>4 DEF Log!Next
<1>4. CASE ~CommitCreation(t)
  <2>1. \A x \in Transfers : creation'[x] = "committed" <=> creation[x] = "committed"
    BY <1>4 DEF Request, Create, Complete, Dispatch, CommitCompletion, requestVars,
                DeliveryInv, TypeOK
  <2>2. LogOf' = LogOf
    BY <1>1, <2>1 DEF LogOf
  <2> QED BY <1>2, <2>2, LogStutters
<1> QED BY <1>3, <1>4

LEMMA LogProduce ==
    ASSUME DeliveryInv, NEW w \in Workers, NEW t \in Transfers, Produce(w, t)
    PROVE  [Log!Next]_(Log!vars)
<1>1. /\ produced' = [produced EXCEPT ![t] = @ + 1]
      /\ t \in rest[w] /\ creation' = creation /\ event' = event
  BY DEF Produce, IsNext, requestVars
<1>2. LogOf[t] = "PENDING"
  BY <1>1 DEF LogOf, DeliveryInv, RunsApart
<1>3. LogOf' = LogOf
  BY <1>1 DEF LogOf
<1>4. GivenOf' = GivenOf \cup {t}
  BY <1>1 DEF GivenOf, DeliveryInv, TypeOK
<1>5. Log!Give(t)
  BY <1>2, <1>3, <1>4 DEF Log!Give, LogOf, GivenOf
<1> QED BY <1>5 DEF Log!Next

LEMMA LogCommit ==
    ASSUME DeliveryInv, NEW w \in Workers, CommitRun(w)
    PROVE  [Log!Next]_(Log!vars)
<1> USE DEF DeliveryInv
<1>1. creation' = creation /\ produced' = produced
  BY DEF CommitRun, EndRun, requestVars
<1>2. \A t \in batch[w] : /\ t \in Transfers /\ creation[t] = "committed"
                           /\ event[t] \in Row /\ event[t].status = "PENDING"
                           /\ event[t].attempts < MaxAttempts
  BY DEF RunsApart, TypeOK
<1>3. ASSUME NEW t \in Transfers
      PROVE  \/ event'[t].status = event[t].status
             \/ /\ creation[t] = "committed" /\ event[t].status = "PENDING"
                /\ \/ event'[t].status = "FAILED"
                   \/ event'[t].status = "PUBLISHED" /\ produced[t] > 0
  <2>1. CASE t \in handed[w]
    <3>1. t \in batch[w]
      BY <2>1, OnlyRun
    <3>2. event'[t] = [event[t] EXCEPT !.status = "PUBLISHED"]
      BY <2>1 DEF CommitRun
    <3>3. event'[t].status = "PUBLISHED"
      BY <1>2, <3>1, <3>2 DEF Row
    <3>4. InRun(t) = 1
      BY <2>1 DEF InRun
    <3>5. produced[t] > 0
      BY <3>4 DEF HandedOnce, Published, TypeOK
    <3> QED BY <1>2, <3>1, <3>3, <3>5
  <2>2. CASE t \notin handed[w] /\ t \in batch[w]
    <3>1. event'[t] = AfterFailure(event[t])
      BY <2>2 DEF CommitRun
    <3>2. event'[t].status \in {"FAILED", "PENDING"}
      BY <3>1 DEF AfterFailure
    <3> QED BY <1>2, <2>2, <3>2
  <2>3. CASE t \notin handed[w] /\ t \notin batch[w]
    BY <2>3 DEF CommitRun
  <2> QED BY <2>1, <2>2, <2>3
<1>4. \A t \in Transfers : event'[t].status \in {"PENDING", "PUBLISHED", "FAILED"}
  <2>1. \A t \in Transfers : event[t].status \in {"PENDING", "PUBLISHED", "FAILED"}
    BY DEF TypeOK, Row
  <2> QED BY <1>3, <2>1
<1>5. GivenOf' = GivenOf
  BY <1>1 DEF GivenOf
<1>6. LogOf' \in [Transfers -> Log!Status]
  BY <1>4 DEF LogOf, Log!Status
<1>7. Log!Settle
  BY <1>1, <1>3, <1>5, <1>6 DEF Log!Settle, LogOf, GivenOf
<1> QED BY <1>7 DEF Log!Next

\* The other steps touch neither rows, nor visibility, nor Kafka.
LEMMA LogOther ==
    ASSUME \/ \E t \in Transfers : Notifier(t) \/ LoseTask(t)
           \/ \E w \in Workers : StartRun(w) \/ LoseRun(w)
           \/ \E w \in Workers, t \in Transfers : ProduceFails(w, t)
           \/ UNCHANGED vars
    PROVE  [Log!Next]_(Log!vars)
<1>1. UNCHANGED <<creation, event, produced>>
  BY DEF Notifier, FindNothing, SendOut, FinishTask, LoseTask, StartRun, LoseRun, EndRun,
         ProduceFails, vars, requestVars, historyVars
<1> QED BY <1>1, LogStutters DEF LogOf, GivenOf

LEMMA LogNext == DeliveryInv /\ [Next]_vars => [Log!Next]_(Log!vars)
  BY LogRequest, LogProduce, LogCommit, LogOther DEF Next, Publisher, Fault

\* The outbox implements the event log its readers are promised: visible only
\* once committed, PUBLISHED only once handed to Kafka, settled for good.
THEOREM OutboxImplementsLog == Spec => ImplementsLog
<1>1. Init => Log!Init
  BY LogInit
<1>2. DeliveryInv /\ [Next]_vars => [Log!Next]_(Log!vars)
  BY LogNext
<1> QED BY <1>1, <1>2, Invariance, PTL DEF Spec, ImplementsLog, Log!Spec
=============================================================================
