------------------------------ MODULE Delivery ------------------------------
(***************************************************************************)
(* What requests leave to the background workers: the transactional outbox *)
(* (services/outbox_service.py, _publish_outbox of tasks/jobs.py, over     *)
(* events/kafka_producer.py) and the delivery of notifications             *)
(* (services/notification_service.py, _send_notification of tasks/jobs.py, *)
(* under the delivery settings of tasks/celery_app.py).                    *)
(*                                                                         *)
(* A transfer is a deposit or a withdrawal.  The request that creates it   *)
(* adds an outbox event to its transaction; the one that completes it adds *)
(* a notification, and puts the task that delivers it in the broker before *)
(* the transaction commits.  A transaction that rolls back is one that     *)
(* stays open for ever: nobody finds its rows, but the task and what was   *)
(* said on the user's channel are not undone.  Workers run in processes    *)
(* of their own, which may die between any two steps.                      *)
(*                                                                         *)
(* A run that finds no broker raises in producer.start and changes         *)
(* nothing: it is a stuttering step.  The model ends where produce hands   *)
(* an event to the Kafka client's buffer, which is all produce waits for.  *)
(***************************************************************************)
EXTENDS Naturals, FiniteSets

CONSTANTS
    Transfers,      \* in the order of their outbox rows' created_at
    Notified,       \* the transfers that complete within the model
    Workers,        \* worker processes that run _publish_outbox
    BatchLimit,     \* rows one run selects (100)
    MaxAttempts,    \* failed attempts that make an event FAILED (10)
    MaxLosses       \* bound on the runs and tasks that die

ASSUME TransfersAssumption == Transfers \subseteq Nat /\ Notified \subseteq Transfers
ASSUME LimitsAssumption == /\ BatchLimit \in Nat \ {0}
                           /\ MaxAttempts \in Nat \ {0}
                           /\ MaxLosses \in Nat

VARIABLES
    creation,      \* creation[t]: the transaction that creates the transfer
    completion,    \* completion[t]: the transaction that completes it
    event,         \* OutboxEvent rows: [status, attempts]
    publishing,    \* workers with a run in progress
    batch,         \* batch[w]: rows its run has locked
    rest,          \* rest[w]: those it has not come to yet
    handed,        \* handed[w]: those its producer has accepted
    task,          \* task[t]: the send_notification task in the broker
    pushed,        \* pushed[t]: is_push_sent and is_email_sent of the row
    sent,          \* sent[t]: how often its task sent the notification out
    told,          \* notifications published on their user's channel
    produced,      \* history: how often each event was handed to a producer
    undone,        \* history: runs that handed it over and did not commit
    early,         \* history: tasks that ran before the row was visible
    losses         \* runs and tasks lost so far

requestVars == <<creation, completion>>
runVars == <<publishing, batch, rest, handed>>
taskVars == <<task, pushed, sent, told, early>>
historyVars == <<produced, undone>>
vars == <<requestVars, event, runVars, taskVars, historyVars, losses>>

Row == [status : {"PENDING", "PUBLISHED", "FAILED"}, attempts : 0..MaxAttempts]

Init ==
    /\ creation = [t \in Transfers |-> "none"]
    /\ completion = [t \in Transfers |-> "none"]
    /\ event = [t \in Transfers |-> [status |-> "PENDING", attempts |-> 0]]
    /\ publishing = {}
    /\ batch = [w \in Workers |-> {}]
    /\ rest = [w \in Workers |-> {}]
    /\ handed = [w \in Workers |-> {}]
    /\ task = [t \in Transfers |-> "none"]
    /\ pushed = [t \in Transfers |-> FALSE]
    /\ sent = [t \in Transfers |-> 0]
    /\ told = {}
    /\ produced = [t \in Transfers |-> 0]
    /\ undone = [t \in Transfers |-> 0]
    /\ early = {}
    /\ losses = 0

-----------------------------------------------------------------------------
(* The requests.                                                           *)

\* create_mock_deposit, create_withdrawal: the event is a row of the
\* transaction, which get_db flushes and commits after the handler.
Create(t) ==
    /\ creation[t] = "none"
    /\ \A x \in Transfers : x < t => creation[x] # "none"
    /\ creation' = [creation EXCEPT ![t] = "open"]
    /\ UNCHANGED <<completion, event, runVars, taskVars, historyVars, losses>>

CommitCreation(t) ==
    /\ creation[t] = "open"
    /\ creation' = [creation EXCEPT ![t] = "committed"]
    /\ UNCHANGED <<completion, event, runVars, taskVars, historyVars, losses>>

\* confirm_deposit, complete_withdrawal up to create_notification's flush.
Complete(t) ==
    /\ t \in Notified
    /\ creation[t] = "committed"
    /\ completion[t] = "none"
    /\ completion' = [completion EXCEPT ![t] = "open"]
    /\ UNCHANGED <<creation, event, runVars, taskVars, historyVars, losses>>

\* The rest of create_notification: delay puts the task in the broker at once,
\* and publish tells whoever has subscribed to the user's channel.
Dispatch(t) ==
    /\ completion[t] = "open"
    /\ task[t] = "none"
    /\ task' = [task EXCEPT ![t] = "queued"]
    /\ told' = told \cup {t}
    /\ UNCHANGED <<requestVars, event, runVars, pushed, sent, early,
                   historyVars, losses>>

\* It goes on to its commit only if delay has found the broker.
CommitCompletion(t) ==
    /\ completion[t] = "open"
    /\ task[t] # "none"
    /\ completion' = [completion EXCEPT ![t] = "committed"]
    /\ UNCHANGED <<creation, event, runVars, taskVars, historyVars, losses>>

-----------------------------------------------------------------------------
(* _publish_outbox.                                                        *)

\* Mutant of Selectable: the rows of open transactions are read too.
ReadUncommitted(w) == {t \in Transfers : /\ creation[t] # "none"
                                         /\ event[t].status = "PENDING"
                                         /\ \A v \in Workers : t \notin batch[v]}

\* Mutant of Selectable: the rows are selected without a lock.
IgnoreLocks(w) == {t \in Transfers : /\ creation[t] = "committed"
                                     /\ event[t].status = "PENDING"
                                     /\ t \notin batch[w]}

\* PENDING rows, FOR UPDATE SKIP LOCKED: not those of another run.
Selectable(w) == {t \in Transfers : /\ creation[t] = "committed"
                                    /\ event[t].status = "PENDING"
                                    /\ \A v \in Workers : t \notin batch[v]}

\* ORDER BY created_at LIMIT BatchLimit.
Oldest(rows) == {t \in rows : Cardinality({x \in rows : x < t}) < BatchLimit}

\* A run that selects nothing commits nothing: it is a stuttering step.
StartRun(w) ==
    /\ w \notin publishing
    /\ Selectable(w) # {}
    /\ publishing' = publishing \cup {w}
    /\ batch' = [batch EXCEPT ![w] = Oldest(Selectable(w))]
    /\ rest' = [rest EXCEPT ![w] = Oldest(Selectable(w))]
    /\ handed' = [handed EXCEPT ![w] = {}]
    /\ UNCHANGED <<requestVars, event, taskVars, historyVars, losses>>

IsNext(w, t) == /\ w \in publishing
                /\ t \in rest[w]
                /\ \A x \in rest[w] : t <= x

\* producer.produce returns as soon as the message is in the buffer.
Produce(w, t) ==
    /\ IsNext(w, t)
    /\ rest' = [rest EXCEPT ![w] = @ \ {t}]
    /\ handed' = [handed EXCEPT ![w] = @ \cup {t}]
    /\ produced' = [produced EXCEPT ![t] = @ + 1]
    /\ UNCHANGED <<requestVars, event, publishing, batch,
                   taskVars, undone, losses>>

\* produce raises: the event is left to CommitRun as failed.
ProduceFails(w, t) ==
    /\ IsNext(w, t)
    /\ rest' = [rest EXCEPT ![w] = @ \ {t}]
    /\ UNCHANGED <<requestVars, event, publishing, batch, handed, 
                   taskVars, historyVars, losses>>

\* Mutant of AfterFailure: a failure is not counted.
NeverGiveUp(row) == [row EXCEPT !.attempts = 0]

\* Mutant of AfterFailure: the limit is taken for allowed.
OneMore(row) == [status |-> IF row.attempts + 1 > MaxAttempts THEN "FAILED" ELSE "PENDING",
                 attempts |-> row.attempts + 1]

\* Mutant of AfterFailure: the status is set whether produce raised or not.
PublishedAnyway(row) == [row EXCEPT !.status = "PUBLISHED"]

AfterFailure(row) == [status |-> IF row.attempts + 1 >= MaxAttempts THEN "FAILED" ELSE "PENDING",
                      attempts |-> row.attempts + 1]

\* The run ends and its locks are gone.
EndRun(w) ==
    /\ publishing' = publishing \ {w}
    /\ batch' = [batch EXCEPT ![w] = {}]
    /\ rest' = [rest EXCEPT ![w] = {}]
    /\ handed' = [handed EXCEPT ![w] = {}]
    /\ UNCHANGED <<requestVars, taskVars, produced>>

\* db.commit() writes every event's outcome at once.
CommitRun(w) ==
    /\ w \in publishing
    /\ rest[w] = {}
    /\ event' = [t \in Transfers |->
         IF t \in handed[w] THEN [event[t] EXCEPT !.status = "PUBLISHED"]
         ELSE IF t \in batch[w] THEN AfterFailure(event[t])
         ELSE event[t]]
    /\ EndRun(w)
    /\ UNCHANGED <<undone, losses>>

\* The process dies or the commit fails: the run rolls back.  Celery or the
\* next beat starts over.
LoseRun(w) ==
    /\ w \in publishing
    /\ losses < MaxLosses
    /\ losses' = losses + 1
    /\ EndRun(w)
    /\ undone' = [t \in Transfers |-> IF t \in handed[w] THEN undone[t] + 1 ELSE undone[t]]
    /\ UNCHANGED event

-----------------------------------------------------------------------------
(* _send_notification.                                                     *)

\* The row is not there: the task answers "Notification not found" and is
\* acknowledged like any other.
FindNothing(t) ==
    /\ task[t] = "queued"
    /\ completion[t] # "committed"
    /\ task' = [task EXCEPT ![t] = "done"]
    /\ early' = early \cup {t}
    /\ UNCHANGED <<requestVars, event, runVars, pushed, sent, told, historyVars, losses>>

SendOut(t) ==
    /\ task[t] = "queued"
    /\ completion[t] = "committed"
    /\ task' = [task EXCEPT ![t] = "running"]
    /\ sent' = [sent EXCEPT ![t] = @ + 1]
    /\ UNCHANGED <<requestVars, event, runVars, pushed, told, early, historyVars, losses>>

\* The flags commit, and the broker gets the acknowledgement.
FinishTask(t) ==
    /\ task[t] = "running"
    /\ task' = [task EXCEPT ![t] = "done"]
    /\ pushed' = [pushed EXCEPT ![t] = TRUE]
    /\ UNCHANGED <<requestVars, event, runVars, sent, told, early, historyVars, losses>>

\* Mutant of AfterLoss: the task was acknowledged when it was taken.
AcknowledgedEarly(t) == "done"

\* task_acks_late and task_reject_on_worker_lost: the broker delivers the
\* task of a dead worker again.
AfterLoss(t) == "queued"

\* The worker dies in the task, before or after the flags commit.
LoseTask(t) ==
    /\ task[t] = "running"
    /\ losses < MaxLosses
    /\ losses' = losses + 1
    /\ task' = [task EXCEPT ![t] = AfterLoss(t)]
    /\ \E flags \in {pushed[t], TRUE} : pushed' = [pushed EXCEPT ![t] = flags]
    /\ UNCHANGED <<requestVars, event, runVars, sent, told, early, historyVars>>

-----------------------------------------------------------------------------
Request(t) == Create(t) \/ CommitCreation(t) \/ Complete(t) \/ Dispatch(t) \/ CommitCompletion(t)

Publisher(w) == \/ StartRun(w)
                \/ \E t \in Transfers : Produce(w, t) \/ ProduceFails(w, t)
                \/ CommitRun(w)

Notifier(t) == FindNothing(t) \/ SendOut(t) \/ FinishTask(t)

Fault == \/ \E w \in Workers : LoseRun(w)
         \/ \E t \in Transfers : LoseTask(t)

Next ==
    \/ \E t \in Transfers : Request(t) \/ Notifier(t)
    \/ \E w \in Workers : Publisher(w)
    \/ Fault

\* Some worker goes on: a run or a task ends, or beat starts the next.
Progress == (\E w \in Workers : Publisher(w)) \/ (\E t \in Transfers : Notifier(t))

\* The workers as a whole do not stop while there is something to do; clients
\* need not call and transactions need not end.
Spec == Init /\ [][Next]_vars /\ WF_vars(Progress)

-----------------------------------------------------------------------------
(* Properties.                                                             *)

\* Rows have their columns' values, and an event that may still be tried has
\* not used up its attempts (jobs.py:248).
TypeOK ==
    /\ creation \in [Transfers -> {"none", "open", "committed"}]
    /\ completion \in [Transfers -> {"none", "open", "committed"}]
    /\ event \in [Transfers -> Row]
    /\ \A t \in Transfers : event[t].status = "PENDING" => event[t].attempts < MaxAttempts
    /\ publishing \subseteq Workers
    /\ batch \in [Workers -> SUBSET Transfers]
    /\ rest \in [Workers -> SUBSET Transfers]
    /\ handed \in [Workers -> SUBSET Transfers]
    /\ task \in [Transfers -> {"none", "queued", "running", "done"}]
    /\ pushed \in [Transfers -> BOOLEAN]
    /\ sent \in [Transfers -> Nat]
    /\ produced \in [Transfers -> Nat]
    /\ undone \in [Transfers -> Nat]
    /\ told \subseteq Transfers
    /\ early \subseteq Transfers
    /\ losses \in 0..MaxLosses

\* Workers pass on nothing of a transaction that did not commit: the events
\* handed to Kafka and the notifications their tasks sent out are of committed
\* transactions, whatever was lost or repeated on the way (jobs.py:227, 197).
\* It does not hold of what is told on the user's channel, which
\* create_notification publishes before the commit
\* (notification_service.py:33).
NoPhantoms ==
    \A t \in Transfers :
      /\ produced[t] > 0 => creation[t] = "committed"
      /\ sent[t] > 0 => completion[t] = "committed"

InRun(t) == IF \E w \in Workers : t \in handed[w] THEN 1 ELSE 0
Published(t) == IF event[t].status = "PUBLISHED" THEN 1 ELSE 0

\* Every hand-over is accounted for: beyond the one that made the event
\* PUBLISHED or is in a run now, there is one per run that was lost after it.
\* Two workers never publish the same event side by side (jobs.py:232).
HandedOnce == \A t \in Transfers : produced[t] = undone[t] + Published(t) + InRun(t)

\* A committed notification is sent out unless its task ran before the commit
\* (notification_service.py:31), and then it was at least told on the user's
\* channel: a worker's death loses none, because the broker keeps the task
\* until it is done (celery_app.py:13).
LostOnlyIfEarly ==
    \A t \in Transfers :
      completion[t] = "committed" /\ task[t] = "done" =>
        (t \in early /\ t \in told) \/ (pushed[t] /\ sent[t] > 0)

\* Every event of a committed transaction ends PUBLISHED or FAILED: no run is
\* stuck on another's locks, none is passed over for ever (jobs.py:230).
EventsSettle ==
    \A t \in Transfers :
      creation[t] = "committed" ~> event[t].status # "PENDING"

\* The event log as readers see it: the rows of committed transactions.
Log == INSTANCE EventLog WITH
    Events <- Transfers,
    log <- [t \in Transfers |-> IF creation[t] = "committed" THEN event[t].status ELSE "absent"],
    given <- {t \in Transfers : produced[t] > 0}

\* The outbox implements EventLog.
ImplementsLog == Log!Spec
=============================================================================
