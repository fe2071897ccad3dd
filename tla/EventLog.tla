------------------------------ MODULE EventLog ------------------------------
(***************************************************************************)
(* What the outbox promises to whoever reads the event log: an event is    *)
(* there only from its transaction's commit on, it is PUBLISHED only after *)
(* it was handed to Kafka, possibly more than once, and PUBLISHED and      *)
(* FAILED are final.                                                       *)
(***************************************************************************)
CONSTANT Events

VARIABLES
    log,    \* log[e]: the status readers see, "absent" before the commit
    given   \* events that were handed to Kafka at least once

vars == <<log, given>>

Init == /\ log = [e \in Events |-> "absent"]
        /\ given = {}

Append(e) == /\ log[e] = "absent"
             /\ log' = [log EXCEPT ![e] = "PENDING"]
             /\ UNCHANGED given

Give(e) == /\ log[e] = "PENDING"
           /\ given' = given \cup {e}
           /\ UNCHANGED log

Status == {"absent", "PENDING", "PUBLISHED", "FAILED"}

\* Pending events settle, PUBLISHED only if they were given.
Settle ==
    /\ log' \in [Events -> Status]
    /\ \A e \in Events : log'[e] # log[e] =>
         /\ log[e] = "PENDING"
         /\ log'[e] = "FAILED" \/ (log'[e] = "PUBLISHED" /\ e \in given)
    /\ UNCHANGED given

Next == (\E e \in Events : Append(e) \/ Give(e)) \/ Settle

Spec == Init /\ [][Next]_vars
=============================================================================
