\* Three events in batches of two, one notification, two publishing workers.
CONSTANTS
    v1 = v1
    v2 = v2
    Transfers = {1, 2, 3}
    Notified = {3}
    Workers = {v1, v2}
    BatchLimit = 2
    MaxAttempts = 2
    MaxLosses = 1
SPECIFICATION Spec
INVARIANTS TypeOK NoPhantoms HandedOnce LostOnlyIfEarly
PROPERTIES EventsSettle ImplementsLog
CHECK_DEADLOCK FALSE
