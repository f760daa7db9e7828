SPECIFICATION FairSpec
CONSTANTS
    old = old
    host = host
    next = next
    \* ReconcileScheduler
    Attempt = {old, host, next}
    Kind <- MCKind
    Old <- MCOld
    Payable = {old}
    Batch = 2
    MaxArrivals = 1
    MaxSlices = 1
    \* NotificationListener
    Hash = {hash}
    Caller = {c1, c2}
    MaxNotes = 2
CHECK_DEADLOCK FALSE
INVARIANTS
    QuietAfterStop
PROPERTIES
    EveryAttemptIsWalked
    PaymentIsRecorded
    NoWakeIsLost
