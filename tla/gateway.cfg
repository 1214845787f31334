\* One request id with three payloads (native write, queue operation,
\* refused stop), retried, with a crash, a shutdown and a failing store.
CONSTANTS
    r1 = r1
    start = start
    queue = queue
    stop = stop
    Requests <- MCRequests
    Payloads <- MCPayloads
    QueuePayloads <- MCQueue
    RefusedPayloads <- MCRefused
    SnapshotPayloads <- MCSnapshot
    OutboundCapacity = 3
    MaxDeliveries = 3
    MaxCrashes = 1
    MaxShutdowns = 1
    IpcTimesOut = TRUE
    StoreMayFail = TRUE
SPECIFICATION FairSpec
INVARIANTS
    TypeOK
    AtMostOnce
    CompletedIsTrue
PROPERTIES
    SettledStaysSettled
    ImplementsService
    RequestsClose
CHECK_DEADLOCK FALSE
