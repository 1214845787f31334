\* One request id from two browsers, two Bridge connections, a crash, a
\* shutdown, a failing store, with progress.
CONSTANTS
    r1 = r1
    d1 = d1
    d2 = d2
    b1 = b1
    b2 = b2
    Requests <- MCRequests
    Digests <- MCDigests
    Browsers <- MCBrowsers
    MaxSessions = 2
    Setups <- MCSetups
SPECIFICATION FairSpec
INVARIANTS
    TypeOK
    ForwardedAtMostOnce
    AnswersAreTrue
PROPERTIES
    PendingEnds
CHECK_DEADLOCK FALSE
