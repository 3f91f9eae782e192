\* Two hosts share the deliveries of two notifications by one rule, which may be deleted; one
\* crash, failed settle or lease that runs out at work.
SPECIFICATION FairSpec
CONSTANTS
    n1 = n1
    n2 = n2
    r1 = r1
    w1 = w1
    w2 = w2
    NoDispatcher = NoDispatcher
    Notifications = {n1, n2}
    Rules = {r1}
    Dispatchers = {w1, w2}
    Lease = 2
    SendTimeout = 1
    Backoffs = {1}
    BatchSize = 2
    MaxSends = 1
    MaxAttempts = 2
    RateLimit = 1
    Window = 1
    MaxFaults = 1
INVARIANT SenderHoldsClaim
INVARIANT TriesAreLimited
INVARIANT WindowIsKept
PROPERTY SettledIsFinal
PROPERTY OutboxDrains
