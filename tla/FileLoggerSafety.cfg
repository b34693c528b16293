CONSTANTS
    maxBytes = 3
    trimToBytes = 2
    pendingByteCap = 2
    MaxLines = 12
    MaxFaults = 2
SPECIFICATION FairSpec
INVARIANTS
    InOrder
    RecentAreKept
    FailedTrimIsRetried
PROPERTIES
    CloseFlushes
CHECK_DEADLOCK FALSE
