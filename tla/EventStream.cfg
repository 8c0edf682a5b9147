\* One tab, one append at a time and the maintenance pass: the smallest
\* queue that can lag, windows in which a panic trim and a scheduled trim both
\* delete, a page shorter than the log, and one fault.
CONSTANTS
    Writers = {w1}
    Pass = pass
    Retention = 2
    PanicRetention = 1
    MaxId = 3
    Clients = {tab1}
    HighWater = 1
    Batch = 1
    WireCap = 1
    MaxFaults = 1
SPECIFICATION StreamFairSpec
INVARIANTS
    GapFree
    RecentKept
    BelowFloorGone
    NoGap
    PipeOrdered
PROPERTIES
    ImplementsFeed
    LiveQueueBounded
    CatchesUp
    AppendSettles
