\* Two POSTs at a time and three operations in all, a browser that tries a
\* sync twice, and two faults.
CONSTANTS
    Requests = {r1, r2}
    MaxTries = 2
    MaxOps = 3
    MaxFaults = 2
SPECIFICATION OutboxFairSpec
INVARIANTS
    NothingLost
    SentInOrder
PROPERTY OutboxDrains
