\* Three events, two trims, so that two resyncs may run beside the first sync;
\* a persistent copy that holds an event trimmed since; and one fault.
CONSTANTS
    First = first
    Resyncs = {r1, r2}
    NoSync = NoSync
    Disk = {1}
    MaxId = 3
    MaxTrims = 2
    MaxFaults = 1
SPECIFICATION ReadFairSpec
INVARIANTS
    TableCurrent
    NoStaleRows
PROPERTIES
    AnswersCover
    QuerySettlesUnlessDead
\* Nothing wakes a page that waits for a worker that never starts.
CHECK_DEADLOCK FALSE
