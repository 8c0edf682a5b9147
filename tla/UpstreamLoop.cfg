\* Two worker instances, an item announced by reference between two events,
\* one of them without an id, and any three kills, errors or early ends.
CONSTANTS
    Workers = {old, new}
    MaxItem = 3
    Blobs = {2}
    Unnamed = {1}
    MaxFaults = 3
SPECIFICATION LoopFairSpec
INVARIANT CursorTruthful
PROPERTIES
    ImplementsRelay
    DeliversAll
