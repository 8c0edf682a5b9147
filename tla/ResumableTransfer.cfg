\* Payloads of up to two full blocks and a short one, and enough failures for a resumed
\* attempt to fail again and be resumed in turn.
CONSTANTS
    MaxBlocks = 2
    MaxFaults = 4
SPECIFICATION TransferFairSpec
INVARIANTS
    AddressTrue
    ResumePointTrue
    LoggedIsStored
    RightUnlessDropped
\* A delivered key is never fetched again: the system may stop.
CHECK_DEADLOCK FALSE
PROPERTY FinishesUnlessCornered
