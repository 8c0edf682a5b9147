\* The same transfer, for what it promises about the bytes.
CONSTANTS
    MaxBlocks = 2
    MaxFaults = 3
SPECIFICATION TransferSpec
INVARIANT Right
\* A delivered key is never fetched again: the system may stop.
CHECK_DEADLOCK FALSE
