\* The same transfer, for what it promises about finishing.
CONSTANTS
    MaxBlocks = 2
    MaxFaults = 1
SPECIFICATION TransferFairSpec
PROPERTY Finishes
\* A delivered key is never fetched again: the system may stop.
CHECK_DEADLOCK FALSE
