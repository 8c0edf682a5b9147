\* The same connections: a cancelled body stops everything behind it.
CONSTANTS
    Limit = 1
    Sizes = {0, 2}
    Infinity = Infinity
    Weights = {1, 2}
    MaxMessages = 3
SPECIFICATION SinkSpec
PROPERTY KeepsMoving
\* A connection ends for good; the loop opens another.
CHECK_DEADLOCK FALSE
