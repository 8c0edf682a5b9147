\* One connection of up to four messages through a queue of one frame:
\* payloads of length zero, of two units and of no declared length, which
\* messages of one and two units fill, overrun or leave short.
CONSTANTS
    Limit = 1
    Sizes = {0, 2}
    Infinity = Infinity
    Weights = {1, 2}
    MaxMessages = 4
SPECIFICATION SinkSpec
INVARIANTS
    FramesInOrder
    BodyIsItsOwn
    DepthBounded
PROPERTIES
    DrainsUnlessCancelled
    EndSeenUnlessCancelled
\* A connection ends for good; the loop opens another.
CHECK_DEADLOCK FALSE
