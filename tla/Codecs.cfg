\* Foreign texts of up to six characters and two events of our own of up to
\* three, in any chunks; payloads of up to two blocks and a short one, of two
\* bytes a block, under every Range header up to one past the end; payloads of
\* up to two hash blocks and a remainder, on both sides of the native limit.
CONSTANTS
    MaxText = 6
    MaxData = 3
    MaxOwn = 2
    BLOCK_SIZE = 2
    MaxSize = 5
    MaxMember = 2
    BLOCK = 4
    LENGTH = 2
    NATIVE_LIMIT = 5
    MaxBytes = 11
SPECIFICATION CodecSpec
INVARIANTS
    DecodesAnyCut
    RangeIsExact
    DigestIsStandard
\* A text ends, a request is answered once, a digest is taken once.
CHECK_DEADLOCK FALSE
