\* Two writers that share a key and may store the same object, and room for
\* one object; three events, for an object announced again after another.
CONSTANTS
    Writers = {w1, w2}
    Keys = {k1}
    Hashes = {a, b}
    Budget = 1
    MaxEvents = 3
    MaxFaults = 1
    NoHash = NoHash
SPECIFICATION StoreFairSpec
PROPERTIES
    PassSpares
    EvictsOldest
    Collected
