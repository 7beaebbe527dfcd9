\* Three byte values, so that matches repeat and hashes collide.
CONSTANTS
    Radix = 3
    MinMatch = 3
    MaxMatch = 4
    Window = 4
    MaxChain = 2
    HashBase = 5
    HashSize = 4
    MaxInput = 8
    MaxStream = 9
    Capacities = {0, 3, 5}
SPECIFICATION Spec
INVARIANTS
    IInv
    FitsBuffer
    ChainInitialised
    BestIsMatch
    RoundTrip
    InBounds
PROPERTIES
    CodecEnds
