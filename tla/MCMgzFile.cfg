\* Up to two full blocks and a short one; a compression, another call, and
\* a decompression.
CONSTANTS
    Byte = {0, 1}
    BlockSize = 2
    Shrinking <- MCShrinking
    Aliased = FALSE
    MaxSize = 5
    MaxCalls = 3
SPECIFICATION Spec
INVARIANTS
    TypeOK
    GoodArchive
    RestoredIsSource
    FailureHasCause
PROPERTIES
    AllOrNothing
    CallReturns
