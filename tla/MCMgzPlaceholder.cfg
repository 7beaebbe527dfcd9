\* One byte to compress, one compression, one decompression.
CONSTANTS
    Byte = {0, 1}
    BlockSize = 2
    Shrinking <- MCShrinking
    Aliased = FALSE
    MaxSize = 1
    MaxCalls = 2
SPECIFICATION Spec
INVARIANTS
    HeaderTellsOriginal
