\* The ring is shorter than the outputs, the buffer is flushed inside copies,
\* and the longest distance is the size of the ring.
CONSTANTS
    MaxBits = 3
    MaxNodes = 13
    MaxSymbols = 7
    ByteBits = 2
    StoredBits = 3
    HlitBits = 2
    HdistBits = 1
    HclenBits = 2
    CodeBits = 1
    MinCodeLengths = 3
    code_length_order <- MCOrder
    RepeatBits <- MCRepeatBits
    RepeatBase <- MCRepeatBase
    length_extra_bits <- MCLengthBits
    length_bases <- MCLengthBases
    distance_extra_bits <- MCDistanceBits
    distance_bases <- MCDistanceBases
    FixedLiterals <- MCFixedLiterals
    FixedDistances <- MCFixedDistances
    OutputWindow = 3
    OutputBuffer = 2
    SizeModulus = 4
    MaxInput = 7
    MaxDynamicInput = 13
SPECIFICATION Spec
INVARIANTS
    WindowHoldsTheEnd
    ReaderStaysBehind
    BuildMatchesReference
PROPERTIES
    GzipAllOrNothing
    GzipReturns
