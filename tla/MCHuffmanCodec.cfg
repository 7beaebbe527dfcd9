\* Four symbols: seven nodes, codes of up to three bits.
CONSTANTS
    Symbols = 4
    MaxCodeBits = 3
    MaxText = 6
    ByteBits = 2
    MaxData = 2
    MaxTokens = 3
SPECIFICATION Spec
INVARIANTS
    PoppedLeast
    LengthsOptimal
    CodesFitTheTable
    TreeFitsTheCodes
    TextSurvives
    DecodedIsCoded
PROPERTIES
    HuffmanEnds
