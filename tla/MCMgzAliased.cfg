\* The output path is another name of the input.
CONSTANTS
    Byte = {0, 1}
    BlockSize = 2
    Shrinking <- MCShrinking
    Aliased = TRUE
    MaxSize = 2
    MaxCalls = 1
SPECIFICATION Spec
PROPERTIES
    SourceKept
