\* Three rows over six files in two folders, one batch, one queued removal.
CONSTANTS
    Directories = {"d", "e"}
    Files <- MCFiles
    Endings <- MCEndings
    Words = {"a", "mgz", "gz", "restored"}
    SourceFolder = SourceFolder
    MaxRows = 3
    MaxPending = 1
    MaxBatches = 1
SPECIFICATION Spec
INVARIANTS
    OutputsApart
    ReplacesOnlyIfAsked
