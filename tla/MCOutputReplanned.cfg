\* The same bounds: a removal handled while the question is open.
CONSTANTS
    Directories = {"d", "e"}
    Files <- MCFiles
    Endings <- MCEndings
    Words = {"a", "mgz", "gz", "restored"}
    SourceFolder = SourceFolder
    MaxRows = 3
    MaxPending = 1
    MaxBatches = 1
SPECIFICATION Spec
INVARIANTS
    InputsSurvive
