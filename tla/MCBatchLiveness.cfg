\* Two batches of one file each, with a queued removal; no symmetry under
\* liveness.
CONSTANTS
    t1 = t1
    Task = {t1}
    MaxBatches = 2
    MaxProgress = 1
    MaxRemoves = 1
SPECIFICATION Spec
INVARIANTS
    ResultCardSafe
PROPERTIES
    BatchEnds
    ThreadsEnd
    CloseIsServed
    ProgramExits
