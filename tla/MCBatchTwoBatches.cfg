\* Two batches of up to two files: late events of the first batch meet the
\* second one.
CONSTANTS
    t1 = t1
    t2 = t2
    Task = {t1, t2}
    MaxBatches = 2
    MaxProgress = 1
    MaxRemoves = 0
SPECIFICATION Spec
SYMMETRY Symmetry
INVARIANTS
    TypeOK
    IInv
    SignalsHitTheirTask
    CountersMatchRows
    CardMatchesRows
    OneWorkerRuns
    SafeExit
PROPERTIES
    ReportsInOrder
