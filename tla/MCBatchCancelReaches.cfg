CONSTANTS
    t1 = t1
    Task = {t1}
    MaxBatches = 2
    MaxProgress = 1
    MaxRemoves = 0
SPECIFICATION Spec
INVARIANTS
    CancelReachesWorker
