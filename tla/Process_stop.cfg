SPECIFICATION SpecLive
CONSTANTS
    WorkerLoop = {w1, w2}
    MasterLoop = {fetchTimeRange}
    Job = {update_failed_status, monitor}
    Monitor = monitor
    b1 = b1
    b2 = b2
    Batch = {b1, b2}
    Parts <- OneLarge
    PoolSize = 1
INVARIANTS
    TypeOK NothingCutOff LoggedIsStored NoSendOnClosed
PROPERTIES
    ImplementsLifecycle StopEndsUnlessStuck EveryBatchEnds MasterCleansUp
CHECK_DEADLOCK FALSE
