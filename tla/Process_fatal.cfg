SPECIFICATION SpecLive
CONSTANTS
    WorkerLoop = {w1}
    MasterLoop = {fetchTimeRange}
    Job = {update_failed_status, monitor}
    Monitor = monitor
    b1 = b1
    b2 = b2
    Batch = {b1}
    Parts <- OnePart
    PoolSize = 1
PROPERTY CleanupRuns
CHECK_DEADLOCK FALSE
