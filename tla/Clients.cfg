SPECIFICATION ClientsSpec
CONSTANTS
    Caller = {c1, c2}
    Item = {i1, i2}
    MaxConns = 1
    MaxDepth = 2
    MaxIds = 2
    Msg = {m1, m2, m3}
    Room = 2
INVARIANTS
    ClientsTypeOK
    NoLeakedConnection
    Exclusive PooledReady
    Accounted
PROPERTIES
    ImplementsAtomicStore EveryCallEnds
    ImplementsAtomicPublish CallEndsOrRecommits
    CleanupEnds FailureToldOrBlocked
CHECK_DEADLOCK FALSE
