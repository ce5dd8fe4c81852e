\* Three threads, a pool that has a worker for each of them.
SPECIFICATION FairSpec
CONSTANTS
    Threads = {t1, t2, t3}
    PoolSize = 3
INVARIANTS
    TypeOK
    WorldStopped
    NoLostWakeup
PROPERTIES
    ImplementsStopTheWorld
    CollectionsReturn
    UnstuckReturns
