SPECIFICATION FairSpec
CONSTANTS
    w1 = w1
    w2 = w2
    t1 = t1
    t2 = t2
    t3 = t3
    NoWorker = NoWorker
    NoTask = NoTask
    Workers <- MCWorkers
    Tasks <- MCTasks
INVARIANTS
    TypeOK
    WakeupOwed
    ExitMeansEmpty
PROPERTIES
    ImplementsTaskPool
    FuturesReady
    DestructorReturns
CHECK_DEADLOCK FALSE
