\* Three threads race for a mutex each may lock twice; the counter moves by two.
CONSTANTS
    Threads = {t1, t2, t3}
    NoThread = NoThread
    Guarded = TRUE
    MaxDepth = 2
    MaxDue = 2
SPECIFICATION FairSpec
INVARIANTS SyncInv MutualExclusion CounterExact
PROPERTIES RefinesMutex NestedLockReturns
