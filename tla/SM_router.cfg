SPECIFICATION FairSpec
CONSTANTS
    m1 = m1
    m2 = m2
    r1 = r1
    r2 = r2
    Models <- MCModels
    Requests <- MCRequests
    NoModel = NoModel
    models_max = 1
    MaxLoads = 3
    MaxRequests = 3
INVARIANT UnloadedIsDown
PROPERTIES StateDiagram ShutdownEnds WaitEndsUnlessOrphaned
           LruWaitEndsUnlessReloaded
CHECK_DEADLOCK FALSE
