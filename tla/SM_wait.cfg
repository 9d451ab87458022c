SPECIFICATION FairSpec
CONSTANTS
    m1 = m1
    m2 = m2
    r1 = r1
    r2 = r2
    Models <- MCModels
    Requests <- MCRequests
    NoModel = NoModel
    models_max = 1
    MaxLoads = 2
    MaxRequests = 2
PROPERTY WaitEnds
CHECK_DEADLOCK FALSE
