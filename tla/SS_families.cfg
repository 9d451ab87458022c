SPECIFICATION FairSpec
CONSTANTS
    NSlots = 3
    Req <- MCFamilies
    Bad = {}
    Leaving = {}
    NBatch = 2
    NUbatch = 2
    NCtx = 4
    CacheSizes = {1}
    KvUnified = TRUE
    Faults = {"kv", "compute"}
INVARIANTS TypeOK PromptInKv OneAnswer NoPromptLeftBehind ChildHasParent
PROPERTY RequestEnds
CHECK_DEADLOCK FALSE
