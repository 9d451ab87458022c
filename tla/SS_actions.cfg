SPECIFICATION Spec
CONSTANTS
    NSlots = 2
    Req <- MCActions
    Bad = {2}
    Leaving = {1}
    NBatch = 2
    NUbatch = 2
    NCtx = 4
    CacheSizes = {1}
    KvUnified = TRUE
    Faults = {"kv", "compute"}
INVARIANT PromptInKv
CHECK_DEADLOCK FALSE
