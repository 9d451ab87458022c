SPECIFICATION Spec
CONSTANTS
    NSlots = 2
    Req <- MCFamilies
    Bad = {}
    Leaving = {}
    NBatch = 2
    NUbatch = 2
    NCtx = 4
    CacheSizes = {}
    KvUnified = TRUE
    Faults = {"kv"}
INVARIANT ChildHasPrompt
CHECK_DEADLOCK FALSE
