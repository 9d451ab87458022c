SPECIFICATION Spec
CONSTANTS
    NSlots = 2
    Req <- MCPlain
    Bad = {}
    Leaving = {}
    NBatch = 2
    NUbatch = 2
    NCtx = 4
    CacheSizes = {}
    KvUnified = TRUE
    Faults = {"kv"}
INVARIANTS NotStranded SamplesOwnToken WithinLimits EmbeddingInOneBatch
CHECK_DEADLOCK FALSE
