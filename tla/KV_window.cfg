SPECIFICATION Spec
CONSTANTS
    NCells = 4
    NSeqs = 2
    Configs <- WConfigs
    NUbatch = 2
    Groups <- MCGroups
    Ranges <- WRanges
    Reads = {}
    MaxCalls = 4
    Shifts = {}
    Divisors = {}
    MaxBatch = 3
    MaxPos = 4
PROPERTIES WindowRestored
CHECK_DEADLOCK FALSE
