SPECIFICATION Spec
CONSTANTS
    NCells = 3
    NSeqs = 2
    Configs <- MCConfigs
    NUbatch = 1
    Groups <- MCGroups
    Shifts <- MCShifts
    Ranges <- MCRanges
    Reads <- MCReads
    MaxCalls = 4
    Divisors = {2}
    MaxBatch = 2
    MaxPos = 3
INVARIANTS TypeOK CellsIndexed KInPlace
PROPERTY PrepareRestores
CHECK_DEADLOCK FALSE
