SPECIFICATION FairSpec
CONSTANTS
    NThreads = 3
    Nodes <- MCNodes
    NChunks = 8
    MaxGraphs = 2
    MaxPauses = 1
INVARIANTS TypeOK StagesInOrder GraphComplete
PROPERTIES GraphEnds FreeEnds
CHECK_DEADLOCK FALSE
