SPECIFICATION FairSpec
CONSTANTS
    Capacity = 2
    MaxMsgs = 7
    MaxPauses = 3
INVARIANTS InOrder Flushed
PROPERTIES PauseReturns IsChannel
CHECK_DEADLOCK FALSE
