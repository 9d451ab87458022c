SPECIFICATION FairSpec
CONSTANTS
    r1 = r1
    r2 = r2
    Readers <- MCReaders
    Tasks <- MCTasks
    id_tasks <- MCIdTasks
    Stream <- MCStream
    NSlots = 2
    MaxPartial = 2
INVARIANTS TypeOK InOrderDelivery NoMissedResult ClosedLeavesNothing
PROPERTY RequestEnds
CHECK_DEADLOCK FALSE
