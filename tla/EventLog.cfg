CONSTANTS
    Event = {e1, e2, e3}
    FlushMax = 2
    MaxChained = 2
SPECIFICATION FairSpec
INVARIANTS
    NothingMissing
    QueueIsScheduled
    DiskInMemoryOrder
PROPERTIES
    EventuallyDurable
    ImplementsDurableLog
CHECK_DEADLOCK FALSE
