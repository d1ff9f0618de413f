CONSTANTS
    Task = {t1}
    Call = {c1, c2}
    MaxSaves = 2
SPECIFICATION FairDeliverySpec
INVARIANTS
    OutboxIsSaved
    WorkIsConsumed
    DeliveredIsSettled
    CompletedWasVerified
PROPERTY CallsAreAnswered
CHECK_DEADLOCK FALSE
