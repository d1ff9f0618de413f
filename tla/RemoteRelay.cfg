SPECIFICATION FairSpec
CONSTANTS
    Message = {m1}
    MaxConnections = 2
    MaxRestarts = 1
INVARIANTS
    KeptUntilAccepted
    AcceptedOnce
PROPERTIES
    RevokedIsNotServed
    SendsAreAnswered
    ReplayOffers
CHECK_DEADLOCK FALSE
