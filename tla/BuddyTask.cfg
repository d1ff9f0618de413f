CONSTANTS
    Principal = {requester, buddy1, buddy2}
    Requester = requester
    NoOne = noOne
    MaxEvents = 14
SYMMETRY Symmetry
SPECIFICATION Spec
INVARIANTS
    FirstRoundVerificationIndependent
    AcceptanceFollowsVerifiedDelivery
    DeliveryFollowsAward
    RequesterNeverLockedOut
    ReplayRebuildsFirstRound
CHECK_DEADLOCK FALSE
