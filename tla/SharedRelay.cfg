CONSTANTS
    Provider = {b1}
    Expiring = {}
    OtherNumber = {1}
    MaxNumber = 1
    MaxProposals = 1
    MaxAgreements = 1
    MaxRestarts = 0
SPECIFICATION Spec
INVARIANT DeliveredIsDone
CHECK_DEADLOCK FALSE
