CONSTANTS
    Provider = {b1, b2}
    Expiring = {1}
    OtherNumber = {1}
    MaxNumber = 2
    MaxProposals = 2
    MaxAgreements = 1
    MaxRestarts = 1
SYMMETRY Symmetry
SPECIFICATION Spec
INVARIANTS
    DeliveredWasDone
    OneWorker
    VoidedNeverWins
CHECK_DEADLOCK FALSE
