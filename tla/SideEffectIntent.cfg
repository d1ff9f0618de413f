CONSTANTS
    Intent = {i1, i2}
    Task = {t1, t2}
    NoOne = noOne
    MaxSequence = 4
    MaxEvents = 6
    MaxLosses = 1
SPECIFICATION Spec
INVARIANTS
    RestoreIsExact
    OneOutcome
PROPERTIES
    ConsumedWhenGranted
    ConsumedOnce
ACTION_CONSTRAINT WritesThatLose
SYMMETRY Symmetry
CHECK_DEADLOCK FALSE
