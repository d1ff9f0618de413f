CONSTANTS
    Intent = {i1}
    Task = {t1}
    Calendar = {t1}
    Run = {r1, r2}
    NoOne = NoOne
    MaxSequence = 3
    MaxEvents = 5
    MaxLosses = 1
SPECIFICATION FairExecutionSpec
INVARIANTS
    OneEffect
    EffectWasGranted
    ResultIsLogged
PROPERTY IntentIsSettled
CHECK_DEADLOCK FALSE
