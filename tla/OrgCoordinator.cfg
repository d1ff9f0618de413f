CONSTANTS
    Identity = {owner, buddy}
    Owner = owner
    Task = {task}
    NoOne = noOne
    Actions = {"takeover"}
    MaxSequence = 4
    MaxEvents = 3
SPECIFICATION Spec
INVARIANTS
    ProjectionIsReplay
    LogIsAuthorized
    DecidedOnce
CHECK_DEADLOCK FALSE
