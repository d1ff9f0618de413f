CONSTANTS
    Identity = {owner, buddy}
    Owner = owner
    Task = {task}
    NoOne = noOne
    Actions = {"takeover"}
    MaxSequence = 4
    MaxEvents = 4
SPECIFICATION Spec
PROPERTY RevokeRevokes
CHECK_DEADLOCK FALSE
