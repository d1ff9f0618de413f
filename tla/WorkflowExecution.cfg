SPECIFICATION FairSpec
CONSTANTS
    a = a
    b = b
    c = c
    Node <- MCNode
    Graphs <- MCGraphs
    MaxRuns = 2
    MaxRestarts = 1
INVARIANTS
    AcceptedIsGrounded
    StatusTellsRuns
PROPERTIES
    UserVerdictStands
    RunEnds
CHECK_DEADLOCK FALSE
