SPECIFICATION FairSpec
CONSTANTS
    r1 = r1
    v1 = v1
    Run <- MCRun
    Viewer <- MCViewer
    Watches <- MCWatches
    Free = Free
    QueueSize = 2
    MaxLines = 3
    MaxAttempts = 2
    MaxConns = 2
    MaxRestarts = 1
CHECK_DEADLOCK FALSE
INVARIANTS
    LogTypeOK
    ConnectionInOrder
    NoLineTwice
PROPERTIES
    EndReaches
    RunGoesOn
