\* The master's SIGTERM between the test of alive and pause.
CONSTANTS
    n1 = n1
    n2 = n2
    Node = {n1, n2}
    User = {}
    Nobody = Nobody
    MaxSize = 1
    BlockTx = 1
    TpSize = 1
    IdBound = 2
    CtrlC = FALSE
SPECIFICATION FairSpec
PROPERTY EveryNodeStops
CHECK_DEADLOCK FALSE
