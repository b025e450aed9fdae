\* Progress of two nodes that master and terminal may interrupt.
CONSTANTS
    n1 = n1
    n2 = n2
    Node = {n1, n2}
    User = {}
    Nobody = Nobody
    MaxSize = 2
    BlockTx = 1
    TpSize = 1
    IdBound = 2
    CtrlC = TRUE
SPECIFICATION FairSpec
PROPERTIES PublishCompletes TerminatedUnlessPausing
CHECK_DEADLOCK FALSE
