\* Two nodes lose an update of block_count.
CONSTANTS
    n1 = n1
    n2 = n2
    Node = {n1, n2}
    User = {}
    Nobody = Nobody
    MaxSize = 2
    BlockTx = 1
    TpSize = 1
    IdBound = 2
    CtrlC = FALSE
SPECIFICATION FairSpec
PROPERTY FullLedgerNotified
CHECK_DEADLOCK FALSE
