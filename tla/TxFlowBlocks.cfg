\* Blocks of two transactions from a pool of two slots, a node and one more.
CONSTANTS
    t1 = t1
    t2 = t2
    t3 = t3
    n1 = n1
    p1 = p1
    Tx = {t1, t2, t3}
    First = {n1}
    Spare = {p1}
    Master = Master
    NoTx = NoTx
    TpSize = 2
    BlockTx = 2
    Hops = 1
    QCap = 1
    PCap = 1
    RCap = 1
SPECIFICATION Spec
SYMMETRY FlowSymmetry
INVARIANTS PublishedOnce PoolCountExact
PROPERTIES LifeSpec
CHECK_DEADLOCK FALSE
