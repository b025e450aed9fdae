\* Three transactions, pools of one slot and queues of one message: every queue
\* and every pool fills.
CONSTANTS
    t1 = t1
    t2 = t2
    t3 = t3
    n1 = n1
    p1 = p1
    Tx = {t1, t2, t3}
    First = {n1}
    Spare = {p1}
    Master = Master
    NoTx = NoTx
    TpSize = 1
    BlockTx = 1
    Hops = 1
    QCap = 1
    PCap = 1
    RCap = 1
SPECIFICATION FairSpec
INVARIANTS TypeOK SingleCopy NothingVanishes OnlyCronRefundsTheLiving
PROPERTIES QueueServed RequestServed
CHECK_DEADLOCK FALSE
