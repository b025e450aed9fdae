\* A full queue makes the cron refund a transaction it keeps.
CONSTANTS
    t1 = t1
    t2 = t2
    n1 = n1
    p1 = p1
    Tx = {t1, t2}
    First = {n1}
    Spare = {p1}
    Master = Master
    NoTx = NoTx
    TpSize = 1
    BlockTx = 1
    Hops = 1
    QCap = 1
    PCap = 1
    RCap = 1
SPECIFICATION Spec
INVARIANT RefundedNotPublished
CHECK_DEADLOCK FALSE
