\* Two nodes fill a ledger of two blocks and go on past its end, under signals, while a user reads.
CONSTANTS
    n1 = n1
    n2 = n2
    u1 = u1
    Node = {n1, n2}
    User = {u1}
    Nobody = Nobody
    MaxSize = 2
    BlockTx = 1
    TpSize = 1
    IdBound = 3
    CtrlC = TRUE
SPECIFICATION Spec
SYMMETRY NodeSymmetry
INVARIANTS TypeOK UniqueIds NoticeImpliesFull RewardBacked IncomeBacked
           PoolDebtOnlyAfterNotice WildWriteNeedsCtrlC
PROPERTY LogSpec
CHECK_DEADLOCK FALSE
