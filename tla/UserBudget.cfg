\* Three users, the second of them in detail.  Its income makes it able to send, two
\* transactions at most, each of which may be refunded twice.
CONSTANTS
    USERS = 3
    Self = 1
    BUDGET_INIT = 1
    RETRY = 1
    MaxIncome = 1
    MaxSends = 2
    MaxSignals = 1
    MaxRefunds = 2
SPECIFICATION FairSpec
INVARIANTS TypeOK OnlyHandlerForgotten SoundWithoutSignal NobodyLeft
PROPERTIES CacheHitFresh SummaryUnlessSelfBlocked
CHECK_DEADLOCK FALSE
