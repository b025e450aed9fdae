\* A user is tested in the pass, writes, and is copied.
CONSTANTS
    Writer = {2}
    Count = 3
    MaxBreaks = 0
    Proc = 1
    Budget = {0, 1, 2, 3}
SPECIFICATION SummarySpec
INVARIANT SteadyUsersRanked
CHECK_DEADLOCK FALSE
