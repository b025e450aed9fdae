\* A user and a node that write, summary after summary, until the master ends the
\* simulation; three users, one of which is shown as the highest and one as the lowest.
CONSTANTS
    Writer = {2, 4}
    MaxBreaks = 1
    Count = 3
    Proc = 1
    Budget = {0, 1}
SPECIFICATION MCSpec
INVARIANTS SemsExact OneWritePerClosing NobodyOutstandingMissed SummaryShowsExtremes
PROPERTIES SummaryEnds WriterServed ChildrenEnd
CHECK_DEADLOCK FALSE
