CONSTANTS
    b1 = b1  b2 = b2
    Beats = {b1, b2}
    LastDay = 3
    Horizon = 5
    PeriodOf <- Half
    AdvanceNextRun <- TwoDays
    UtcDay <- SameDay
    Owners = {"none", "live"}
    MaxTicks = 2
    Starts = {1}
    Ends <- NoEnd
    Limits = {0, 1}
    MayClose = {0}
    MaxEdits = 1
SPECIFICATION FairSpec
INVARIANTS RecurringTypeOK OneDocumentPerPeriod NothingSkipped
PROPERTIES LimitKept NeverStuck
CHECK_DEADLOCK FALSE
