CONSTANTS
    b1 = b1
    Beats = {b1}
    LastDay = 70
    Horizon = 110
    PeriodOf <- PeriodKeyFor
    AdvanceNextRun <- AdvanceInUtc
    UtcDay <- DayBefore
    Owners = {"live"}
    MaxTicks = 12
    Starts = {31}
    Ends <- NoEnd
    Limits = {0}
    MayClose = {}
    MaxEdits = 0
SPECIFICATION Spec
INVARIANTS NothingSkipped
CHECK_DEADLOCK FALSE
