SPECIFICATION FairSpec
CONSTANTS
    once = once
    capped = capped
    Schedules = {once, capped}
    Interval <- MCInterval
    EndTime <- MCEndTime
    Forever = Forever
    Horizon = 3
    MaxFaults = 2
INVARIANT
    SlotsAreKept
PROPERTY
    DueIsCalled
CHECK_DEADLOCK FALSE
