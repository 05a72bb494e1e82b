SPECIFICATION FairSpec
CONSTANTS
    w1 = w1
    w2 = w2
    s1 = s1
    s2 = s2
    Worker <- Workers
    Schedule <- Schedules
    Crons <- EveryMinute
    TTL = 1
    MaxTime = 1
    Edited <- OneSchedule
    MaxUpdates = 1
    MaxFaults = 1
    Manual = Manual
    None = None
INVARIANT OneJobPerSlot
PROPERTY SlotPasses
CONSTRAINT Disturbances
CHECK_DEADLOCK FALSE
