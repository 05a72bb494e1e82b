\* A move with its paired clean-up: two workers, two crashes, takeovers or failing calls, one change by a user.
SPECIFICATION FairSpec
CONSTANTS
    w1 = w1
    w2 = w2
    Worker <- Workers
    AllowDelete = TRUE
    MaxFaults = 2
    MaxTampers = 1
    Wrapper = Wrapper
    Own = Own
    Made = Made
    Newer = Newer
    Alien = Alien
    None = None
PROPERTIES NothingLost TruthfulMove FinishedMoveIsFound TruthfulCleanUp WrapperComesBack JobSettles
CONSTRAINT Disturbances
CHECK_DEADLOCK FALSE
