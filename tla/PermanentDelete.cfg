SPECIFICATION FairSpec
CONSTANTS
    w1 = w1
    w2 = w2
    c1 = c1
    Worker <- Workers
    Clerk <- Clerks
    MaxFaults = 2
    MaxTampers = 1
    Original = Original
    Alien = Alien
    None = None
INVARIANT RecordedOnce
PROPERTIES OnlyTheFrozenFile DeletionSettles WriteAhead
CONSTRAINT Disturbances
CHECK_DEADLOCK FALSE
