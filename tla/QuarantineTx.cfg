SPECIFICATION FairSpec
CONSTANTS
    w1 = w1
    w2 = w2
    Worker <- Workers
    MaxGen = 6
    MaxFaults = 2
    MaxTampers = 1
    Original = Original
    Alien = Alien
    None = None
PROPERTIES NothingDestroyed TruthfulEntry InterruptedItemSettles
CHECK_DEADLOCK FALSE
