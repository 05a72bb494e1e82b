SPECIFICATION FairSpec
CONSTANTS
    w1 = w1
    w2 = w2
    Worker <- Workers
    MaxFaults = 3
    MaxTampers = 1
    Original = Original
    Kept = Kept
    Clone = Clone
    Partial = Partial
    Alien = Alien
    None = None
INVARIANT PayloadStays
PROPERTIES OriginalGivenUpLast TruthfulCompletion InterruptedItemSettles
CHECK_DEADLOCK FALSE
