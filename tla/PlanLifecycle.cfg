\* Plans from draft to deletion: two workers, one request at a time, one plan of two items, one job.
SPECIFICATION PlanSpec
SYMMETRY ActorSymmetry
CONSTANTS
    Worker = {w1, w2}
    Client = {c1}
    Plan = {1}
    MaxJob = 1
    MaxItem = 2
    MaxLapses = 0
    MaxFaults = 0
    MaxBirths = 2
    None = None
PROPERTIES
    CompletedStays
