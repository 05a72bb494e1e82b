\* Two jobs and liveness of the task queue: crashes but no lapses of a running worker's lease.
SPECIFICATION FairSpec
CONSTANTS
    Worker = {w1, w2}
    Plan = {p1}
    MaxJob = 2
    MaxItem = 1
    MaxLapses = 0
    MaxFaults = 0
    None = None
PROPERTIES
    InFlightSettles
    FirstInLineRuns
    NextOwnerRepairsPlan
