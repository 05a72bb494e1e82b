\* Items of a plan and clean-ups that raise: two worker processes, one plan of two items, one job.
SPECIFICATION Spec
SYMMETRY WorkerSymmetry
CONSTANTS
    Worker = {w1, w2}
    Plan = {p1}
    MaxJob = 1
    MaxItem = 2
    MaxLapses = 1
    MaxFaults = 1
    None = None
INVARIANTS
    NoUnsettledIntent
    NoFalseSuccess
    NoForgottenJob
PROPERTY
    FencedWrites
