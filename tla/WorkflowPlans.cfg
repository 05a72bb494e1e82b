\* A deduplication and an advanced organizer, one user and one scheduled job; the
\* workflow may be deleted and created again.  The samples of PathGraph
\* and BatchUtilities have no successor.
SPECIFICATION MCSpec
CONSTANTS
    scan = scan tidy = tidy
    u1 = u1 j1 = j1 d1 = d1 d2 = d2 a = a b = b c = c
    Dir = {d1, d2}
    Name = {a, b, c}
    Definition = {scan, tidy}
    Mode <- ModeOf
    Id = {1}
    PlanId = {1, 2}
    Job = {j1}
    Client = {u1}
    MaxRevision = 2
    MaxEdits = 4
    MaxDrifts = 1
    None = None
INVARIANTS
    NewPlanHasItsRevision
    DraftIsWhatWasPreviewed
    TruthfulSchedule
    OrderIsExecutable
    UtilityPlanIsExecutable
PROPERTY
    ScheduledJobSettles
CONSTRAINT Disturbances
CHECK_DEADLOCK FALSE
