SPECIFICATION FairSpec
CONSTANTS
    Project = {p1}
    Job = {j1}
    Worker = {w1, w2}
    Request = {r1}
    None = None
    Orphan = Orphan
    Kinds = {"action", "cancel"}
    Faults = {"crash", "lost", "duplicate", "publish", "commit", "api"}
    SlowWorkers = TRUE
    SlowRequests = FALSE
    MaxAttempts = 2
    MaxPublish = 4
    MaxFaults = 2
\* no symmetry: EveryJobEnds is a liveness property
PROPERTIES EveryJobEnds
CHECK_DEADLOCK FALSE
