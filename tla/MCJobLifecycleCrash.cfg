SPECIFICATION Spec
CONSTANTS
    Project = {p1}
    Job = {j1, j2}
    Worker = {w1, w2}
    Request = {r1}
    None = None
    Orphan = Orphan
    Kinds = {"action", "retry"}
    Faults = {"crash", "lost", "duplicate", "redis"}
    SlowWorkers = TRUE
    SlowRequests = FALSE
    MaxAttempts = 2
    MaxPublish = 2
    MaxFaults = 2
SYMMETRY Symmetry
INVARIANTS TypeOK QueuedIsUnclaimed AttemptsBounded
PROPERTIES NeverReactivated NotRestartedUnaccounted
CHECK_DEADLOCK FALSE
