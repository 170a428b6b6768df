SPECIFICATION Spec
CONSTANTS
    Project = {p1}
    Job = {j1, j2}
    Worker = {w1}
    Request = {r1, r2}
    None = None
    Orphan = Orphan
    Kinds = {"action", "create", "archive", "schedule", "retest", "tenant"}
    Faults = {"crash", "commit", "api"}
    SlowWorkers = FALSE
    SlowRequests = FALSE
    MaxAttempts = 3
    MaxPublish = 2
    MaxFaults = 1
SYMMETRY Symmetry
INVARIANTS BusyHasJob
CHECK_DEADLOCK FALSE
