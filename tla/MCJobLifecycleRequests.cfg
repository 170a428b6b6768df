SPECIFICATION Spec
CONSTANTS
    Project = {p1}
    Job = {j1, j2}
    Worker = {w1}
    Request = {r1, r2}
    None = None
    Orphan = Orphan
    Kinds = {"action", "retry", "cancel", "schedule"}
    Faults = {"crash", "commit", "lost"}
    SlowWorkers = FALSE
    SlowRequests = FALSE
    MaxAttempts = 2
    MaxPublish = 2
    MaxFaults = 1
SYMMETRY Symmetry
INVARIANTS OneActiveJobPerProject EndedReleasesReservation
PROPERTIES ImplementsSlots 
\* The mapping of ImplementsSlots chooses the active job of a project: there is
\* one, so it is the same for every permutation of the jobs.
CHECK_DEADLOCK FALSE
