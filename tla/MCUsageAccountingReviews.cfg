SPECIFICATION FairSpec
CONSTANTS
    Job = {j1}
    Engine = {e1, e2}
    Reconciler = {r1, r2}
    None = None
    Limit = 4
    Estimates = {2}
    MaxCalls = 2
    MaxRuns = 1
    Faults = {"db", "ack", "crash"}
    MaxFaults = 4
\* no symmetry: liveness is checked
INVARIANTS UsageAccounted
PROPERTIES OutboxDrains
CHECK_DEADLOCK FALSE
