SPECIFICATION Spec
CONSTANTS
    Job = {j1, j2}
    Engine = {e1}
    Reconciler = {r1, r2}
    None = None
    Limit = 3
    Estimates = {0, 2}
    MaxCalls = 1
    MaxRuns = 2
    Faults = {"db", "ack", "crash", "timeout"}
    MaxFaults = 4
SYMMETRY Symmetry
INVARIANTS TypeOK CounterMatchesLedger NeverOvercharged ReservationsFit
CHECK_DEADLOCK FALSE
