\* Two processes and a time to live of three renewal intervals as in
\* _lock_settings (ttl / 3), with every fault of Redis and of the workers; two
\* dashboards that draw two identifiers.
CONSTANTS
    Process = {p1, p2}
    None = None
    TTL = 3
    Wait = 1
    MaxFailures = 3
    Servers = {s1, s2}
    LocalStarts = 2
    Troubles <- MCTroubles
SPECIFICATION EngineSpec
PROPERTIES ImplementsSections LockRecovers LocalRecordsHold
CHECK_DEADLOCK FALSE
