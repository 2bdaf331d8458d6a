SPECIFICATION Spec
CONSTANTS
    Requests = {r1, r2}
    Payloads = {p1, p2}
    Lease = 2
    TTL = 3
    Backoff = 1
    MaxLag = 1
    MaxRun = 2
    MaxTime = 6
    MaxFaults = 1
SYMMETRY RequestSymmetry
INVARIANTS
    OneExecutor
    OnceUnlessRenewed
PROPERTIES
    ReplayIsGenuine
CHECK_DEADLOCK FALSE
