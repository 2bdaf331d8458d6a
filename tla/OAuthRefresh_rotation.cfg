SPECIFICATION Spec
CHECK_DEADLOCK FALSE
CONSTANTS
    p1 = p1
    p2 = p2
    r1 = r1
    a1 = a1
    NoOne = NoOne
    None = None
    Processes <- MCProcesses
    Requests <- MCRequests
    Admins <- MCAdmins
    ProcessOf <- MCProcessOf
    MaxTokens = 2
    MaxRetries = 2
    MaxFaults = 2
INVARIANTS ErrorIsGenuine OneRefresher LiveTokenIsKept StaleCacheIsExplained
PROPERTIES DueIsSettled
