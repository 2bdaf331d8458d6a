SPECIFICATION FairSpec
CONSTANTS
    t1 = t1  t2 = t2
    k1 = k1  k2 = k2  f1 = f1  f2 = f2
    Tasks = {t1, t2}
    Keys = {k1, k2}
    Prints = {f1, f2}
    Usages <- MCUsages
    Policy = "sample"
    Mandatory = {t2}
    InitialBalance = 1
    QueueSize = 1
    MinWorkers = 1
    MaxWorkers = 2
    CacheBuffer = 1
    FailureThreshold = 1
    HalfOpenRequests = 1
    MaxRecharges = 1
    MaxFaults = 1
    NoTask = NoTask  NoPrint = NoPrint  Absent = Absent  NoFlight = NoFlight  Failed = Failed
CHECK_DEADLOCK FALSE
INVARIANTS BilledAtMostOnce ClaimedIffCharged SkippedIsBilled CacheIsExact HalfOpenIsProbed
PROPERTIES AcceptedIsExecuted ExhaustedIsRefused
