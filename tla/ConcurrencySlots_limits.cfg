SPECIFICATION FairSpec
CONSTANTS
    Instances = {i1, i2}
    Requests = {r1, r2}
    Tokens = {t1, t2, t3}
    MaxConcurrency = 1
    MaxWaiting = 2
    SlotTTL = 3
    WaitTTL = 2
    WaitTimeout = 1
    MaxRun = 2
    MaxFaults = 2
    NoToken = NoToken
    Nowhere = Nowhere
INVARIANTS
    ConcurrencyBound
PROPERTIES
    LeakedSlotsFreed
    CountResets
