SPECIFICATION Spec
CONSTANTS
    Operations = {o1, o2}
    Lease = 6
    RenewInterval = 2
    TTL = 9
    MaxLag = 1
    MaxTime = 13
    MaxFaults = 1
SYMMETRY OperationSymmetry
INVARIANTS
    MutualExclusion
    LockedWhileHeld
CHECK_DEADLOCK FALSE
