SPECIFICATION Spec
CONSTANTS
    Operations = {o1, o2}
    Lease = 6
    RenewInterval = 2
    TTL = 9
    MaxLag = 1
    MaxTime = 11
    MaxFaults = 0
SYMMETRY OperationSymmetry
INVARIANT RenewedWhileHeld
CHECK_DEADLOCK FALSE
