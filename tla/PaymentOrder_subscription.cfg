SPECIFICATION Spec
CONSTANTS
    Handlers = {h1, h2}
    OrderType = "subscription"
    CreateTradeNo = "none"
    NotifyTradeNo = "none"
    HasInviter = TRUE
    MaxFaults = 2
    FaultAt <- AllFaults
    LostAt <- AllFaults
SYMMETRY HandlerSymmetry
INVARIANTS
    OneFulfiller
    RebatedAtMostOnce
    GrantedOncePerFault
    CompletedIsCredited
PROPERTIES
    PaidNeverForgotten
