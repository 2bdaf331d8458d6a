SPECIFICATION FairSpec
CONSTANTS
    Handlers = {h1, h2}
    OrderType = "balance"
    CreateTradeNo = "local"
    NotifyTradeNo = "upstream"
    HasInviter = TRUE
    MaxFaults = 2
    FaultAt <- RecoverableFaults
    LostAt <- RecoverableFaults
INVARIANTS
    AckedIsAccounted
    CreditedAtMostOnce
PROPERTIES
    PaidIsSettled
    PromiseKept
