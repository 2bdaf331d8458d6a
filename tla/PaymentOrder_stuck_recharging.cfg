SPECIFICATION Spec
CONSTANTS
    Handlers = {h1, h2}
    OrderType = "balance"
    CreateTradeNo = "local"
    NotifyTradeNo = "upstream"
    HasInviter = TRUE
    MaxFaults = 1
    FaultAt = {"crash"}
    LostAt = {}
INVARIANT PaidCanBeRetried
