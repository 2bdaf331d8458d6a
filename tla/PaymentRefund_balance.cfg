SPECIFICATION RefundSpec
CONSTANTS
    Handlers = {h1}
    Admins = {a1, a2}
    OrderType = "balance"
    CreateTradeNo = "local"
    NotifyTradeNo = "upstream"
    HasInviter = FALSE
    MaxFaults = 3
    FaultAt <- MarkedFaults
    LostAt = {"complete"}
    Amount = 2
    OpeningCredit = 1
SYMMETRY RequestSymmetry
INVARIANTS
    OneRefunder
    RefundedAtMostOnce
    RefundBooksBalance
    DeductedAtMostOnce
