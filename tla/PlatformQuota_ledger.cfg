SPECIFICATION Spec
CHECK_DEADLOCK FALSE
CONSTANTS
    Requests = {r1, r2}
    Flushers = {f1, f2}
    Limit = 2
    MaxDays = 1
    MaxServed = 3
    MaxFaults = 2
    None = None
INVARIANTS LedgerIsExact EntryIsComplete AheadIsMarked
PROPERTIES RowCatchesUp
