SPECIFICATION FairSpec
CONSTANTS
    Pollers = {p1}
    Rebuilders = {f1}
    Writers = {w1}
    TxWriters = {x1}
    MaxChanges = 2
    MaxFaults = 2
    NoOne = NoOne
    Empty = Empty
CHECK_DEADLOCK FALSE
 
PROPERTIES CopyConverges OutboxIsConsumed
