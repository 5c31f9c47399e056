SPECIFICATION SyncSpec
CONSTANTS
    Workers = {w1, w2}
    Events = {1}
    Limit = 1
    Undecodable = {}
    Rejected = {}
    FaultKinds = {}
    MaxFaults = 0
INVARIANT PaidOnce
\* Nothing is left to do once every event is settled.
CHECK_DEADLOCK FALSE
