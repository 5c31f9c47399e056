SPECIFICATION SyncSpec
CONSTANTS
    Workers = {w1}
    Events = {1, 2, 3}
    Limit = 2
    Undecodable = {2}
    Rejected = {1}
    FaultKinds = {"crash", "db", "rpc"}
    MaxFaults = 2
INVARIANT SyncTypeOK
PROPERTY PaysAtMostOnce
PROPERTY DoneIsFinal
\* Nothing is left to do once every event is settled.
CHECK_DEADLOCK FALSE
