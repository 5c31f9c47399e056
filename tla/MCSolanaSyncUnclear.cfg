SPECIFICATION FairSyncSpec
CONSTANTS
    Workers = {w1}
    Events = {1, 2, 3, 4}
    Limit = 2
    Undecodable = {2}
    Rejected = {1}
    FaultKinds = {"rpc", "unclear"}
    MaxFaults = 2
INVARIANT PaidOncePerReply
 
\* Nothing is left to do once every event is settled.
CHECK_DEADLOCK FALSE
