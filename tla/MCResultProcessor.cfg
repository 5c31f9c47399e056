SPECIFICATION FairProcSpec
CONSTANTS
    Users <- MCUsers
    Monitors <- MCMonitors
    Runners <- MCRunners
    Owner <- MCOwner
    Stake <- MCStake
    InitCredit <- MCCredit
    Threshold = 20000
    Processors = {w1, w2}
    Packets = {"batch", "late", "garbage"}
    PacketRunner <- MCRunner
    Results <- MCResults
    NoMonitor = "none"
    Malformed = {"garbage"}
    Prefetch = 2
    MaxFaults = 2
INVARIANTS
    ProcTypeOK
    NoPacketLost
    AckHitsCurrent
    LogsArePaidFor
    OverbillingBounded
 
\* Nothing is left to do once every packet is finished.
CHECK_DEADLOCK FALSE
