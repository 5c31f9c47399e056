SPECIFICATION ProcSpec
CONSTANTS
    Users <- MCUsers
    Monitors <- MCMonitors
    Runners <- MCRunners
    Owner <- MCOwner
    Stake <- MCStake
    InitCredit <- MCCredit
    Threshold = 20000
    Processors = {w1}
    Packets = {"late"}
    PacketRunner <- MCRunner
    Results <- MCResults
    NoMonitor = "none"
    Malformed = {}
    Prefetch = 2
    MaxFaults = 0
INVARIANT SettledOnce
\* Nothing is left to do once every packet is finished.
CHECK_DEADLOCK FALSE
