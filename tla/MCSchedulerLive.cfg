SPECIFICATION FairSchedSpec
CONSTANTS
    ma = ma  mb = mb  nx = nx  s1 = s1
    Absent = Absent  None = None
    Instances = {s1}
    Monitors = {ma, mb}
    NewMonitors = {}
    Runners = {nx}
    Connected = {nx}
    Domain <- MCDomain
    DomainCap = 1
    Interval = 2
    Backoff = 1
    OnlineFor = 1
    MaxLag = 0
    MaxFaults = 1
 
PROPERTY GhostsLeave
