SPECIFICATION SchedSpec
CONSTANTS
    ma = ma  mb = mb  nx = nx  s1 = s1
    Absent = Absent  None = None
    Instances = {s1}
    Monitors = {ma, mb}
    NewMonitors = {mb}
    Runners = {nx}
    Connected = {}
    Domain <- MCDomain
    DomainCap = 1
    Interval = 3
    Backoff = 1
    OnlineFor = 1
    MaxLag = 1
    MaxFaults = 1
INVARIANT SchedTypeOK
INVARIANT EarlyBounded
