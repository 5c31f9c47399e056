SPECIFICATION OpSpec
CONSTANTS
    YearLen = 24
    WeeksAhead = 3
    LastDay = 29
    Clients = {"c1"}
    MaxOutages = 2
    RateMax = 2
    RateWindow = 3
    StreakMax = 1
    StreakWindow = 2
    Checks = {"ma"}
    Nodes = {"nx", "ny"}
    CheckEvery = 3
    NoNodeBackoff = 1
    NonceFloor = 4
    FreshFor = 3
    SendBuffer = 1
    ReportTime = 3
    Latencies = {20}
    Other = 0
    MaxLosses = 2
    Requests = {"h1", "h2"}
    Tasks = {"t1", "t2"}
    Batches <- MCBatches
    Absent = Absent
    NoMonitor = NoMonitor
INVARIANT BackendTypeOK
INVARIANT CurrentWeekCovered
INVARIANT RunLeavesWeeks
INVARIANT ResultsRouted
INVARIANT PipeTypeOK
 
INVARIANT RestOnce
INVARIANT SubmissionsBounded
PROPERTY ShutdownEnds
 
 
