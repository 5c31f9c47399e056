SPECIFICATION FairTxSpec
CONSTANTS
    Users <- MCUsers
    Monitors <- MCMonitors
    Runners <- MCRunners
    MonitorIds <- MCMonitorIds
    RunnerKeys <- MCRunnerKeys
    Owner <- MCOwner
    Stake <- MCStake
    InitCredit <- MCCredit
    Threshold = 30000
    Workers = {w1, w2}
    Free = Free
INVARIANTS
    TxTypeOK
    NoStaleRead
    PaidWhenDue
    PayoutsInRange
    RewardsConserved
    ChargesMatchRewards
PROPERTIES
    SettlesAtomically
    StepsConserveRewards
    SettlementEnds
