SPECIFICATION Spec
CONSTANTS
    Instance = {a, b}
    Replaying = {a}
    Nobody = Nobody
    Horizon = 5
    PastLogs <- MCPastLogs
    MaxProbes = 2
    MaxFaults = 2
    Attempts = 2
    DayLength = 2
    OutageChecks = 2
    Lookback = 2
    AggregateEvery = 1
INVARIANTS
    ReportsStand
    EtagMeansReplayed
    GridCatchesUp
    UpsertsNeverDeadlock
\* The watch ends at the horizon.
CHECK_DEADLOCK FALSE
