SPECIFICATION Spec
CONSTANTS
    Client = {"c1"}
    Thread = {"t1", "t2"}
    Janitor = "janitor"
    Burst = 2
    Unit = 2
    Refill = 2
    FillTime = 2
    IdleTTL = 2
    SweepEvery = 1
    MaxStale = 1
    Horizon = 6
INVARIANTS
    BurstRefillAndRepeats
    ForgottenInTime
PROPERTIES
    RefusalIsEarned
