SPECIFICATION FairSpec
CONSTANTS
    Request = {"r1"}
    Key = {"r1"}
    KeyOf <- OwnKey
    Client = {"c1"}
    ClientOf <- OneClient
    Instance = {"api"}
    HomeOf <- OneHome
    None = "none"
    Unattributed = {}
    RateLimit = 3
    RateLimitWindow = 1
    ClockSkew = 0
    Retention = 1
    MaxAttempts = 5
    BackoffBase = 2
    DispatchBatch = 1
    BudgetCap = 1
    BudgetRefill = 1
    BreakerThreshold = 3
    BreakerCooldown = 10
    MaxInFlight = 1
    MaxFaults = 1
    AgeCap = 30
INVARIANTS
    TypeOK
    QueuedHasAttemptsLeft
PROPERTIES
    QueuedIsSettled
