SPECIFICATION Spec
CONSTANTS
    Request = {"r1"}
    Key = {"r1"}
    KeyOf <- OwnKey
    Client = {"c1"}
    ClientOf <- OneClient
    Instance = {"api"}
    HomeOf <- OneHome
    None = "none"
    Unattributed = {}
    RateLimit = 3
    RateLimitWindow = 1
    ClockSkew = 0
    Retention = 1
    MaxAttempts = 3
    BackoffBase = 2
    DispatchBatch = 1
    BudgetCap = 1
    BudgetRefill = 1
    BreakerThreshold = 2
    BreakerCooldown = 1
    MaxInFlight = 1
    MaxFaults = 0
    AgeCap = 6
INVARIANTS
    OneMailPerMessage
