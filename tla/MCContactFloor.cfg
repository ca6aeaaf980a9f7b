SPECIFICATION Spec
CONSTANTS
    Request = {"r1", "r2", "r3", "r4"}
    Key = {"r1", "r2", "r3", "r4"}
    KeyOf <- OwnKey
    Client = {"c1"}
    ClientOf <- OneClient
    Instance = {"api"}
    HomeOf <- OneHome
    None = "none"
    Unattributed = {}
    RateLimit = 2
    RateLimitWindow = 3
    ClockSkew = 1
    Retention = 3
    MaxAttempts = 1
    BackoffBase = 1
    DispatchBatch = 2
    BudgetCap = 1
    BudgetRefill = 0
    BreakerThreshold = 1
    BreakerCooldown = 1
    MaxInFlight = 2
    MaxFaults = 0
    AgeCap = 4
INVARIANTS
    OvershootIsBounded
PROPERTIES
    RetryAfterIsExact
