SPECIFICATION Spec
CONSTANTS
    Request = {"r1", "r2"}
    Key = {"k1"}
    KeyOf <- OneKey
    Client = {"c1"}
    ClientOf <- OneClient
    Instance = {"api", "api2"}
    HomeOf <- TwoHomes
    None = "none"
    Unattributed = {"r1"}
    RateLimit = 3
    RateLimitWindow = 1
    ClockSkew = 0
    Retention = 1
    MaxAttempts = 2
    BackoffBase = 1
    DispatchBatch = 1
    BudgetCap = 1
    BudgetRefill = 1
    BreakerThreshold = 1
    BreakerCooldown = 1
    MaxInFlight = 2
    MaxFaults = 1
    AgeCap = 2
INVARIANTS
    DuplicateIsExplained
    AcceptedIsKept
    FindNeverMisses
    ReceiptStable
PROPERTIES
    SentIsFinal
    ImplementsDelivery
