SPECIFICATION Spec
CONSTANTS
    Instance = {"api", "api2"}
    RefreshEvery = 2
    StaleAfter = 4
    MaxAttempts = 2
    BreakerThreshold = 2
    BreakerCooldown = 4
INVARIANTS
    RecoversInTime
PROPERTIES
    ProbesAreSpaced
