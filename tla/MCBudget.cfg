SPECIFICATION Spec
CONSTANTS
    Caller = {"submit", "dispatch"}
    PerHour = 3
    Unit = 2
    Rate = 3
    Hour = 2
    MaxStale = 1
    Horizon = 7
INVARIANTS
    TypeOK
    BurstPlusRefill
PROPERTIES
    RefusalIsEarned
