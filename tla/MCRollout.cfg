SPECIFICATION Spec
CONSTANTS
    Delay = 3
    Grace = 20
    StopGrace <- MCStopGrace
    RequestTimeout = 15
    Bookkeeping = 5
    CheckLag = 2
    Tags = {1, 2}
    MaxDeploys = 2
    MaxFaults = 1
INVARIANTS
    AlwaysServed
    NothingIsCut
