SPECIFICATION FairSpec
CONSTANTS
    MinName = 2
    MaxName = 3
    MaxEmail = 4
    MinMessage = 2
    MaxMessage = 3
    Drafts <- FormDrafts
    Compared <- RuleDrafts
    Blank <- Empty
    MaxPress = 2
    MinDwell = 2
    Attempts = 8
    RateLimit = 1
    Window = 2
    Sub = 4
    MaxRetry = 2
INVARIANTS
    ReceiptNamesARow
    ScreenIsOneSend
    SentenceIsTrue
    LockMatchesFloor
    MirrorLeansLoose
PROPERTIES
    PressEnds
