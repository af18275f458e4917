SPECIFICATION Spec
CONSTANTS
    Labels <- MCOneLabel
    DefaultLabel = "a"
    Urls <- MCUrls
    DefaultUrl = "u"
    FlushEvery = 2
    Mishaps = {"malformed"}
    MaxFresh = 2
    MaxRequests = 1
    MaxEdits = 1
    MaxFaults = 0
INVARIANTS
    NeverLockedOut
CHECK_DEADLOCK FALSE
